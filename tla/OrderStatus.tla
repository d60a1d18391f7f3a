---------------------------- MODULE OrderStatus ----------------------------
(***************************************************************************)
(* The statuses of an order and the edges between them, as every service   *)
(* that moves an order asks them of `transition` in                        *)
(* order-writes.service.ts.                                                *)
(***************************************************************************)

Status == {"PENDING", "CONFIRMED", "PROCESSING", "PACKED", "SHIPPED",
           "DELIVERED", "RETURN_REQUESTED", "RETURNED", "REFUNDED", "CANCELLED"}

(* `ALLOWED_TRANSITIONS` of order-writes.service.ts.                       *)
ALLOWED_TRANSITIONS ==
  [PENDING          |-> {"CONFIRMED", "CANCELLED"},
   CONFIRMED        |-> {"PROCESSING", "CANCELLED"},
   PROCESSING       |-> {"PACKED", "CANCELLED"},
   PACKED           |-> {"SHIPPED", "DELIVERED"},
   SHIPPED          |-> {"DELIVERED", "RETURN_REQUESTED"},
   DELIVERED        |-> {"RETURN_REQUESTED"},
   RETURN_REQUESTED |-> {"RETURNED", "DELIVERED"},
   RETURNED         |-> {"REFUNDED"},
   REFUNDED         |-> {},
   CANCELLED        |-> {}]
=============================================================================
