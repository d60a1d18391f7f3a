----------------------------- MODULE Shipments -----------------------------
(***************************************************************************)
(* Parcels booked for an order and what the courier says of them:          *)
(* shipments.service.ts.  A booking and a tracking event hold the order's  *)
(* row and are one step.  An edit holds nothing: it finds the parcel, and  *)
(* later writes every column back, the status it read and the order it     *)
(* names among them.                                                       *)
(*                                                                         *)
(* The stamps dispatched_at and delivered_at follow the status and are     *)
(* left out, as are couriers and tracking numbers.  A parcel that an edit  *)
(* took to or brought from another order is `moved`: its events may move   *)
(* this order or that one.                                                 *)
(***************************************************************************)
EXTENDS SoldOrder

CONSTANTS
  Parcel,
  Event,     \* the statuses events may name
  MaxEdits

VARIABLES
  parcel,   \* shipping_shipment
  moved,    \* parcels an edit has moved between orders
  editing,  \* the status an edit has read and will write back
  edits     \* edits begun

parcelVars == <<parcel, moved, editing, edits>>

ParcelStatus ==
  {"PENDING", "DISPATCHED", "IN_TRANSIT", "DELIVERED", "FAILED", "RETURNED"}
FINISHED == {"DELIVERED", "RETURNED"}

ASSUME ShipmentsAssumption == Event \subseteq ParcelStatus /\ MaxEdits \in Nat

SHIPPABLE == {"CONFIRMED", "PROCESSING", "PACKED", "SHIPPED"}
DISPATCHABLE == {"PACKED", "SHIPPED", "DELIVERED"}

(* NONE: not booked yet.  GONE: deleted.                                   *)
ParcelTypeOK ==
  /\ parcel \in [Parcel -> ParcelStatus \cup {"NONE", "GONE"}]
  /\ moved \subseteq Parcel
  /\ editing \in [Parcel -> ParcelStatus \cup {"NONE"}]
  /\ edits \in 0 .. MaxEdits

ParcelInit ==
  /\ parcel = [p \in Parcel |-> "NONE"]
  /\ moved = {}
  /\ editing = [p \in Parcel |-> "NONE"]
  /\ edits = 0

Booked == {p \in Parcel : parcel[p] \in ParcelStatus}

(* `create`.                                                               *)
Book(p) ==
  /\ parcel[p] = "NONE"
  /\ status \in SHIPPABLE
  /\ parcel' = [parcel EXCEPT ![p] = "PENDING"]
  /\ UNCHANGED <<orderVars, moved, editing, edits>>

(* Slip: only an order the shop marked shipped is delivered.               *)
OrderInStepOnceShipped(to) ==
  /\ status' = CASE to = "DISPATCHED" /\ status = "PACKED" -> "SHIPPED"
                 [] to = "DELIVERED" /\ status = "SHIPPED" -> "DELIVERED"
                 [] OTHER -> status
  /\ UNCHANGED <<channel, committed, money, goods>>

(* What an event does to the order it locked.                              *)
OrderInStep(to) ==
  /\ status' = CASE to = "DISPATCHED" /\ status = "PACKED" -> "SHIPPED"
                 [] to = "DELIVERED" /\ status \in {"SHIPPED", "PACKED"}
                      -> "DELIVERED"
                 [] OTHER -> status
  /\ UNCHANGED <<channel, committed, money, goods>>

(* Not to be added to once finished; not to leave before its order is      *)
(* packed.                                                                 *)
MayRecord(p, to) ==
  /\ parcel[p] \in ParcelStatus \ FINISHED
  /\ parcel[p] = "PENDING" /\ to # "PENDING" => status \in DISPATCHABLE

(* `recordEvent`, under the locks of this order and the parcel.            *)
RecordEvent(p, to) ==
  /\ MayRecord(p, to)
  /\ parcel' = [parcel EXCEPT ![p] = to]
  /\ OrderInStep(to)
  /\ UNCHANGED <<moved, editing, edits>>

(* The same, found when the parcel was another order's: that one is locked *)
(* and moved, in whatever status it is.                                    *)
RecordEventElsewhere(p, to) ==
  /\ p \in moved
  /\ parcel[p] \in ParcelStatus \ FINISHED
  /\ parcel' = [parcel EXCEPT ![p] = to]
  /\ UNCHANGED <<orderVars, moved, editing, edits>>

(* `update`: the parcel found ...                                          *)
EditFind(p) ==
  /\ p \in Booked
  /\ editing[p] = "NONE"
  /\ edits < MaxEdits
  /\ editing' = [editing EXCEPT ![p] = parcel[p]]
  /\ edits' = edits + 1
  /\ UNCHANGED <<orderVars, parcel, moved>>

(* ... and written back, if it is still there, on this order or another.   *)
EditSave(p, elsewhere) ==
  /\ editing[p] # "NONE"
  /\ IF p \in Booked
     THEN /\ parcel' = [parcel EXCEPT ![p] = editing[p]]
          /\ moved' = IF elsewhere THEN moved \cup {p} ELSE moved
     ELSE UNCHANGED <<parcel, moved>>
  /\ editing' = [editing EXCEPT ![p] = "NONE"]
  /\ UNCHANGED <<orderVars, edits>>

(* `destroy`: its history with it.                                         *)
Destroy(p) ==
  /\ p \in Booked
  /\ parcel' = [parcel EXCEPT ![p] = "GONE"]
  /\ UNCHANGED <<orderVars, moved, editing, edits>>

ParcelNext ==
  \E p \in Parcel :
    \/ Book(p)
    \/ \E to \in Event : RecordEvent(p, to) \/ RecordEventElsewhere(p, to)
    \/ EditFind(p)
    \/ \E elsewhere \in BOOLEAN : EditSave(p, elsewhere)
    \/ Destroy(p)

-----------------------------------------------------------------------------
HasLeft(s) == s \in ParcelStatus \ {"PENDING"}

(* A courier's late or early event never outruns the shop: a parcel that   *)
(* left was packed, so its order is neither waiting nor cancelled, and one *)
(* delivered leaves an order delivered or on its way back - in whatever    *)
(* order staff, events and edits come.                                     *)
OrderFollowsParcels ==
  \A p \in Parcel \ moved :
    /\ HasLeft(parcel[p]) =>
         status \notin {"PENDING", "CONFIRMED", "PROCESSING", "CANCELLED"}
    /\ parcel[p] = "DELIVERED" =>
         status \in {"DELIVERED", "RETURN_REQUESTED", "RETURNED", "REFUNDED"}
=============================================================================
