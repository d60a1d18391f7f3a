---------------------------- MODULE MCAftersales ----------------------------
(* One order of two units that are worth 1.50 each after its discount, and *)
(* 1 of shipping: half a paisa to round, up for one, not for both.         *)
EXTENDS Aftersales, TLC

CONSTANTS l1, l2, r1, r2

MCQuantity == (l1 :> 1) @@ (l2 :> 1)
MCLineTotal == (l1 :> 2) @@ (l2 :> 2)
MCTaxOnTop == (l1 :> 0) @@ (l2 :> 0)

(* Two things are followed beside each other: two returns, a return beside *)
(* a parcel, a return beside the voids of a POS sale (which is otherwise   *)
(* returned as an online order is), or one of these beside a payment that  *)
(* waits for the gateway or that came in parts or twice.                   *)
AtMostTwo ==
  Cardinality({r \in Return : ret[r].status # "NONE"})
    + Cardinality({p \in Parcel : parcel[p] # "NONE"})
    + (IF channel = "POS" THEN 1 ELSE 0)
    + (IF waiting \/ paid \notin {0, GrandTotal} THEN 1 ELSE 0) <= 2
=============================================================================
