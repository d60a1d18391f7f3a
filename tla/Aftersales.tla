----------------------------- MODULE Aftersales -----------------------------
(***************************************************************************)
(* Parcels, returns, the till and staff over one order.  They meet in its  *)
(* row: a courier's event delivers what a return is asked of, a completion *)
(* closes what an event would move, a void cancels what is on its way      *)
(* back.                                                                   *)
(***************************************************************************)
EXTENDS Shipments, CounterReturns

vars == <<orderVars, parcelVars, returnVars, voids>>

TypeOK == OrderTypeOK /\ ParcelTypeOK /\ ReturnTypeOK /\ CounterTypeOK

Init == OrderInit /\ ParcelInit /\ ReturnInit /\ CounterInit

Next ==
  \/ OrderNext /\ UNCHANGED <<parcelVars, returnVars, voids>>
  \/ ParcelNext /\ UNCHANGED <<returnVars, voids>>
  \/ ReturnNext /\ UNCHANGED <<parcelVars, voids>>
  \/ CounterNext /\ UNCHANGED parcelVars

Spec == Init /\ [][Next]_vars
=============================================================================
