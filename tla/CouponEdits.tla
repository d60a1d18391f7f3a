---------------------------- MODULE CouponEdits ----------------------------
(* Fulfilment while somebody edits the coupon in the back office: `update` *)
(* of coupons-admin.service.ts finds the coupon without a lock and writes  *)
(* every column back as it was read, used_count among them.                *)
EXTENDS Fulfilment

CONSTANT NoEdit

VARIABLE edit   \* the used_count an edit read and has yet to write back

varsEdited == <<vars, edit>>

EditFind ==
  /\ edit = NoEdit
  /\ edit' = used
  /\ UNCHANGED vars

EditSave ==
  /\ edit # NoEdit
  /\ used' = edit
  /\ edit' = NoEdit
  /\ UNCHANGED <<stock, order, click, cancelling, sweep, crashes>>

InitEdited == Init /\ edit = NoEdit

NextEdited ==
  \/ Next /\ UNCHANGED edit
  \/ EditFind
  \/ EditSave

SpecEdited == InitEdited /\ [][NextEdited]_varsEdited
=============================================================================
