------------------------------ MODULE Promises ------------------------------
(***************************************************************************)
(* What the shop promises an online order, with no `reserved` counter, no  *)
(* coupon, no sweep and no retry in sight: units of the shelf that nobody  *)
(* but a correction of the shelf itself may take away, kept until the      *)
(* order is dispatched with exactly them, or withdrawn, once and for all.  *)
(* Fulfilment is shown to implement this.                                  *)
(***************************************************************************)
EXTENDS Integers, FiniteSets, Functions

CONSTANTS Order, Variant, MaxQty, AllowOversell

VARIABLES
  shelf,    \* units on hand of each variant
  promise   \* what each order was promised, and how that ended

Lines == [Variant -> 0 .. MaxQty]
Nothing == [v \in Variant |-> 0]

(* Units promised to somebody and not dispatched yet.                      *)
Promised(v) ==
  SumFunction([o \in Order |-> IF promise[o].state = "promised"
                               THEN promise[o].lines[v] ELSE 0])

Free(v) == shelf[v] - Promised(v)

Init ==
  /\ shelf = Nothing
  /\ promise = [o \in Order |-> [state |-> "none", lines |-> Nothing]]

Promise(o, lines) ==
  /\ promise[o].state = "none"
  /\ lines # Nothing
  /\ \A v \in Variant : lines[v] = 0 \/ AllowOversell \/ Free(v) >= lines[v]
  /\ promise' = [promise EXCEPT ![o] = [state |-> "promised", lines |-> lines]]
  /\ UNCHANGED shelf

Withdraw(o) ==
  /\ promise[o].state = "promised"
  /\ promise' = [promise EXCEPT ![o].state = "withdrawn"]
  /\ UNCHANGED shelf

Dispatch(o) ==
  /\ promise[o].state = "promised"
  /\ \A v \in Variant :
       promise[o].lines[v] = 0 \/ AllowOversell
         \/ shelf[v] >= promise[o].lines[v]
  /\ shelf' = [v \in Variant |-> shelf[v] - promise[o].lines[v]]
  /\ promise' = [promise EXCEPT ![o].state = "dispatched"]

CounterSale(v, q) ==
  /\ AllowOversell \/ Free(v) >= q
  /\ shelf' = [shelf EXCEPT ![v] = @ - q]
  /\ UNCHANGED promise

(* Receipts, write-offs and counts answer to the shelf alone.              *)
Correct(v) ==
  /\ AllowOversell \/ shelf'[v] >= 0
  /\ shelf' = [shelf EXCEPT ![v] = shelf'[v]]
  /\ UNCHANGED promise

Next ==
  \/ \E o \in Order, lines \in Lines : Promise(o, lines)
  \/ \E o \in Order : Withdraw(o) \/ Dispatch(o)
  \/ \E v \in Variant, q \in 1 .. MaxQty : CounterSale(v, q)
  \/ \E v \in Variant : Correct(v)

Spec == Init /\ [][Next]_<<shelf, promise>>
=============================================================================
