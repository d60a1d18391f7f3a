--------------------------- MODULE CounterReturns ---------------------------
(***************************************************************************)
(* The till and an order already sold: a return and an exchange over the   *)
(* counter, each one transaction (returns.service.ts counterReturn,        *)
(* pos-exchanges.service.ts), and the void of a sale, which is decided on  *)
(* the order as it was read before its lock (pos-sales.service.ts).        *)
(*                                                                         *)
(* An exchange's new sale stands for nothing here but its key; what it     *)
(* takes off the shelf is in Stock.                                        *)
(***************************************************************************)
EXTENDS Returns

VARIABLE voids   \* voids under way that have passed their checks

CONSTANT MaxVoids

ASSUME CounterAssumption == MaxVoids \in Nat

CounterTypeOK == voids \in 0 .. MaxVoids
CounterInit == voids = 0

(* `counterReturn`: requested, approved, received and completed.           *)
CounterReturned(r, lines, restock, key, by) ==
  LET row == Asked(r, lines, "COMPLETED", by) IN
  /\ Unlocked(r) /\ ret[r].status = "NONE"
  /\ MayReturn(lines)
  /\ ret' = [ret EXCEPT ![r] = row]
  /\ Arrive(lines, restock)
  /\ PayReturn(r, row.refund, key)
  /\ status' = Closed(Opened, Plus(back, lines))
  /\ UNCHANGED <<channel, committed, paid, waiting, rejecting, voids>>

PosReturn(r, lines, restock) ==
  CounterReturned(r, lines, restock, NoKey, NoExchange)

(* `PosExchanges.create`, under the key's advisory lock.  A slip does not  *)
(* look for the sale the key made.                                         *)
FreshAsSent(key) == key \in Exchange
Fresh(key) == \A r \in Return : ret[r].by # key

ExchangeAt(key, r, lines, restock) ==
  /\ Fresh(key)
  /\ CounterReturned(r, lines, restock, key, key)

(* `void`: a POS sale not cancelled, as read ...                           *)
VoidFind ==
  /\ channel = "POS" /\ status # "CANCELLED"
  /\ voids < MaxVoids
  /\ voids' = voids + 1
  /\ UNCHANGED <<orderVars, returnVars>>

(* ... and locked: every line back on the shelf and what is held returned, *)
(* whatever the order has become.                                          *)
VoidLocked ==
  /\ voids > 0
  /\ voids' = voids - 1
  /\ shelf' = Plus(shelf, Quantity)
  /\ IF Refundable = 0 THEN UNCHANGED <<refunded, refund>>
     ELSE RefundEntered(NoKey, Refundable, NoReturn)
  /\ status' = "CANCELLED"
  /\ committed' = FALSE
  /\ UNCHANGED <<channel, paid, waiting, back, returnVars>>

CounterNext ==
  \/ \E r \in Return, lines \in Basket : \E restock \in SUBSET In(lines) :
       \/ PosReturn(r, lines, restock)
       \/ \E key \in Exchange : ExchangeAt(key, r, lines, restock)
  \/ VoidFind
  \/ VoidLocked

-----------------------------------------------------------------------------
(* An exchange's key is good for one return and one refund, however often  *)
(* the till sends it: the refund it holds is that return's, and cash.      *)
ExchangedOnce ==
  \A key \in Exchange :
    LET made == {r \in Return : ret[r].by = key} IN
    /\ Cardinality(made) <= 1
    /\ refund[key].amount > 0 => made = {refund[key].of}

(* Cancelling an order or voiding a sale gives back all that is held, in   *)
(* whatever pieces it came and whatever was refunded before; and of one    *)
(* cancelled no more is held after than before - but the payment that      *)
(* waited for the gateway, which is captured whole and nothing gives back. *)
CancelledKeepsNothing ==
  [][/\ status # "CANCELLED" /\ status' = "CANCELLED" => refunded' = paid'
     /\ status = "CANCELLED" =>
          \/ paid' - refunded' <= paid - refunded
          \/ waiting /\ ~waiting' /\ paid' = paid + GrandTotal]_orderVars
=============================================================================
