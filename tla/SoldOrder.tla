----------------------------- MODULE SoldOrder -----------------------------
(***************************************************************************)
(* One order after its checkout or its till: the row that parcels, returns *)
(* and refunds meet at, and what staff do to it directly.  Each operation  *)
(* holds the order's row lock throughout and is one step:                  *)
(* order-writes.service.ts, staff-order-actions.service.ts, and receive,   *)
(* capture and refundOrder of order-payments.service.ts.                   *)
(*                                                                         *)
(* Shipments, Returns and CounterReturns extend this module with the       *)
(* handlers that read outside of the lock; Aftersales puts them together.  *)
(* Money is in paisa.  Payments has the payments behind `paid`, Stock the  *)
(* rows behind `shelf`.                                                    *)
(***************************************************************************)
EXTENDS Integers, FiniteSets, Functions, OrderStatus

CONSTANTS
  Line,              \* the order's lines
  Quantity,          \* units sold, by line
  GrandTotal,
  Return, NoReturn,  \* rows of orders_returnrequest
  Exchange,          \* Idempotency-Keys of exchanges at the counter
  Key, NoKey,        \* Idempotency-Keys of refunds
  Given              \* amounts staff type in

(* A refund's key: the caller's, `exchange:<key>`, or `return:<id>`, for   *)
(* which the exchange and the return themselves stand.                     *)
RefundKey == Key \cup Exchange \cup Return

ASSUME SoldOrderAssumption ==
  /\ IsFiniteSet(Line) /\ Quantity \in [Line -> Nat \ {0}]
  /\ GrandTotal \in Nat \ {0} /\ Given \subseteq Nat \ {0}
  /\ NoKey \notin RefundKey /\ NoReturn \notin Return
  /\ Key \cap Exchange = {} /\ Key \cap Return = {} /\ Exchange \cap Return = {}

VARIABLES
  channel,    \* ONLINE or POS
  status,
  committed,  \* stock_committed
  paid,       \* paid_total
  waiting,    \* checkout's payment waits for the gateway
  refunded,   \* refunded_total
  refund,     \* the rows of orders_refund that have a key, by key
  back,       \* returned_quantity, by line
  shelf       \* units a return or a void put back on the shelf, by line

money == <<paid, waiting, refunded, refund>>
goods == <<back, shelf>>
orderVars == <<channel, status, committed, money, goods>>

RefundRow == [amount : Nat, of : Return \cup {NoReturn}]
NotRefunded == [amount |-> 0, of |-> NoReturn]

OrderTypeOK ==
  /\ channel \in {"ONLINE", "POS"}
  /\ status \in Status
  /\ committed \in BOOLEAN
  /\ paid \in Nat
  /\ waiting \in BOOLEAN
  /\ refunded \in 0 .. paid
  /\ refund \in [RefundKey -> RefundRow]
  /\ back \in [Line -> Nat]
  /\ shelf \in [Line -> Nat]

(* An online order confirmed: paid, still to be paid at the gateway, or at *)
(* the door; or a sale at the counter, paid and carried away.              *)
OrderInit ==
  /\ \/ /\ channel = "ONLINE" /\ status = "CONFIRMED" /\ committed = FALSE
        /\ paid \in {0, GrandTotal} /\ waiting \in BOOLEAN
        /\ waiting => paid = 0
     \/ /\ channel = "POS" /\ status = "DELIVERED" /\ committed = TRUE
        /\ paid = GrandTotal /\ waiting = FALSE
  /\ refunded = 0
  /\ refund = [k \in RefundKey |-> NotRefunded]
  /\ back = [l \in Line |-> 0]
  /\ shelf = [l \in Line |-> 0]

Refundable == paid - refunded

-----------------------------------------------------------------------------
(* `transition`, on the edges that move no stock.                          *)
CanMove(to) == to \in ALLOWED_TRANSITIONS[status]

Advance(to) ==
  /\ CanMove(to)
  /\ to \notin {"PACKED", "CANCELLED"}
  /\ status' = to
  /\ UNCHANGED <<channel, committed, money, goods>>

Pack ==
  /\ CanMove("PACKED")
  /\ status' = "PACKED"
  /\ committed' = TRUE
  /\ UNCHANGED <<channel, money, goods>>

(* `refundOrder`: a key another refund holds answers with that refund.  A  *)
(* slip asks only what was paid.                                           *)
RefundEnteredOfPaid(key, amount, of) ==
  /\ amount \in 1 .. paid
  /\ refunded' = refunded + amount
  /\ refund' = IF key = NoKey THEN refund
               ELSE [refund EXCEPT ![key] = [amount |-> amount, of |-> of]]

RefundEntered(key, amount, of) ==
  \/ /\ key # NoKey /\ refund[key].amount > 0
     /\ UNCHANGED <<refunded, refund>>
  \/ /\ key # NoKey => refund[key].amount = 0
     /\ amount \in 1 .. Refundable
     /\ refunded' = refunded + amount
     /\ refund' = IF key = NoKey THEN refund
                  ELSE [refund EXCEPT ![key] = [amount |-> amount, of |-> of]]

(* `cancelFound`, as it commits: the edge asked again under the lock, and  *)
(* what is held sent back.  Paid and refunded in full, the refund of       *)
(* nothing is refused and the cancellation with it.                        *)
Cancel ==
  /\ CanMove("CANCELLED") /\ ~committed
  /\ IF paid = 0 THEN UNCHANGED <<refunded, refund>>
     ELSE RefundEntered(NoKey, Refundable, NoReturn)
  /\ status' = "CANCELLED"
  /\ UNCHANGED <<channel, committed, paid, waiting, goods>>

(* `receive`: money staff take, in one piece or several, within what is    *)
(* outstanding.  The whole of it, by the gateway's method, captures the    *)
(* payment that waits.  A slip forgets the cancelled.                      *)
OwesNothingReturned == {"RETURNED", "REFUNDED"}
OWES_NOTHING == {"CANCELLED", "RETURNED", "REFUNDED"}

TakeMoney(amount) ==
  /\ status \notin OWES_NOTHING
  /\ amount <= GrandTotal - paid
  /\ paid' = paid + amount
  /\ \/ waiting' = waiting
     \/ waiting /\ amount = GrandTotal /\ waiting' = FALSE
  /\ UNCHANGED <<channel, status, committed, refunded, refund, goods>>

(* The gateway's event: `capture` asks of the payment alone, not of the    *)
(* order's status nor of what it still owes ...                            *)
GatewayCaptures ==
  /\ waiting
  /\ waiting' = FALSE
  /\ paid' = paid + GrandTotal
  /\ UNCHANGED <<channel, status, committed, refunded, refund, goods>>

(* ... or it failed, and nothing comes of it any more.                     *)
GatewayFails ==
  /\ waiting
  /\ waiting' = FALSE
  /\ UNCHANGED <<channel, status, committed, paid, refunded, refund, goods>>

(* The refund route: any amount, on an order in any status.                *)
RefundByStaff(amount, key) ==
  /\ RefundEntered(key, amount, NoReturn)
  /\ UNCHANGED <<channel, status, committed, paid, waiting, goods>>

OrderNext ==
  \/ \E to \in Status : Advance(to)
  \/ Pack
  \/ Cancel
  \/ \E amount \in Given \cup {GrandTotal} : TakeMoney(amount)
  \/ GatewayCaptures
  \/ GatewayFails
  \/ \E amount \in Given, key \in Key \cup {NoKey} : RefundByStaff(amount, key)
=============================================================================
