------------------------------ MODULE Payments ------------------------------
(***************************************************************************)
(* The money of one order: order-payments.service.ts, the webhook of       *)
(* payments.service.ts, the two totals order-writes.service.ts derives and *)
(* the cancellation that refunds.                                          *)
(*                                                                         *)
(* Here the row locks are kept apart, for a capture takes the payment's    *)
(* and then the order's, and money received by staff the order's and then  *)
(* the payment's.  A transaction advances as it gets each lock and writes  *)
(* when it has the last one; until then nobody sees anything of it, so     *)
(* its locks are all there is to keep.  A transaction that needs only the  *)
(* order's lock is one step.                                               *)
(*                                                                         *)
(* The cash book is what the order's money has moved in the branch's       *)
(* accounts, together, and the references posted.  The back office opens   *)
(* and closes accounts at any time, so whether the branch has one able to  *)
(* hold a method's money may be answered either way at every posting.      *)
(***************************************************************************)
EXTENDS Integers, Sequences, FiniteSets, Functions

CONSTANTS
  Payment,         \* rows of orders_payment for this order
  First,           \* the one written at checkout
  NoPayment,
  Client, Idle,    \* requests that span several locks; one not under way
  Event,           \* the provider's events
  Key, NoKey,
  GrandTotal,
  MaxRefunds       \* rows of orders_refund, at most

ASSUME PaymentsAssumption ==
  /\ First \in Payment /\ NoPayment \notin Payment
  /\ NoKey \notin Key
  /\ GrandTotal \in Nat \ {0}
  /\ MaxRefunds \in Nat
  /\ IsFiniteSet(Payment)

VARIABLES
  order,       \* status, and the totals the order keeps of its payments
  payment,     \* [Payment -> PaymentRow]
  refunds,     \* orders_refund, oldest first
  balance,     \* what the order's money moved in the branch's accounts
  posted,      \* payments and refunds the cash book has an entry for
  kind,        \* what each of the provider's events says
  result,      \* orders_paymentevent.result, UNSEEN until the row is there
  tx,          \* transactions waiting for a lock
  cancelling   \* a cancel was let through, on a status read without a lock

vars == <<order, payment, refunds, balance, posted, kind, result, tx, cancelling>>

money == <<order, payment, refunds, balance, posted>>

(* CONFIRMED stands for PROCESSING too, PACKED for what follows it.        *)
Status == {"PENDING", "CONFIRMED", "PACKED", "CANCELLED"}

Method == {"ONLINE", "COD"}

CAPTURED_STATES == {"CAPTURED", "PARTIALLY_REFUNDED", "REFUNDED"}

(* The method is checkout's throughout: only its payment ever waits, and   *)
(* nothing asks by which method money that came at once did.               *)
PaymentRow ==
  [status : {"NONE", "PENDING", "FAILED"} \cup CAPTURED_STATES,
   method : Method, amount : 0 .. GrandTotal, refunded : Nat,
   key : Key \cup {NoKey}]

RefundRow == [amount : 1 .. 2 * GrandTotal, key : Key \cup {NoKey}]

Hooks ==
  [kind : {"hook"}, at : {"event", "payment", "order"}, event : Event,
   payment : Payment \cup {NoPayment}]

Receives ==
  [kind : {"receive"}, payment : Payment, amount : 1 .. GrandTotal,
   key : Key \cup {NoKey}]

-----------------------------------------------------------------------------
(* Who holds which row.                                                    *)

Hooking(c, steps) ==
  tx[c] # Idle /\ tx[c].kind = "hook" /\ tx[c].at \in steps

OrderLocked == \E c \in Client : tx[c] # Idle /\ tx[c].kind = "receive"

PaymentLocked(p) ==
  \E c \in Client : Hooking(c, {"order"}) /\ tx[c].payment = p

(* An event row inserted and not committed: a second insert of it waits.   *)
EventLocked(e) ==
  \E c \in Client : Hooking(c, {"payment", "order"}) /\ tx[c].event = e

-----------------------------------------------------------------------------
(* The totals and the cash book.                                           *)

CapturedSum(pay) ==
  SumFunctionOnSet([p \in Payment |-> pay[p].amount],
                   {p \in Payment : pay[p].status \in CAPTURED_STATES})

RefundedSum(list) ==
  SumFunction([i \in DOMAIN list |-> list[i].amount])

(* `refreshPaymentStatus`: both totals from the rows.                      *)
Refreshed(status, pay, list) ==
  [status |-> status, paid |-> CapturedSum(pay),
   refunded |-> RefundedSum(list)]

(* `recordForReference` with an account found, which must hold the method's*)
(* money: asked only of a reference the book has no entry for yet.         *)
Post(reference, delta) ==
  IF reference \in posted
  THEN UNCHANGED <<balance, posted>>
  ELSE /\ balance' = balance + delta
       /\ posted' = posted \cup {reference}

(* Slip: the order's total posted, not the payment's amount.               *)
CapturePostsTotal(p, pay) ==
  /\ payment' = pay
  /\ order' = Refreshed(order.status, pay, refunds)
  /\ UNCHANGED refunds
  /\ \/ Post(<<"payment", p>>, GrandTotal)
     \/ UNCHANGED <<balance, posted>>

(* Payment p as captured rows `pay` have it: its money posted, once, unless*)
(* the branch has no account for it, and the order's totals derived again. *)
Capture(p, pay) ==
  /\ payment' = pay
  /\ order' = Refreshed(order.status, pay, refunds)
  /\ UNCHANGED refunds
  /\ \/ Post(<<"payment", p>>, pay[p].amount)
     \/ UNCHANGED <<balance, posted>>

(* The captured payments that took the most money; the query breaks no tie.*)
Sources ==
  {p \in Payment :
     /\ payment[p].status \in CAPTURED_STATES
     /\ \A q \in Payment : payment[q].status \in CAPTURED_STATES
                             => payment[q].amount <= payment[p].amount}

(* `refundOrder` past its checks: all of it against one payment (D153).    *)
(* Given back the way it came, the money leaves the account that payment is*)
(* in; by another method, or when it is in none, the branch's account for  *)
(* the method, if it has one.                                              *)
Refund(amount, key, status, sameWay) ==
  \E p \in Sources :
    LET taken == payment[p].refunded + amount
        pay   == [payment EXCEPT
                    ![p].refunded = taken,
                    ![p].status = IF taken >= payment[p].amount
                                  THEN "REFUNDED" ELSE "PARTIALLY_REFUNDED"]
        list  == Append(refunds, [amount |-> amount, key |-> key])
    IN  /\ refunds' = list
        /\ payment' = pay
        /\ order' = Refreshed(status, pay, list)
        /\ \/ Post(<<"refund", Len(list)>>, -amount)
           \/ /\ sameWay => <<"payment", p>> \notin posted
              /\ UNCHANGED <<balance, posted>>

-----------------------------------------------------------------------------
(* The provider's webhook.                                                 *)

(* The view's reads, before the transaction: the order's payment the       *)
(* provider was asked for and that still waits.  The provider sends an     *)
(* event again, and several times at once; one that is sent when its row is*)
(* there already finds it, as HookEvent has it, and changes nothing.       *)
HookFind(c, e) ==
  /\ tx[c] = Idle
  /\ result[e] = "UNSEEN"
  /\ tx' = [tx EXCEPT
              ![c] = [kind |-> "hook", at |-> "event", event |-> e,
                      payment |-> IF /\ payment[First].status = "PENDING"
                                     /\ payment[First].method = "ONLINE"
                                  THEN First ELSE NoPayment]]
  /\ UNCHANGED <<money, kind, result, cancelling>>

(* Slip: the event not deduplicated, its result written over.              *)
HookEventAgain(c) ==
  /\ Hooking(c, {"event"})
  /\ ~EventLocked(tx[c].event)
  /\ LET e == tx[c].event
         over == tx[c].payment = NoPayment \/ kind[e] = "mismatch"
     IN  /\ result' = [result EXCEPT
                         ![e] = IF tx[c].payment = NoPayment THEN "ignored"
                                ELSE IF kind[e] = "mismatch" THEN "amount_mismatch"
                                ELSE @]
         /\ tx' = [tx EXCEPT ![c] = IF over THEN Idle
                                    ELSE [@ EXCEPT !.at = "payment"]]
  /\ UNCHANGED <<money, kind, cancelling>>

(* Slip: the event's row committed first, its work in another transaction. *)
HookEventFirst(c) ==
  /\ Hooking(c, {"event"})
  /\ ~EventLocked(tx[c].event)
  /\ LET e == tx[c].event
         over == \/ result[e] # "UNSEEN"
                 \/ tx[c].payment = NoPayment
                 \/ kind[e] = "mismatch"
     IN  /\ result' = [result EXCEPT
                         ![e] = IF @ # "UNSEEN" THEN @
                                ELSE IF kind[e] = "mismatch" THEN "amount_mismatch"
                                ELSE "ignored"]
         /\ tx' = [tx EXCEPT ![c] = IF over THEN Idle
                                    ELSE [@ EXCEPT !.at = "payment"]]
  /\ UNCHANGED <<money, kind, cancelling>>

(* The event's row: already there, and its result is the answer; or        *)
(* inserted, and nothing to do when no payment waits or the amount is not  *)
(* the payment's.                                                          *)
HookEvent(c) ==
  /\ Hooking(c, {"event"})
  /\ ~EventLocked(tx[c].event)
  /\ LET e == tx[c].event
         over == \/ result[e] # "UNSEEN"
                 \/ tx[c].payment = NoPayment
                 \/ kind[e] = "mismatch"
     IN  /\ result' = [result EXCEPT
                         ![e] = IF @ # "UNSEEN" THEN @
                                ELSE IF tx[c].payment = NoPayment THEN "ignored"
                                ELSE IF kind[e] = "mismatch" THEN "amount_mismatch"
                                ELSE @]
         /\ tx' = [tx EXCEPT ![c] = IF over THEN Idle
                                    ELSE [@ EXCEPT !.at = "payment"]]
  /\ UNCHANGED <<money, kind, cancelling>>

(* `capture` with the payment locked: a waiting one goes on to the order's *)
(* lock; one captured already is left as it is; a failed one is a Conflict,*)
(* and the event's row goes with the transaction.                          *)
HookCapture(c) ==
  /\ Hooking(c, {"payment"})
  /\ kind[tx[c].event] = "capture"
  /\ ~PaymentLocked(tx[c].payment)
  /\ LET status == payment[tx[c].payment].status IN
       /\ tx' = [tx EXCEPT ![c] = IF status = "PENDING"
                                  THEN [@ EXCEPT !.at = "order"] ELSE Idle]
       /\ result' = IF status \in CAPTURED_STATES
                    THEN [result EXCEPT ![tx[c].event] = "captured"] ELSE result
  /\ UNCHANGED <<money, kind, cancelling>>

HookCommit(c) ==
  /\ Hooking(c, {"order"})
  /\ kind[tx[c].event] = "capture"
  /\ ~OrderLocked
  /\ Capture(tx[c].payment,
             [payment EXCEPT ![tx[c].payment].status = "CAPTURED"])
  /\ result' = [result EXCEPT ![tx[c].event] = "captured"]
  /\ tx' = [tx EXCEPT ![c] = Idle]
  /\ UNCHANGED <<kind, cancelling>>

(* Slip: a captured payment marked failed by a late event.                 *)
HookFailAnyway(c) ==
  /\ Hooking(c, {"payment"})
  /\ kind[tx[c].event] = "failure"
  /\ ~PaymentLocked(tx[c].payment)
  /\ tx' = [tx EXCEPT ![c].at = "order"]
  /\ UNCHANGED <<money, kind, result, cancelling>>

(* `fail`: refused, with the event's row, for a payment captured meanwhile.*)
HookFail(c) ==
  /\ Hooking(c, {"payment"})
  /\ kind[tx[c].event] = "failure"
  /\ ~PaymentLocked(tx[c].payment)
  /\ tx' = [tx EXCEPT ![c] = IF payment[@.payment].status \in CAPTURED_STATES
                             THEN Idle ELSE [@ EXCEPT !.at = "order"]]
  /\ UNCHANGED <<money, kind, result, cancelling>>

(* The timeline's entry refers to the order, which the foreign key, checked*)
(* as the transaction commits, waits for.                                  *)
HookFailed(c) ==
  /\ Hooking(c, {"order"})
  /\ kind[tx[c].event] = "failure"
  /\ ~OrderLocked
  /\ payment' = [payment EXCEPT ![tx[c].payment].status = "FAILED"]
  /\ result' = [result EXCEPT ![tx[c].event] = "failed"]
  /\ tx' = [tx EXCEPT ![c] = Idle]
  /\ UNCHANGED <<order, refunds, balance, posted, kind, cancelling>>

-----------------------------------------------------------------------------
(* Money staff receive.                                                    *)

PaymentKeyed(key) == key # NoKey /\ \E p \in Payment : payment[p].key = key

(* Slip: the key not looked up (D167).                                     *)
MayReceiveAgain(amount, key) ==
  /\ order.status # "CANCELLED"
  /\ amount <= GrandTotal - order.paid

(* What `receive` asks under the order's lock.                             *)
MayReceive(amount, key) ==
  /\ ~PaymentKeyed(key)
  /\ order.status # "CANCELLED"
  /\ amount <= GrandTotal - order.paid

Waiting(method) ==
  {p \in Payment : payment[p].status = "PENDING" /\ payment[p].method = method}

(* A payment of its own, captured as it is written (`recordCaptured`).     *)
NewCaptured(amount, key) ==
  \E p \in Payment :
    /\ payment[p].status = "NONE"
    /\ Capture(p, [payment EXCEPT ![p].status = "CAPTURED",
                                  ![p].amount = amount, ![p].key = key])

(* No payment of the method waits: the order's lock is all it needs.       *)
ReceiveNew(method, amount, key) ==
  /\ ~OrderLocked
  /\ MayReceive(amount, key)
  /\ Waiting(method) = {}
  /\ NewCaptured(amount, key)
  /\ UNCHANGED <<kind, result, tx, cancelling>>

(* One waits: the order is locked, and the payment's row is asked for.     *)
(* (A spare row is the model's bound: the table has no last one.)          *)
ReceiveOrder(c, method, amount, key) ==
  /\ tx[c] = Idle
  /\ ~OrderLocked
  /\ MayReceive(amount, key)
  /\ \E p \in Payment : payment[p].status = "NONE"
  /\ \E p \in Waiting(method) :
       tx' = [tx EXCEPT
                ![c] = [kind |-> "receive", payment |-> p, amount |-> amount,
                        key |-> key]]
  /\ UNCHANGED <<money, kind, result, cancelling>>

(* The row it waited for still waits, and for this amount: it is captured, *)
(* with the key.  Otherwise the money is a payment of its own.  An account *)
(* staff named that cannot hold it (D95) refuses the whole of it.          *)
ReceivePayment(c) ==
  /\ tx[c] # Idle
  /\ tx[c].kind = "receive"
  /\ LET p == tx[c].payment IN
       /\ ~PaymentLocked(p)
       /\ \/ IF payment[p].status = "PENDING" /\ payment[p].amount = tx[c].amount
             THEN Capture(p, [payment EXCEPT ![p].status = "CAPTURED",
                                             ![p].key = tx[c].key])
             ELSE NewCaptured(tx[c].amount, tx[c].key)
          \/ UNCHANGED money
  /\ tx' = [tx EXCEPT ![c] = Idle]
  /\ UNCHANGED <<kind, result, cancelling>>

-----------------------------------------------------------------------------
(* Transactions that do not end by themselves.                             *)

(* The webhook has the payment and wants the order, the receipt has the    *)
(* order and wants the payment: PostgreSQL rolls one of the two back.      *)
Deadlocked(c) ==
  \E d \in Client \ {c} :
    \/ /\ Hooking(c, {"order"})
       /\ tx[d] # Idle /\ tx[d].kind = "receive"
       /\ tx[d].payment = tx[c].payment
    \/ /\ tx[c] # Idle /\ tx[c].kind = "receive"
       /\ Hooking(d, {"order"})
       /\ tx[d].payment = tx[c].payment

DeadlockAbort(c) ==
  /\ Deadlocked(c)
  /\ tx' = [tx EXCEPT ![c] = Idle]
  /\ UNCHANGED <<money, kind, result, cancelling>>

(* The API dies: what was not committed never happened.                    *)
Restart ==
  /\ \E c \in Client : tx[c] # Idle
  /\ tx' = [c \in Client |-> Idle]
  /\ cancelling' = FALSE
  /\ UNCHANGED <<money, kind, result>>

-----------------------------------------------------------------------------
(* What takes the order's lock alone.                                      *)

(* Slip: measured against what was paid, refunded since or not.            *)
RefundOrderOfPaid(amount, key) ==
  /\ ~OrderLocked
  /\ Len(refunds) < MaxRefunds
  /\ key = NoKey \/ \A i \in DOMAIN refunds : refunds[i].key # key
  /\ amount <= order.paid
  /\ Refund(amount, key, order.status, FALSE)
  /\ UNCHANGED <<kind, result, tx, cancelling>>

(* `refund`, from the back office.                                         *)
RefundOrder(amount, key) ==
  /\ ~OrderLocked
  /\ Len(refunds) < MaxRefunds
  /\ key = NoKey \/ \A i \in DOMAIN refunds : refunds[i].key # key
  /\ amount <= order.paid - order.refunded
  /\ Refund(amount, key, order.status, FALSE)
  /\ UNCHANGED <<kind, result, tx, cancelling>>

CancelFound ==
  /\ ~cancelling
  /\ order.status \in {"PENDING", "CONFIRMED"}
  /\ cancelling' = TRUE
  /\ UNCHANGED <<money, kind, result, tx>>

(* Slip: a refund of nothing let through.                                  *)
CancelLockedOfNothing ==
  /\ cancelling
  /\ ~OrderLocked
  /\ cancelling' = FALSE
  /\ order.status # "PACKED" /\ order.paid > 0
  /\ Len(refunds) < MaxRefunds
  /\ Refund(order.paid - order.refunded, NoKey, "CANCELLED", TRUE)
  /\ UNCHANGED <<kind, result, tx>>

(* `cancelFound`'s transaction: the status moved, unless it is there       *)
(* already, and what the order holds refunded, the way it came.  Refused,  *)
(* and nothing of it kept, once PACKED, with all the money back already, or*)
(* when the account the money is in is closed or short.                    *)
CancelLocked ==
  /\ cancelling
  /\ ~OrderLocked
  /\ cancelling' = FALSE
  /\ LET held == order.paid - order.refunded IN
       \/ /\ order.status = "PACKED" \/ order.paid > 0
          /\ UNCHANGED money
       \/ /\ order.status # "PACKED" /\ order.paid = 0
          /\ order' = [order EXCEPT !.status = "CANCELLED"]
          /\ UNCHANGED <<payment, refunds, balance, posted>>
       \/ /\ order.status # "PACKED" /\ held > 0
          /\ Len(refunds) < MaxRefunds
          /\ Refund(held, NoKey, "CANCELLED", TRUE)
  /\ UNCHANGED <<kind, result, tx>>

(* `expireReservation`, which asks under the lock all that put the order on*)
(* its sweep's list.                                                       *)
SweepExpire ==
  /\ ~OrderLocked
  /\ order.status = "PENDING" /\ order.paid <= order.refunded
  /\ order' = [order EXCEPT !.status = "CANCELLED"]
  /\ UNCHANGED <<payment, refunds, balance, posted, kind, result, tx, cancelling>>

Advance ==
  /\ ~OrderLocked
  /\ \/ order.status = "PENDING" /\ order' = [order EXCEPT !.status = "CONFIRMED"]
     \/ order.status = "CONFIRMED" /\ order' = [order EXCEPT !.status = "PACKED"]
  /\ UNCHANGED <<payment, refunds, balance, posted, kind, result, tx, cancelling>>

-----------------------------------------------------------------------------

(* Checkout left the order with one payment for all of it, waiting         *)
(* (`recordPendingPayment`); COD is confirmed at once.                     *)
Init ==
  /\ \E method \in Method :
       /\ order = [status |-> IF method = "COD" THEN "CONFIRMED" ELSE "PENDING",
                   paid |-> 0, refunded |-> 0]
       /\ payment =
            [p \in Payment |->
               [status |-> IF p = First THEN "PENDING" ELSE "NONE",
                method |-> method,
                amount |-> IF p = First THEN GrandTotal ELSE 0,
                refunded |-> 0, key |-> NoKey]]
  /\ refunds = <<>>
  /\ balance = 0
  /\ posted = {}
  /\ kind \in [Event -> {"capture", "failure", "mismatch"}]
  /\ result = [e \in Event |-> "UNSEEN"]
  /\ tx = [c \in Client |-> Idle]
  /\ cancelling = FALSE

Webhook ==
  \/ \E c \in Client, e \in Event : HookFind(c, e)
  \/ \E c \in Client : HookEvent(c)
  \/ \E c \in Client : HookCapture(c)
  \/ \E c \in Client : HookCommit(c)
  \/ \E c \in Client : HookFail(c)
  \/ \E c \in Client : HookFailed(c)

Staff ==
  \/ \E method \in Method, amount \in 1 .. GrandTotal,
        key \in Key \cup {NoKey} : ReceiveNew(method, amount, key)
  \/ \E c \in Client, method \in Method, amount \in 1 .. GrandTotal,
        key \in Key \cup {NoKey} : ReceiveOrder(c, method, amount, key)
  \/ \E c \in Client : ReceivePayment(c)
  \/ \E amount \in 1 .. GrandTotal, key \in Key \cup {NoKey} :
       RefundOrder(amount, key)
  \/ CancelFound
  \/ CancelLocked
  \/ Advance

Next ==
  \/ Webhook
  \/ Staff
  \/ SweepExpire
  \/ \E c \in Client : DeadlockAbort(c)
  \/ Restart

Spec == Init /\ [][Next]_vars

-----------------------------------------------------------------------------
(* Properties.                                                             *)

(* Every variable keeps its type.                                          *)
TypeOK ==
  /\ order \in [status : Status, paid : Nat, refunded : Nat]
  /\ payment \in [Payment -> PaymentRow]
  /\ refunds \in Seq(RefundRow)
  /\ balance \in Int
  /\ posted \subseteq {"payment", "refund"} \X (Payment \cup 1 .. MaxRefunds)
  /\ kind \in [Event -> {"capture", "failure", "mismatch"}]
  /\ result \in [Event -> {"UNSEEN", "ignored", "amount_mismatch", "captured",
                           "failed"}]
  /\ tx \in [Client -> Hooks \cup Receives \cup {Idle}]
  /\ cancelling \in BOOLEAN

(* The order's two totals are what its rows say, and no more is ever given *)
(* back than was taken, whichever refunds, cancels and retries met.        *)
RefundsWithinPaid ==
  /\ order.paid = CapturedSum(payment)
  /\ order.refunded = RefundedSum(refunds)
  /\ order.refunded <= order.paid

PostedPayments ==
  {p \in Payment : <<"payment", p>> \in posted
                     /\ payment[p].status \in CAPTURED_STATES}

PostedRefunds == {i \in DOMAIN refunds : <<"refund", i>> \in posted}

(* The book: the accounts have moved by the captured payments and the      *)
(* refunds it has entries for, each once and by its own amount.  So all    *)
(* they lack of the order's money is what verify_accounts lists as posted  *)
(* to no account.                                                          *)
BookAgrees ==
  balance = SumFunctionOnSet([p \in Payment |-> payment[p].amount], PostedPayments)
            - SumFunctionOnSet([i \in DOMAIN refunds |-> refunds[i].amount],
                               PostedRefunds)

(* A request sent twice with one key makes one payment and one refund      *)
(* (business-rules 5.5).                                                   *)
KeyedOnce ==
  /\ \A p, q \in Payment :
       payment[p].key # NoKey /\ payment[p].key = payment[q].key => p = q
  /\ \A i, j \in DOMAIN refunds :
       refunds[i].key # NoKey /\ refunds[i].key = refunds[j].key => i = j

(* Money taken stays taken: no late or reordered event, and no second      *)
(* capture, puts a captured payment back to waiting or failed.             *)
CapturedStays ==
  [][\A p \in Payment :
       payment[p].status \in CAPTURED_STATES
         => payment'[p].status \in CAPTURED_STATES]_vars

(* An event is settled once, and settled as captured only when the money   *)
(* it speaks of is on the order.                                           *)
SettledEventHolds ==
  [][\A e \in Event :
       /\ result[e] # "UNSEEN" => result'[e] = result[e]
       /\ result'[e] = "captured" => payment'[First].status \in CAPTURED_STATES]_vars

(* The provider sends an event until it is answered, so once one that says *)
(* the money came has its answer, the payment it is about waits no longer: *)
(* no deadlock, restart or lost race answers a capture and drops it.       *)
NoCaptureLost ==
  \A e \in Event :
    kind[e] = "capture" /\ result[e] # "UNSEEN"
      => ~(payment[First].status = "PENDING" /\ payment[First].method = "ONLINE")

(* business-rules 5.7: a payment past what is outstanding is refused, so   *)
(* an order never holds more than its total.                               *)
NeverOverpaid == order.paid <= GrandTotal
=============================================================================
