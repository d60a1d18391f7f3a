----------------------------- MODULE Fulfilment -----------------------------
(***************************************************************************)
(* An online order from the cart to the courier: checkout.service.ts,      *)
(* order-lifecycle.service.ts, order-writes.service.ts, the cancel routes  *)
(* of staff-order-actions.service.ts, the coupon's use in                  *)
(* coupons.service.ts and the sweep of unpaid orders in                    *)
(* job-handlers.service.ts, with the row of stock they all meet at.        *)
(*                                                                         *)
(* A transaction that holds the order's row lock (or, at checkout, has     *)
(* claimed the idempotency key) is one step.  What is read outside of it - *)
(* the priced cart, the status a cancel is refused on, the sweep's list -  *)
(* is a step of its own, and is stale when it is used.                     *)
(*                                                                         *)
(* Money is only whether the order holds any (paid_total > refunded_total);*)
(* Payments has the amounts.  One branch; `counter_sells_reserved` is off, *)
(* Stock has it.                                                           *)
(***************************************************************************)
EXTENDS Integers, FiniteSets, Functions, OrderStatus

CONSTANTS
  Order, Variant,
  Click, NoClick,    \* checkout requests; one that is not under way
  Key, NoKey,        \* idempotency keys
  Customer, NoCustomer,
  Worker,            \* job workers that may run the sweep
  AllowOversell,
  UsageLimit,        \* the coupon's usage_limit
  PerCustomer,       \* its usage_limit_per_customer
  MaxQty,            \* largest quantity of a line
  MaxShelf,          \* largest figure a correction sets
  MaxCrashes         \* worker processes lost in a run

ASSUME FulfilmentAssumption ==
  /\ AllowOversell \in BOOLEAN
  /\ UsageLimit \in Nat /\ PerCustomer \in Nat \ {0}
  /\ MaxQty \in Nat \ {0} /\ MaxShelf \in Nat /\ MaxCrashes \in Nat
  /\ NoKey \notin Key /\ NoCustomer \notin Customer
  /\ IsFiniteSet(Order)

VARIABLES
  onHand, reserved,  \* the inventory row's cached figures, by variant
  order,             \* orders_order, with the order's coupon redemption
  used,              \* the coupon's used_count
  click,             \* checkouts between the priced cart and the key
  cancelling,        \* orders a cancel was let through for, before its lock
  sweep,             \* what is left of each worker's list of expired orders
  crashes

vars == <<onHand, reserved, order, used, click, cancelling, sweep, crashes>>

stock == <<onHand, reserved>>

CANCELLABLE == {"PENDING", "CONFIRMED", "PROCESSING"}

Lines == [Variant -> 0 .. MaxQty]
NoLines == [v \in Variant |-> 0]

(* `status` is NONE until the order is placed.                             *)
OrderRow ==
  [status : Status \cup {"NONE"}, committed : BOOLEAN, lines : Lines,
   key : Key \cup {NoKey}, customer : Customer \cup {NoCustomer},
   coupon : {"none", "live", "released"},
   money : {"none", "held", "returned"}]

Clicks ==
  [key : Key, lines : Lines, customer : Customer, coupon : BOOLEAN,
   cod : BOOLEAN]

Placed == {o \in Order : order[o].status # "NONE"}

Available(v) == onHand[v] - reserved[v]

Lesser(a, b) == IF a < b THEN a ELSE b

(* The coupon's redemptions that count: not released.                      *)
Live == {o \in Order : order[o].coupon = "live"}

(* `isExhausted` and the per-customer count, as validate and redeem ask.   *)
CouponLeft(customer) ==
  /\ used < UsageLimit
  /\ Cardinality({o \in Live : order[o].customer = customer}) < PerCustomer

KeyTaken(key) == \E o \in Order : order[o].key = key

-----------------------------------------------------------------------------
(* Checkout.                                                               *)

(* `placeOrder` up to its insert: the key looked up, the cart priced, a    *)
(* coupon that no longer holds dropped from it - all without a lock.       *)
Review(c, key, lines, customer, coupon, cod) ==
  /\ click[c] = NoClick
  /\ ~KeyTaken(key)
  /\ lines # NoLines
  /\ \A v \in Variant : Available(v) >= lines[v]
  /\ click' = [click EXCEPT
                 ![c] = [key |-> key, lines |-> lines, customer |-> customer,
                         coupon |-> coupon /\ CouponLeft(customer),
                         cod |-> cod]]
  /\ UNCHANGED <<stock, order, used, cancelling, sweep, crashes>>

(* Slip: what is on the shelf, not what is left of it.                     *)
CanReserveOnHand(lines) ==
  \A v \in Variant : lines[v] = 0 \/ AllowOversell \/ onHand[v] >= lines[v]

(* `reserve` under the row lock: every line, or none.                      *)
CanReserve(lines) ==
  \A v \in Variant : lines[v] = 0 \/ AllowOversell \/ Available(v) >= lines[v]

(* Slip: the limits asked when the cart was priced, and not again.         *)
CanRedeemAsReviewed(k) == TRUE

(* `redeem` under the coupon's lock: both limits asked again.              *)
CanRedeem(k) == ~k.coupon \/ CouponLeft(k.customer)

PlacedRow(k) ==
  [status |-> IF k.cod THEN "CONFIRMED" ELSE "PENDING", committed |-> FALSE,
   lines |-> k.lines, key |-> k.key, customer |-> k.customer,
   coupon |-> IF k.coupon THEN "live" ELSE "none", money |-> "none"]

(* Slip: the key not unique.                                               *)
PlaceAgain(c) ==
  /\ click[c] # NoClick
  /\ LET k == click[c] IN
       /\ CanReserve(k.lines) /\ CanRedeem(k)
       /\ \E o \in Order \ Placed : order' = [order EXCEPT ![o] = PlacedRow(k)]
       /\ reserved' = [v \in Variant |-> reserved[v] + k.lines[v]]
       /\ used' = IF k.coupon THEN used + 1 ELSE used
  /\ click' = [click EXCEPT ![c] = NoClick]
  /\ UNCHANGED <<onHand, cancelling, sweep, crashes>>

Place(c) ==
  /\ click[c] # NoClick
  /\ LET k == click[c] IN
       /\ ~KeyTaken(k.key) /\ CanReserve(k.lines) /\ CanRedeem(k)
       /\ \E o \in Order \ Placed : order' = [order EXCEPT ![o] = PlacedRow(k)]
       /\ reserved' = [v \in Variant |-> reserved[v] + k.lines[v]]
       /\ used' = IF k.coupon THEN used + 1 ELSE used
  /\ click' = [click EXCEPT ![c] = NoClick]
  /\ UNCHANGED <<onHand, cancelling, sweep, crashes>>

(* A key another click won is answered with that click's order; a cart the *)
(* shelf or the coupon no longer covers is rolled back whole.              *)
Unplaced(c) ==
  /\ click[c] # NoClick
  /\ LET k == click[c] IN
       KeyTaken(k.key) \/ ~CanReserve(k.lines) \/ ~CanRedeem(k)
  /\ click' = [click EXCEPT ![c] = NoClick]
  /\ UNCHANGED <<stock, order, used, cancelling, sweep, crashes>>

-----------------------------------------------------------------------------
(* The status machine, under the order's lock.                             *)

(* `transition` on the edges that move no stock.                           *)
ChangeStatus(o, to) ==
  /\ o \in Placed
  /\ to \in ALLOWED_TRANSITIONS[order[o].status] \ {"PACKED", "CANCELLED"}
  /\ order' = [order EXCEPT ![o].status = to]
  /\ UNCHANGED <<stock, used, click, cancelling, sweep, crashes>>

(* What `releaseReservation` and `consumeReservation` take off `reserved`: *)
(* never more than the row holds.                                          *)
Freed(lines) == [v \in Variant |-> Lesser(lines[v], reserved[v])]

(* Slip: the goods sold and their reservation left standing.               *)
PackUnreleased(o) ==
  /\ o \in Placed
  /\ "PACKED" \in ALLOWED_TRANSITIONS[order[o].status]
  /\ LET lines == IF order[o].committed THEN NoLines ELSE order[o].lines IN
       /\ \A v \in Variant :
            lines[v] = 0 \/ AllowOversell \/ onHand[v] >= lines[v]
       /\ onHand' = [v \in Variant |-> onHand[v] - lines[v]]
  /\ order' = [order EXCEPT ![o].status = "PACKED", ![o].committed = TRUE]
  /\ UNCHANGED <<reserved, used, click, cancelling, sweep, crashes>>

(* The PACKED edge: unless already taken, the reservation becomes a sale.  *)
Pack(o) ==
  /\ o \in Placed
  /\ "PACKED" \in ALLOWED_TRANSITIONS[order[o].status]
  /\ LET lines == IF order[o].committed THEN NoLines ELSE order[o].lines IN
       /\ \A v \in Variant :
            lines[v] = 0 \/ AllowOversell \/ onHand[v] >= lines[v]
       /\ reserved' = [v \in Variant |-> reserved[v] - Freed(lines)[v]]
       /\ onHand' = [v \in Variant |-> onHand[v] - lines[v]]
  /\ order' = [order EXCEPT ![o].status = "PACKED", ![o].committed = TRUE]
  /\ UNCHANGED <<used, click, cancelling, sweep, crashes>>

CanCancel(o) ==
  /\ "CANCELLED" \in ALLOWED_TRANSITIONS[order[o].status]
  /\ ~order[o].committed

(* Slips: a use given back that was never counted; a use never given back. *)
CancelledUncounted(o, money) ==
  /\ reserved' = [v \in Variant |-> reserved[v] - Freed(order[o].lines)[v]]
  /\ used' = used - 1
  /\ order' = [order EXCEPT
                 ![o].status = "CANCELLED",
                 ![o].coupon = IF @ = "live" THEN "released" ELSE @,
                 ![o].money = money]
  /\ UNCHANGED onHand

CancelledUseKept(o, money) ==
  /\ reserved' = [v \in Variant |-> reserved[v] - Freed(order[o].lines)[v]]
  /\ order' = [order EXCEPT
                 ![o].status = "CANCELLED",
                 ![o].coupon = IF @ = "live" THEN "released" ELSE @,
                 ![o].money = money]
  /\ UNCHANGED <<onHand, used>>

(* The CANCELLED edge: the reservation and the coupon's use given back.    *)
Cancelled(o, money) ==
  /\ reserved' = [v \in Variant |-> reserved[v] - Freed(order[o].lines)[v]]
  /\ used' = IF order[o].coupon = "live"
             THEN (IF used > 0 THEN used - 1 ELSE 0) ELSE used
  /\ order' = [order EXCEPT
                 ![o].status = "CANCELLED",
                 ![o].coupon = IF @ = "live" THEN "released" ELSE @,
                 ![o].money = money]
  /\ UNCHANGED onHand

-----------------------------------------------------------------------------
(* Cancelling by staff.                                                    *)

(* `cancelFound`: the status it was found in, read without a lock.         *)
CancelFound(o) ==
  /\ order[o].status \in CANCELLABLE
  /\ cancelling' = cancelling \cup {o}
  /\ UNCHANGED <<stock, order, used, click, sweep, crashes>>

(* ... then one transaction: the edge, and what is paid and not refunded   *)
(* sent back.  A refund of nothing is refused, and takes the cancellation  *)
(* with it: an order paid and refunded in full stays as it was.            *)
CancelLocked(o) ==
  /\ o \in cancelling
  /\ CanCancel(o)
  /\ order[o].money # "returned"
  /\ Cancelled(o, IF order[o].money = "held" THEN "returned" ELSE "none")
  /\ cancelling' = cancelling \ {o}
  /\ UNCHANGED <<click, sweep, crashes>>

(* Somebody cancelled it in between: the edge is not taken again, the      *)
(* refund still is.                                                        *)
CancelAgain(o) ==
  /\ o \in cancelling
  /\ order[o].status = "CANCELLED"
  /\ order' = [order EXCEPT ![o].money = IF @ = "held" THEN "returned" ELSE @]
  /\ cancelling' = cancelling \ {o}
  /\ UNCHANGED <<stock, used, click, sweep, crashes>>

CancelRefused(o) ==
  /\ o \in cancelling
  /\ order[o].status # "CANCELLED"
  /\ ~CanCancel(o) \/ order[o].money = "returned"
  /\ cancelling' = cancelling \ {o}
  /\ UNCHANGED <<stock, order, used, click, sweep, crashes>>

-----------------------------------------------------------------------------
(* Money, as this module needs it.                                         *)

(* A gateway's capture, whatever the order's status, or money staff        *)
(* receive.                                                                *)
TakeMoney(o) ==
  /\ o \in Placed
  /\ order[o].money = "none"
  /\ order' = [order EXCEPT ![o].money = "held"]
  /\ UNCHANGED <<stock, used, click, cancelling, sweep, crashes>>

(* A refund of all of it, from the back office.                            *)
GiveBack(o) ==
  /\ order[o].money = "held"
  /\ order' = [order EXCEPT ![o].money = "returned"]
  /\ UNCHANGED <<stock, used, click, cancelling, sweep, crashes>>

-----------------------------------------------------------------------------
(* The sweep of orders nobody paid for in time.                            *)

Unpaid(o) ==
  /\ order[o].status = "PENDING"
  /\ ~order[o].committed
  /\ order[o].money # "held"

(* Slip: a sweep that died is taken to be running still.                   *)
SweepListUntilCrash(w) ==
  /\ sweep[w] = {} /\ crashes = 0
  /\ \E o \in Order : Unpaid(o)
  /\ sweep' = [sweep EXCEPT ![w] = {o \in Order : Unpaid(o)}]
  /\ UNCHANGED <<stock, order, used, click, cancelling, crashes>>

(* `releaseExpiredReservations`: the list, read without a lock.  Time is   *)
(* not kept: whatever is unpaid when the sweep runs is past its window.    *)
SweepList(w) ==
  /\ sweep[w] = {}
  /\ \E o \in Order : Unpaid(o)
  /\ sweep' = [sweep EXCEPT ![w] = {o \in Order : Unpaid(o)}]
  /\ UNCHANGED <<stock, order, used, click, cancelling, crashes>>

(* Slip: only the edge asked for under the lock (D233).                    *)
ExpireListed(w, o) ==
  /\ o \in sweep[w]
  /\ CanCancel(o)
  /\ Cancelled(o, order[o].money)
  /\ sweep' = [sweep EXCEPT ![w] = @ \ {o}]
  /\ UNCHANGED <<click, cancelling, crashes>>

(* `expireReservation`: the question asked again with the row locked.      *)
Expire(w, o) ==
  /\ o \in sweep[w]
  /\ Unpaid(o)
  /\ Cancelled(o, order[o].money)
  /\ sweep' = [sweep EXCEPT ![w] = @ \ {o}]
  /\ UNCHANGED <<click, cancelling, crashes>>

LeaveAlone(w, o) ==
  /\ o \in sweep[w]
  /\ ~Unpaid(o)
  /\ sweep' = [sweep EXCEPT ![w] = @ \ {o}]
  /\ UNCHANGED <<stock, order, used, click, cancelling, crashes>>

(* A worker dies part way through its list; the job is never retried, the  *)
(* next run makes a list of its own.                                       *)
Crash(w) ==
  /\ crashes < MaxCrashes
  /\ sweep[w] # {}
  /\ sweep' = [sweep EXCEPT ![w] = {}]
  /\ crashes' = crashes + 1
  /\ UNCHANGED <<stock, order, used, click, cancelling>>

-----------------------------------------------------------------------------
(* The rest of the shop, as this row of stock sees it (Stock has it whole).*)

CounterSale(v, q) ==
  /\ AllowOversell \/ Available(v) >= q
  /\ onHand' = [onHand EXCEPT ![v] = @ - q]
  /\ UNCHANGED <<reserved, order, used, click, cancelling, sweep, crashes>>

(* A receipt, a write-off, a count: the shelf set to what is on it.        *)
Correct(v, n) ==
  /\ n # onHand[v]
  /\ onHand' = [onHand EXCEPT ![v] = n]
  /\ UNCHANGED <<reserved, order, used, click, cancelling, sweep, crashes>>

-----------------------------------------------------------------------------

Init ==
  /\ onHand = NoLines
  /\ reserved = NoLines
  /\ order = [o \in Order |->
                [status |-> "NONE", committed |-> FALSE, lines |-> NoLines,
                 key |-> NoKey, customer |-> NoCustomer, coupon |-> "none",
                 money |-> "none"]]
  /\ used = 0
  /\ click = [c \in Click |-> NoClick]
  /\ cancelling = {}
  /\ sweep = [w \in Worker |-> {}]
  /\ crashes = 0

Checkout ==
  \/ \E c \in Click, key \in Key, lines \in Lines, customer \in Customer,
        coupon, cod \in BOOLEAN : Review(c, key, lines, customer, coupon, cod)
  \/ \E c \in Click : Place(c)
  \/ \E c \in Click : Unplaced(c)

Staff ==
  \/ \E o \in Order, to \in Status : ChangeStatus(o, to)
  \/ \E o \in Order : Pack(o)
  \/ \E o \in Order : CancelFound(o)
  \/ \E o \in Order : CancelLocked(o)
  \/ \E o \in Order : CancelAgain(o)
  \/ \E o \in Order : CancelRefused(o)

Money ==
  \/ \E o \in Order : TakeMoney(o)
  \/ \E o \in Order : GiveBack(o)

Sweep ==
  \/ \E w \in Worker : SweepList(w)
  \/ \E w \in Worker, o \in Order : Expire(w, o)
  \/ \E w \in Worker, o \in Order : LeaveAlone(w, o)
  \/ \E w \in Worker : Crash(w)

Shelf ==
  \/ \E v \in Variant, q \in 1 .. MaxQty : CounterSale(v, q)
  \/ \E v \in Variant, n \in 0 .. MaxShelf : Correct(v, n)

Next == Checkout \/ Staff \/ Money \/ Sweep \/ Shelf

(* The scheduler starts the sweep every five minutes, and a sweep that     *)
(* runs works through its list.                                            *)
Fairness ==
  /\ \A w \in Worker : WF_vars(SweepList(w))
  /\ \A w \in Worker, o \in Order : WF_vars(Expire(w, o) \/ LeaveAlone(w, o))

Spec == Init /\ [][Next]_vars /\ Fairness

-----------------------------------------------------------------------------
(* Properties.                                                             *)

(* Every variable keeps its type; `reserved` and `used_count` never go     *)
(* below zero, as the two CHECK constraints of the schema ask.             *)
TypeOK ==
  /\ onHand \in [Variant -> Int]
  /\ reserved \in [Variant -> Nat]
  /\ order \in [Order -> OrderRow]
  /\ used \in Nat
  /\ click \in [Click -> Clicks \cup {NoClick}]
  /\ cancelling \subseteq Order
  /\ sweep \in [Worker -> SUBSET Order]
  /\ crashes \in 0 .. MaxCrashes

(* What order o is owed from the shelf: its lines, from the moment it is   *)
(* placed until it is packed or cancelled.                                 *)
PromiseOf(o) ==
  LET r == order[o] IN
  [state |-> IF r.status = "NONE" THEN "none"
             ELSE IF r.committed THEN "dispatched"
             ELSE IF r.status = "CANCELLED" THEN "withdrawn"
             ELSE "promised",
   lines |-> r.lines]

P == INSTANCE Promises WITH shelf <- onHand,
                            promise <- [o \in Order |-> PromiseOf(o)]

(* The counter `reserved`, the clamps, the sweep and the retried cancels   *)
(* implement the promise: an order placed holds its units against every    *)
(* other order and the counter, until it is dispatched with them or        *)
(* withdrawn, once.                                                        *)
KeepsPromises == P!Spec

(* The cached `reserved` is what the open orders are owed, no unit more:   *)
(* no release is lost, doubled or taken from another order's.              *)
ReservedIsOwed == \A v \in Variant : reserved[v] = P!Promised(v)

(* Both usage limits hold of the redemptions that count, and used_count    *)
(* counts exactly those, however checkouts and cancellations interleave    *)
(* (business-rules 3.3).                                                   *)
CouponLimits ==
  /\ Cardinality(Live) <= UsageLimit
  /\ \A u \in Customer :
       Cardinality({o \in Live : order[o].customer = u}) <= PerCustomer

UsedCountsLive == used = Cardinality(Live)

(* Clicks that carry one key place one order (business-rules 5.3).         *)
OneOrderPerKey ==
  \A o1, o2 \in Placed : order[o1].key = order[o2].key => o1 = o2

(* No step cancels an order and keeps its money: neither the sweep, acting *)
(* on a list made before the money came (D233, D246), nor staff (D166).    *)
CancelKeepsNoMoney ==
  [][\A o \in Order :
       order'[o].status = "CANCELLED" /\ order[o].status # "CANCELLED"
         => order'[o].money # "held"]_vars

(* An online order nobody pays for does not hold the shelf for ever, the   *)
(* sweep's crashes and stale lists notwithstanding.                        *)
UnpaidEventuallyExpires ==
  \A o \in Order :
    order[o].status = "PENDING" /\ order[o].money = "none"
      ~> order[o].status # "PENDING" \/ order[o].money = "held"
=============================================================================
