-------------------------- MODULE Fulfilment_proofs --------------------------
(***************************************************************************)
(* Proofs about Fulfilment, for any finite set of orders and any variants, *)
(* clicks, keys, customers, workers, limits and bounds.                    *)
(*                                                                         *)
(* What a step does to the rows of orders is one of six things (Step), and *)
(* all that the proofs after NextStep use of the actions.                  *)
(***************************************************************************)
EXTENDS Fulfilment, Sums

(* With the types: an order's row is blank before it is placed, a cancel is*)
(* let through for placed orders only, and a cart under way is not empty.  *)
Unwritten ==
  [status |-> "NONE", committed |-> FALSE, lines |-> NoLines, key |-> NoKey,
   customer |-> NoCustomer, coupon |-> "none", money |-> "none"]

Typed ==
  /\ TypeOK
  /\ \A o \in Order : order[o].status = "NONE" => order[o] = Unwritten
  /\ cancelling \subseteq Placed
  /\ \A c \in Click : click[c] # NoClick => click[c].lines # NoLines

-----------------------------------------------------------------------------
(* What a step does to the rows.                                           *)

(* No row but that of `o` changes.                                         *)
Only(o) == \A p \in Order : p # o => order'[p] = order[p]

(* Nothing changes but what is on the shelf.                               *)
ShelfMoved == UNCHANGED <<reserved, order, used>> /\ Shelf

Quiet == UNCHANGED <<onHand, reserved, order, used>>

(* The status and the money of `o`, which stays as promised or gone as it  *)
(* was.                                                                    *)
Restated(o) ==
  /\ o \in Placed
  /\ Only(o)
  /\ order'[o].status # "NONE"
  /\ (order'[o].status = "CANCELLED") = (order[o].status = "CANCELLED")
  /\ order'[o].committed = order[o].committed
  /\ order'[o].lines = order[o].lines
  /\ order'[o].key = order[o].key
  /\ order'[o].customer = order[o].customer
  /\ order'[o].coupon = order[o].coupon
  /\ UNCHANGED <<onHand, reserved, used>>

Placing(o, k) ==
  /\ o \notin Placed
  /\ Only(o)
  /\ k \in Clicks /\ k.lines # NoLines
  /\ order'[o] = PlacedRow(k)
  /\ ~KeyTaken(k.key) /\ CanReserve(k.lines) /\ CanRedeem(k)
  /\ \A v \in Variant : reserved'[v] = reserved[v] + k.lines[v]
  /\ used' = IF k.coupon THEN used + 1 ELSE used
  /\ UNCHANGED onHand

Packing(o) ==
  /\ o \in Placed
  /\ Only(o)
  /\ ~order[o].committed /\ order[o].status # "CANCELLED"
  /\ order'[o] = [order[o] EXCEPT !.status = "PACKED", !.committed = TRUE]
  /\ \A v \in Variant :
       order[o].lines[v] = 0 \/ AllowOversell \/ onHand[v] >= order[o].lines[v]
  /\ \A v \in Variant : reserved'[v] = reserved[v] - Freed(order[o].lines)[v]
  /\ onHand' = [v \in Variant |-> onHand[v] - order[o].lines[v]]
  /\ UNCHANGED used

CalledOff(o) ==
  /\ o \in Placed
  /\ Only(o)
  /\ ~order[o].committed /\ order[o].status # "CANCELLED"
  /\ order'[o].status = "CANCELLED" /\ ~order'[o].committed
  /\ order'[o].money # "held"
  /\ order'[o].lines = order[o].lines
  /\ order'[o].key = order[o].key
  /\ order'[o].customer = order[o].customer
  /\ order'[o].coupon = IF order[o].coupon = "live" THEN "released" ELSE order[o].coupon
  /\ \A v \in Variant : reserved'[v] = reserved[v] - Freed(order[o].lines)[v]
  /\ used' = IF order[o].coupon = "live"
             THEN (IF used > 0 THEN used - 1 ELSE 0) ELSE used
  /\ UNCHANGED onHand

Step ==
  \/ Quiet
  \/ ShelfMoved
  \/ \E o \in Order : Restated(o)
  \/ \E o \in Order : \E k \in Clicks : Placing(o, k)
  \/ \E o \in Order : Packing(o)
  \/ \E o \in Order : CalledOff(o)

-----------------------------------------------------------------------------
(* Every variable keeps its type.                                          *)

LEMMA InitTyped == Init => Typed
BY FulfilmentAssumption
   DEF Init, Typed, TypeOK, NoLines, OrderRow, Lines, Unwritten, Placed

(* A row of the table stays one when some of its columns are written.      *)
LEMMA RowWritten ==
  ASSUME Typed, NEW o \in Order, NEW row \in OrderRow, row.status # "NONE",
         order' = [order EXCEPT ![o] = row]
  PROVE  /\ order' \in [Order -> OrderRow]
         /\ \A p \in Order : order'[p].status = "NONE" => order'[p] = Unwritten
         /\ Placed \subseteq Placed'
         /\ Only(o) /\ order'[o] = row
BY DEF Typed, TypeOK, Placed, Only

LEMMA Edges ==
  ASSUME NEW s \in Status
  PROVE  /\ ALLOWED_TRANSITIONS[s] \subseteq Status
         /\ s = "CANCELLED" => ALLOWED_TRANSITIONS[s] = {}
BY DEF Status, ALLOWED_TRANSITIONS

LEMMA FreedNat ==
  ASSUME NEW lines \in Lines, reserved \in [Variant -> Nat]
  PROVE  \A v \in Variant :
           /\ Freed(lines)[v] \in Nat /\ Freed(lines)[v] <= reserved[v]
           /\ reserved[v] - Freed(lines)[v] \in Nat
           /\ reserved[v] >= lines[v] => Freed(lines)[v] = lines[v]
BY FulfilmentAssumption DEF Freed, Lesser, Lines

(* What an action leaves of the type invariant when the rows are as they   *)
(* should be.                                                              *)
Rest ==
  /\ onHand \in [Variant -> Int]
  /\ reserved \in [Variant -> Nat]
  /\ used \in Nat
  /\ click \in [Click -> Clicks \cup {NoClick}]
  /\ \A c \in Click : click[c] # NoClick => click[c].lines # NoLines
  /\ sweep \in [Worker -> SUBSET Order]
  /\ crashes \in 0 .. MaxCrashes

Rows ==
  /\ order \in [Order -> OrderRow]
  /\ \A o \in Order : order[o].status = "NONE" => order[o] = Unwritten

LEMMA TypedParts == Typed <=> Rest /\ Rows /\ cancelling \subseteq Placed
BY DEF Typed, TypeOK, Rest, Rows, Placed

LEMMA TypedNext ==
  ASSUME Rest', Rows', cancelling' \subseteq Placed'
  PROVE  Typed'
BY DEF Typed, TypeOK, Rest, Rows, Placed

LEMMA CheckoutStep == Typed /\ Checkout => Typed' /\ Step
<1> SUFFICES ASSUME Typed, Checkout PROVE Typed' /\ Step
  OBVIOUS
<1> USE DEF Rest, Rows
<1>1. Rest /\ Rows /\ cancelling \subseteq Placed
  BY TypedParts
<1>2. ASSUME NEW c \in Click, NEW key \in Key, NEW lines \in Lines,
             NEW customer \in Customer, NEW coupon \in BOOLEAN, NEW cod \in BOOLEAN,
             Review(c, key, lines, customer, coupon, cod)
      PROVE  Typed' /\ Step
  <2>1. [key |-> key, lines |-> lines, customer |-> customer,
         coupon |-> coupon /\ CouponLeft(customer), cod |-> cod] \in Clicks
    <3>1. (coupon /\ CouponLeft(customer)) \in BOOLEAN
      OBVIOUS
    <3> QED
      BY <3>1 DEF Clicks
  <2>2. click' \in [Click -> Clicks \cup {NoClick}]
    BY <1>1, <1>2, <2>1 DEF Review
  <2>3. Quiet
    BY <1>2 DEF Review, Quiet, stock
  <2>4. Typed'
    BY <1>1, <1>2, <2>2, TypedNext DEF Review, Placed, stock
  <2> QED
    BY <2>3, <2>4 DEF Step
<1>3. ASSUME NEW c \in Click, Place(c) PROVE Typed' /\ Step
  <2> DEFINE k == click[c]
  <2>1. k \in Clicks /\ k.lines # NoLines
    BY <1>1, <1>3 DEF Place
  <2>2. PICK o \in Order \ Placed : order' = [order EXCEPT ![o] = PlacedRow(k)]
    BY <1>3 DEF Place
  <2>3. PlacedRow(k) \in OrderRow /\ PlacedRow(k).status # "NONE"
    BY <2>1 DEF PlacedRow, Clicks, OrderRow, Status
  <2>4. Rows' /\ Placed \subseteq Placed' /\ Only(o) /\ order'[o] = PlacedRow(k)
    BY <2>2, <2>3, RowWritten
  <2>5. k.lines \in Lines /\ k.coupon \in BOOLEAN
    BY <2>1 DEF Clicks
  <2>6. /\ reserved' = [v \in Variant |-> reserved[v] + k.lines[v]]
        /\ used' = IF k.coupon THEN used + 1 ELSE used
        /\ ~KeyTaken(k.key) /\ CanReserve(k.lines) /\ CanRedeem(k)
        /\ click' = [click EXCEPT ![c] = NoClick]
        /\ UNCHANGED <<onHand, cancelling, sweep, crashes>>
    BY <1>3 DEF Place
  <2> HIDE DEF k
  <2>7. reserved' \in [Variant -> Nat] /\ used' \in Nat
    BY <1>1, <2>5, <2>6, FulfilmentAssumption DEF Lines
  <2>8. Rest'
    BY <1>1, <2>6, <2>7
  <2>9. Placing(o, k)
    BY <2>1, <2>2, <2>4, <2>6 DEF Placing
  <2>10. Typed'
    BY <1>1, <2>4, <2>6, <2>8, TypedNext
  <2> QED
    BY <2>1, <2>9, <2>10 DEF Step
<1>4. ASSUME NEW c \in Click, Unplaced(c) PROVE Typed' /\ Step
  <2>1. Quiet
    BY <1>4 DEF Unplaced, Quiet, stock
  <2>2. Typed'
    BY <1>1, <1>4, TypedNext DEF Unplaced, Placed, stock
  <2> QED
    BY <2>1, <2>2 DEF Step
<1> QED
  BY <1>2, <1>3, <1>4 DEF Checkout

(* The CANCELLED edge, whoever takes it.                                   *)
LEMMA CancelledStep ==
  ASSUME Typed, NEW o \in Placed, CanCancel(o),
         NEW m \in {"none", "held", "returned"}, m # "held", Cancelled(o, m),
         cancelling' \subseteq cancelling, click' = click, crashes' = crashes,
         sweep' \in [Worker -> SUBSET Order]
  PROVE  Typed' /\ Step
<1> USE DEF Rest, Rows
<1> DEFINE row == [order[o] EXCEPT !.status = "CANCELLED",
                      !.coupon = IF order[o].coupon = "live" THEN "released" ELSE order[o].coupon,
                      !.money = m]
<1>1. Rest /\ Rows /\ cancelling \subseteq Placed /\ o \in Order /\ order[o] \in OrderRow
  BY TypedParts DEF Placed
<1>2. order' = [order EXCEPT ![o] = row]
  BY <1>1 DEF Cancelled, OrderRow
<1>3. row \in OrderRow /\ row.status # "NONE"
  <2> DEFINE use == IF order[o].coupon = "live" THEN "released" ELSE order[o].coupon
  <2>1. use \in {"none", "live", "released"} /\ "CANCELLED" \in Status
    BY <1>1 DEF OrderRow, Status
  <2> HIDE DEF use
  <2>2. [order[o] EXCEPT !.status = "CANCELLED", !.coupon = use, !.money = m] \in OrderRow
    BY <1>1, <2>1 DEF OrderRow
  <2>3. row = [order[o] EXCEPT !.status = "CANCELLED", !.coupon = use, !.money = m]
    BY DEF use
  <2>4. row.status = "CANCELLED"
    BY <1>1 DEF OrderRow
  <2> QED
    BY <2>2, <2>3, <2>4
<1>4. Rows' /\ Placed \subseteq Placed' /\ Only(o) /\ order'[o] = row
  BY <1>1, <1>2, <1>3, RowWritten
<1>5. order[o].lines \in Lines
  BY <1>1 DEF OrderRow
<1>6. \A v \in Variant : reserved[v] - Freed(order[o].lines)[v] \in Nat
  BY <1>1, <1>5, FreedNat
<1>7. reserved' = [v \in Variant |-> reserved[v] - Freed(order[o].lines)[v]]
  BY DEF Cancelled
<1>8. used' = IF order[o].coupon = "live" THEN (IF used > 0 THEN used - 1 ELSE 0) ELSE used
  BY DEF Cancelled
<1>9. used' \in Nat /\ onHand' = onHand
  BY <1>1, <1>8 DEF Cancelled
<1>10. Rest'
  BY <1>1, <1>6, <1>7, <1>9
<1>11. Typed'
  BY <1>1, <1>4, <1>10, TypedNext
<1>12. order[o].status \in Status /\ order[o].status # "CANCELLED" /\ ~order[o].committed
  BY <1>1, Edges DEF CanCancel, OrderRow, Placed
<1>13. /\ row.status = "CANCELLED" /\ row.committed = order[o].committed /\ row.money = m
       /\ row.lines = order[o].lines /\ row.key = order[o].key
       /\ row.customer = order[o].customer
       /\ row.coupon = IF order[o].coupon = "live" THEN "released" ELSE order[o].coupon
  BY <1>1 DEF OrderRow
<1> HIDE DEF row
<1>14. CalledOff(o)
  BY <1>4, <1>7, <1>8, <1>9, <1>12, <1>13 DEF CalledOff
<1> QED
  BY <1>1, <1>11, <1>14 DEF Step

(* The status or the money of one order written, nothing else.             *)
LEMMA RestatedStep ==
  ASSUME Typed, NEW o \in Placed, NEW st \in Status,
         NEW m \in {"none", "held", "returned"},
         (st = "CANCELLED") = (order[o].status = "CANCELLED"),
         order' = [order EXCEPT ![o] = [order[o] EXCEPT !.status = st, !.money = m]],
         cancelling' \subseteq cancelling,
         UNCHANGED <<onHand, reserved, used, click, sweep, crashes>>
  PROVE  Typed' /\ Step
<1> USE DEF Rest, Rows
<1> DEFINE row == [order[o] EXCEPT !.status = st, !.money = m]
<1>1. Rest /\ Rows /\ cancelling \subseteq Placed /\ o \in Order /\ order[o] \in OrderRow
  BY TypedParts DEF Placed
<1>2. /\ row \in OrderRow /\ row.status = st /\ st # "NONE"
      /\ row.committed = order[o].committed /\ row.lines = order[o].lines
      /\ row.key = order[o].key /\ row.customer = order[o].customer
      /\ row.coupon = order[o].coupon
  <2>1. row \in OrderRow
    BY <1>1 DEF OrderRow
  <2>2. st # "NONE"
    BY DEF Status
  <2>3. /\ row.status = st
        /\ row.committed = order[o].committed /\ row.lines = order[o].lines
        /\ row.key = order[o].key /\ row.customer = order[o].customer
        /\ row.coupon = order[o].coupon
    BY <1>1 DEF OrderRow
  <2> QED
    BY <2>1, <2>2, <2>3
<1> HIDE DEF row
<1>3. Rows' /\ Placed \subseteq Placed' /\ Only(o) /\ order'[o] = row
  BY <1>1, <1>2, RowWritten DEF row
<1>4. Typed'
  BY <1>1, <1>3, TypedNext
<1>5. Restated(o)
  BY <1>2, <1>3 DEF Restated
<1> QED
  BY <1>1, <1>4, <1>5 DEF Step

LEMMA PackStep ==
  ASSUME Typed, NEW o \in Order, Pack(o)
  PROVE  Typed' /\ Step
<1> USE DEF Rest, Rows
<1>1. /\ Rest /\ Rows /\ cancelling \subseteq Placed /\ o \in Placed
      /\ order[o] \in OrderRow
  BY TypedParts DEF Pack, Placed
<1>2. /\ order' = [order EXCEPT ![o].status = "PACKED", ![o].committed = TRUE]
      /\ UNCHANGED <<used, click, cancelling, sweep, crashes>>
  BY DEF Pack
<1>3. order[o].status \in Status /\ order[o].status # "CANCELLED"
  BY <1>1, Edges DEF Pack, OrderRow, Placed
<1>4. CASE order[o].committed
  <2>1. [order[o] EXCEPT !.status = "PACKED", !.committed = TRUE]
          = [order[o] EXCEPT !.status = "PACKED", !.money = order[o].money]
    BY <1>1, <1>4 DEF OrderRow
  <2>2. order' = [order EXCEPT ![o] = [order[o] EXCEPT !.status = "PACKED",
                                                       !.money = order[o].money]]
    BY <1>1, <1>2, <2>1
  <2>3. reserved' = reserved /\ onHand' = onHand
    <3>1. /\ reserved' = [v \in Variant |-> reserved[v] - Freed(NoLines)[v]]
          /\ onHand' = [v \in Variant |-> onHand[v] - NoLines[v]]
      BY <1>4 DEF Pack
    <3>2. \A v \in Variant : NoLines[v] = 0 /\ Freed(NoLines)[v] = 0
      BY <1>1 DEF NoLines, Freed, Lesser
    <3> QED
      BY <1>1, <3>1, <3>2
  <2>4. order[o].money \in {"none", "held", "returned"}
    BY <1>1 DEF OrderRow
  <2>5. "PACKED" \in Status /\ ("PACKED" = "CANCELLED") = (order[o].status = "CANCELLED")
    BY <1>3 DEF Status
  <2>6. UNCHANGED <<onHand, reserved, used, click, sweep, crashes>> /\ cancelling' \subseteq cancelling
    BY <1>2, <2>3
  <2> QED
    BY <1>1, <2>2, <2>4, <2>5, <2>6, RestatedStep
<1>5. CASE ~order[o].committed
  <2> DEFINE row == [order[o] EXCEPT !.status = "PACKED", !.committed = TRUE]
  <2>1. row \in OrderRow /\ row.status # "NONE"
    BY <1>1 DEF OrderRow, Status
  <2>2. order' = [order EXCEPT ![o] = row]
    BY <1>1, <1>2
  <2> HIDE DEF row
  <2>3. Rows' /\ Placed \subseteq Placed' /\ Only(o) /\ order'[o] = row
    BY <1>1, <2>1, <2>2, RowWritten DEF Placed
  <2> DEFINE lines == order[o].lines
  <2>4. lines \in Lines
    BY <1>1 DEF OrderRow
  <2>5. /\ \A v \in Variant : lines[v] = 0 \/ AllowOversell \/ onHand[v] >= lines[v]
        /\ reserved' = [v \in Variant |-> reserved[v] - Freed(lines)[v]]
        /\ onHand' = [v \in Variant |-> onHand[v] - lines[v]]
    BY <1>5 DEF Pack
  <2> HIDE DEF lines
  <2>6. \A v \in Variant : reserved[v] - Freed(lines)[v] \in Nat /\ lines[v] \in Nat
    BY <1>1, <2>4, FreedNat, FulfilmentAssumption DEF Lines
  <2>7. Rest'
    BY <1>1, <1>2, <2>5, <2>6
  <2>8. Typed'
    BY <1>1, <1>2, <2>3, <2>7, TypedNext
  <2>9. Packing(o)
    BY <1>1, <1>2, <1>3, <1>5, <2>3, <2>5 DEF Packing, row, lines
  <2> QED
    BY <2>8, <2>9 DEF Step
<1> QED
  BY <1>4, <1>5

(* Nothing but the requests under way.                                     *)
LEMMA QuietStep ==
  ASSUME Typed, Quiet, cancelling' \subseteq Placed,
         click' = click, sweep' \in [Worker -> SUBSET Order],
         crashes' \in 0 .. MaxCrashes
  PROVE  Typed' /\ Step
<1>1. Typed'
  BY TypedParts, TypedNext DEF Quiet, Rest, Rows, Placed
<1> QED
  BY <1>1 DEF Step

LEMMA StaffStep == Typed /\ Staff => Typed' /\ Step
<1> SUFFICES ASSUME Typed, Staff PROVE Typed' /\ Step
  OBVIOUS
<1>1. /\ Rest /\ Rows /\ cancelling \subseteq Placed /\ Placed \subseteq Order
  BY TypedParts DEF Placed
<1>2. \A o \in Order : order[o] \in OrderRow
  BY <1>1 DEF Rows
<1>3. ASSUME NEW o \in Order, NEW to \in Status, ChangeStatus(o, to)
      PROVE  Typed' /\ Step
  <2>1. o \in Placed /\ order[o].status \in Status /\ order[o].money \in {"none", "held", "returned"}
    BY <1>2, <1>3 DEF ChangeStatus, Placed, OrderRow
  <2>2. order[o].status # "CANCELLED" /\ to # "CANCELLED"
    BY <1>3, <2>1, Edges DEF ChangeStatus
  <2>3. order' = [order EXCEPT ![o] = [order[o] EXCEPT !.status = to, !.money = order[o].money]]
    <3>1. [order[o] EXCEPT !.status = to] = [order[o] EXCEPT !.status = to, !.money = order[o].money]
      BY <1>2 DEF OrderRow
    <3> QED
      BY <1>1, <1>3, <3>1 DEF ChangeStatus, Rows
  <2>4. UNCHANGED <<onHand, reserved, used, click, sweep, crashes, cancelling>>
    BY <1>3 DEF ChangeStatus, stock
  <2> QED
    BY <2>1, <2>2, <2>3, <2>4, RestatedStep
<1>4. ASSUME NEW o \in Order, CancelFound(o) PROVE Typed' /\ Step
  <2>1. o \in Placed
    BY <1>4 DEF CancelFound, CANCELLABLE, Placed
  <2> QED
    BY <1>1, <1>4, <2>1, QuietStep DEF CancelFound, Quiet, stock, Rest
<1>5. ASSUME NEW o \in Order, CancelLocked(o) PROVE Typed' /\ Step
  <2>1. o \in Placed
    BY <1>1, <1>5 DEF CancelLocked
  <2>2. (IF order[o].money = "held" THEN "returned" ELSE "none")
          \in {"none", "held", "returned"} \ {"held"}
    OBVIOUS
  <2>3. Cancelled(o, IF order[o].money = "held" THEN "returned" ELSE "none") /\ CanCancel(o)
    BY <1>5 DEF CancelLocked
  <2>4. /\ cancelling' \subseteq cancelling /\ click' = click /\ crashes' = crashes
        /\ sweep' \in [Worker -> SUBSET Order]
    BY <1>1, <1>5 DEF CancelLocked, Rest
  <2> QED
    BY <2>1, <2>2, <2>3, <2>4, CancelledStep
<1>6. ASSUME NEW o \in Order, CancelAgain(o) PROVE Typed' /\ Step
  <2> DEFINE m == IF order[o].money = "held" THEN "returned" ELSE order[o].money
  <2>1. /\ o \in Placed /\ order[o].status \in Status
        /\ m \in {"none", "held", "returned"}
    BY <1>1, <1>2, <1>6 DEF CancelAgain, OrderRow, Status
  <2>2. order' = [order EXCEPT ![o] = [order[o] EXCEPT !.status = order[o].status, !.money = m]]
    <3>1. [order[o] EXCEPT !.money = m] = [order[o] EXCEPT !.status = order[o].status, !.money = m]
      BY <1>2 DEF OrderRow
    <3> QED
      BY <1>1, <1>6, <3>1 DEF CancelAgain, Rows
  <2>3. cancelling' \subseteq cancelling /\ UNCHANGED <<onHand, reserved, used, click, sweep, crashes>>
    BY <1>6 DEF CancelAgain, stock
  <2> HIDE DEF m
  <2> QED
    BY <2>1, <2>2, <2>3, RestatedStep
<1>7. ASSUME NEW o \in Order, CancelRefused(o) PROVE Typed' /\ Step
  BY <1>1, <1>7, QuietStep DEF CancelRefused, Quiet, stock, Rest
<1> QED
  BY <1>3, <1>4, <1>5, <1>6, <1>7, PackStep DEF Staff

LEMMA MoneyStep == Typed /\ Money => Typed' /\ Step
<1> SUFFICES ASSUME Typed, Money PROVE Typed' /\ Step
  OBVIOUS
<1>1. Rest /\ Rows /\ (\A o \in Order : order[o] \in OrderRow)
  BY TypedParts DEF Rows
<1>2. ASSUME NEW o \in Order, NEW m \in {"held", "returned"}, o \in Placed,
             order' = [order EXCEPT ![o].money = m],
             UNCHANGED <<stock, used, click, cancelling, sweep, crashes>>
      PROVE  Typed' /\ Step
  <2>1. order[o].status \in Status
    BY <1>1, <1>2 DEF OrderRow, Placed
  <2>2. [order[o] EXCEPT !.money = m] = [order[o] EXCEPT !.status = order[o].status, !.money = m]
    BY <1>1 DEF OrderRow
  <2>3. order' = [order EXCEPT ![o] = [order[o] EXCEPT !.status = order[o].status, !.money = m]]
    BY <1>1, <1>2, <2>2 DEF Rows
  <2>4. /\ UNCHANGED <<onHand, reserved, used, click, sweep, crashes>>
        /\ cancelling' \subseteq cancelling /\ m \in {"none", "held", "returned"}
    BY <1>2 DEF stock
  <2> QED
    BY <1>2, <2>1, <2>3, <2>4, RestatedStep
<1>3. ASSUME NEW o \in Order, GiveBack(o) PROVE o \in Placed
  BY <1>1, <1>3 DEF GiveBack, Placed, Rows, Unwritten
<1> QED
  BY <1>2, <1>3 DEF Money, TakeMoney, GiveBack

LEMMA SweepStep == Typed /\ Sweep => Typed' /\ Step
<1> SUFFICES ASSUME Typed, Sweep PROVE Typed' /\ Step
  OBVIOUS
<1>1. Rest /\ Rows /\ cancelling \subseteq Placed
  BY TypedParts
<1>2. ASSUME NEW w \in Worker, SweepList(w) PROVE Typed' /\ Step
  <2>1. {o \in Order : Unpaid(o)} \in SUBSET Order
    OBVIOUS
  <2> QED
    BY <1>1, <1>2, <2>1, QuietStep DEF SweepList, Quiet, stock, Rest
<1>3. ASSUME NEW w \in Worker, NEW o \in Order, Expire(w, o) PROVE Typed' /\ Step
  <2>1. o \in Placed /\ order[o].money \in {"none", "held", "returned"} \ {"held"}
    BY <1>1, <1>3 DEF Expire, Unpaid, Placed, Rows, OrderRow
  <2>2. CanCancel(o)
    BY <1>3 DEF Expire, Unpaid, CanCancel, ALLOWED_TRANSITIONS
  <2>3. sweep' \in [Worker -> SUBSET Order]
    BY <1>1, <1>3 DEF Expire, Rest
  <2> QED
    BY <1>3, <2>1, <2>2, <2>3, CancelledStep DEF Expire
<1>4. ASSUME NEW w \in Worker, NEW o \in Order, LeaveAlone(w, o) PROVE Typed' /\ Step
  BY <1>1, <1>4, QuietStep DEF LeaveAlone, Quiet, stock, Rest
<1>5. ASSUME NEW w \in Worker, Crash(w) PROVE Typed' /\ Step
  <2>1. crashes' \in 0 .. MaxCrashes
    BY <1>1, <1>5, FulfilmentAssumption DEF Crash, Rest
  <2>2. sweep' \in [Worker -> SUBSET Order]
    BY <1>1, <1>5 DEF Crash, Rest
  <2> QED
    BY <1>1, <1>5, <2>1, <2>2, QuietStep DEF Crash, Quiet, stock
<1> QED
  BY <1>2, <1>3, <1>4, <1>5 DEF Sweep

LEMMA ShelfStep == Typed /\ Shelf => Typed' /\ Step
<1> SUFFICES ASSUME Typed, Shelf PROVE Typed' /\ Step
  OBVIOUS
<1>1. Rest /\ Rows /\ cancelling \subseteq Placed
  BY TypedParts
<1>2. UNCHANGED <<reserved, order, used, click, cancelling, sweep, crashes>>
  BY DEF Shelf, CounterSale, Correct
<1>3. onHand' \in [Variant -> Int]
  BY <1>1, FulfilmentAssumption DEF Shelf, CounterSale, Correct, Rest
<1>4. Typed'
  BY <1>1, <1>2, <1>3, TypedNext DEF Rest, Rows, Placed
<1> QED
  BY <1>2, <1>4 DEF Step, ShelfMoved

LEMMA NextStep == Typed /\ [Next]_vars => Typed' /\ Step
<1>1. Typed /\ UNCHANGED vars => Typed' /\ Step
  BY QuietStep, TypedParts DEF vars, Quiet, Rest
<1> QED
  BY <1>1, CheckoutStep, StaffStep, MoneyStep, SweepStep, ShelfStep DEF Next

(* What the other proofs rest on: with every variable of its type, a row   *)
(* is blank until its order is placed, and no cart under way is empty.     *)
THEOREM AlwaysTyped == Spec => []Typed
BY InitTyped, NextStep, PTL DEF Spec

(* Every variable keeps its type; `reserved` and `used_count` never go     *)
(* below zero.                                                             *)
THEOREM TypeCorrect == Spec => []TypeOK
<1>1. Typed => TypeOK
  BY DEF Typed
<1> QED
  BY <1>1, AlwaysTyped, PTL

-----------------------------------------------------------------------------
(* Orders, keys and money.                                                 *)

(* Clicks that carry one key place one order: the key is asked for again   *)
(* as the row is written, and no row not yet written has one.              *)
THEOREM OneOrderForOneKey == Spec => []OneOrderPerKey
<1>1. Init => OneOrderPerKey
  BY DEF Init, OneOrderPerKey, Placed
<1>2. Typed /\ OneOrderPerKey /\ [Next]_vars => OneOrderPerKey'
  <2> SUFFICES ASSUME Typed, OneOrderPerKey, Step PROVE OneOrderPerKey'
    BY NextStep
  <2>1. CASE Quiet \/ ShelfMoved
    BY <2>1 DEF Quiet, ShelfMoved, OneOrderPerKey, Placed
  <2>2. ASSUME NEW o \in Order, o \in Placed, Only(o), order'[o].key = order[o].key
        PROVE  OneOrderPerKey'
    <3>1. \A p \in Placed' : p \in Placed /\ order'[p].key = order[p].key
      BY <2>2 DEF Only, Placed
    <3> QED
      BY <3>1 DEF OneOrderPerKey
  <2>3. ASSUME NEW o \in Order, NEW k \in Clicks, Placing(o, k) PROVE OneOrderPerKey'
    <3>1. order'[o].key = k.key
      BY <2>3 DEF Placing, PlacedRow
    <3>2. \A p \in Placed' \ {o} : p \in Placed /\ order'[p].key = order[p].key
      BY <2>3 DEF Placing, Only, Placed
    <3>3. \A p \in Placed : order[p].key # k.key
      BY <2>3 DEF Placing, KeyTaken, Placed
    <3> QED
      BY <3>1, <3>2, <3>3 DEF OneOrderPerKey
  <2>4. ASSUME NEW o \in Order, Packing(o) PROVE order'[o].key = order[o].key
    BY <2>4, TypedParts DEF Packing, Rows, OrderRow
  <2> QED
    BY <2>1, <2>2, <2>3, <2>4 DEF Step, Restated, Packing, CalledOff
<1> QED
  BY <1>1, <1>2, AlwaysTyped, PTL DEF Spec

(* No step cancels an order and keeps its money.                           *)
THEOREM CancelsKeepNoMoney == Spec => CancelKeepsNoMoney
<1> DEFINE Kept == \A o \in Order :
                     order'[o].status = "CANCELLED" /\ order[o].status # "CANCELLED"
                       => order'[o].money # "held"
<1>1. Typed /\ [Next]_vars => [Kept]_vars
  <2> SUFFICES ASSUME Typed, Step PROVE Kept
    BY NextStep
  <2>1. ASSUME NEW o \in Order, NEW k \in Clicks, Placing(o, k)
        PROVE  order'[o].status # "CANCELLED"
    BY <2>1 DEF Placing, PlacedRow
  <2>2. ASSUME NEW o \in Order, Packing(o) PROVE order'[o].status # "CANCELLED"
    BY <2>2, TypedParts DEF Packing, Rows, OrderRow
  <2> QED
    BY <2>1, <2>2 DEF Step, Quiet, ShelfMoved, Restated, Packing, CalledOff, Placing, Only
<1> QED
  BY <1>1, AlwaysTyped, PTL DEF Spec, CancelKeepsNoMoney

-----------------------------------------------------------------------------
(* The coupon.                                                             *)

LiveOf(u) == {o \in Live : order[o].customer = u}

CouponInv == UsedCountsLive /\ CouponLimits

LEMMA LiveFinite ==
  /\ IsFiniteSet(Live) /\ Cardinality(Live) \in Nat
  /\ \A u : IsFiniteSet(LiveOf(u)) /\ Cardinality(LiveOf(u)) \in Nat
<1>1. Live \in SUBSET Order /\ \A u : LiveOf(u) \in SUBSET Order
  BY DEF Live, LiveOf
<1> QED
  BY <1>1, FulfilmentAssumption, FS_Subset, FS_CardinalityType

(* Redemptions that count stay the same ones.                              *)
LEMMA LiveSame ==
  ASSUME CouponInv, used' = used,
         \A o \in Order : /\ (order'[o].coupon = "live") = (order[o].coupon = "live")
                          /\ order'[o].customer = order[o].customer
  PROVE  CouponInv'
<1>1. Live' = Live
  BY DEF Live
<1>2. \A u \in Customer : {o \in Live : order[o].customer = u}' = {o \in Live : order[o].customer = u}
  BY <1>1 DEF Live
<1> QED
  BY <1>1, <1>2 DEF CouponInv, UsedCountsLive, CouponLimits

LEMMA Redeemed ==
  ASSUME Typed, CouponInv, NEW o \in Order, NEW k \in Clicks, Placing(o, k), k.coupon
  PROVE  CouponInv'
<1>1. order[o].coupon = "none"
  BY DEF Typed, Placing, Placed, Unwritten
<1>2. /\ order'[o].coupon = "live" /\ order'[o].customer = k.customer
      /\ used' = used + 1 /\ CouponLeft(k.customer)
      /\ \A p \in Order : p # o => order'[p] = order[p]
  BY DEF Placing, PlacedRow, Only, CanRedeem
<1>3. o \notin Live /\ Live' = Live \cup {o}
  BY <1>1, <1>2 DEF Live
<1>4. Cardinality(Live') = Cardinality(Live) + 1
  BY <1>3, LiveFinite, FS_AddElement
<1>5. UsageLimit \in Nat /\ PerCustomer \in Nat /\ used = Cardinality(Live) /\ used < UsageLimit
  BY <1>2, FulfilmentAssumption DEF CouponInv, UsedCountsLive, CouponLeft
<1>6. UsedCountsLive' /\ Cardinality(Live') <= UsageLimit
  BY <1>2, <1>4, <1>5, LiveFinite DEF UsedCountsLive
<1>7. ASSUME NEW u \in Customer PROVE Cardinality(LiveOf(u)') <= PerCustomer
  <2>1. Cardinality(LiveOf(u)) <= PerCustomer
    BY DEF CouponInv, CouponLimits, LiveOf
  <2>2. CASE u # k.customer
    <3>1. LiveOf(u)' = LiveOf(u)
      BY <1>2, <1>3, <2>2 DEF LiveOf, Live
    <3> QED
      BY <2>1, <3>1
  <2>3. CASE u = k.customer
    <3>1. o \notin LiveOf(u) /\ LiveOf(u)' = LiveOf(u) \cup {o}
      BY <1>2, <1>3, <2>3 DEF LiveOf, Live
    <3>2. Cardinality(LiveOf(u)') = Cardinality(LiveOf(u)) + 1
      BY <3>1, LiveFinite, FS_AddElement
    <3>3. Cardinality(LiveOf(u)) < PerCustomer
      BY <1>2, <2>3 DEF CouponLeft, LiveOf
    <3> QED
      BY <1>5, <3>2, <3>3, LiveFinite
  <2> QED
    BY <2>2, <2>3
<1> QED
  BY <1>6, <1>7 DEF CouponInv, CouponLimits, LiveOf

LEMMA Unredeemed ==
  ASSUME Typed, CouponInv, NEW o \in Order, CalledOff(o), order[o].coupon = "live"
  PROVE  CouponInv'
<1>1. /\ order'[o].coupon = "released"
      /\ used' = IF used > 0 THEN used - 1 ELSE 0
      /\ \A p \in Order : p # o => order'[p] = order[p]
  BY DEF CalledOff, Only
<1>2. o \in Live /\ Live' = Live \ {o}
  BY <1>1 DEF Live
<1>3. Cardinality(Live') = Cardinality(Live) - 1 /\ Cardinality(Live) # 0
  BY <1>2, LiveFinite, FS_RemoveElement, FS_EmptySet
<1>4. used = Cardinality(Live) /\ Cardinality(Live) <= UsageLimit /\ UsageLimit \in Nat
  BY FulfilmentAssumption DEF CouponInv, UsedCountsLive, CouponLimits
<1>5. UsedCountsLive' /\ Cardinality(Live') <= UsageLimit
  BY <1>1, <1>3, <1>4, LiveFinite DEF UsedCountsLive
<1>6. ASSUME NEW u \in Customer PROVE Cardinality(LiveOf(u)') <= PerCustomer
  <2>1. Cardinality(LiveOf(u)) <= PerCustomer /\ PerCustomer \in Nat
    BY FulfilmentAssumption DEF CouponInv, CouponLimits, LiveOf
  <2>2. LiveOf(u)' \in SUBSET LiveOf(u)
    BY <1>1, <1>2 DEF LiveOf, Live
  <2>3. Cardinality(LiveOf(u)') <= Cardinality(LiveOf(u)) /\ IsFiniteSet(LiveOf(u)')
    BY <2>2, LiveFinite, FS_Subset
  <2>4. Cardinality(LiveOf(u)') \in Nat
    BY <2>3, FS_CardinalityType
  <2> QED
    BY <2>1, <2>3, <2>4, LiveFinite
<1> QED
  BY <1>5, <1>6 DEF CouponInv, CouponLimits, LiveOf

(* The coupon's inductive invariant: redeem and the two releases keep the  *)
(* counter and the redemptions together, and within both limits.           *)
THEOREM CouponAlways == Spec => []CouponInv
<1>1. Init => CouponInv
  <2> SUFFICES ASSUME Init PROVE CouponInv
    OBVIOUS
  <2>1. Live = {} /\ used = 0
    BY DEF Init, Live
  <2>2. \A u \in Customer : {o \in Live : order[o].customer = u} = {}
    BY <2>1
  <2> QED
    BY <2>1, <2>2, FS_EmptySet, FulfilmentAssumption DEF CouponInv, UsedCountsLive, CouponLimits
<1>2. Typed /\ CouponInv /\ [Next]_vars => CouponInv'
  <2> SUFFICES ASSUME Typed, CouponInv, Step PROVE CouponInv'
    BY NextStep
  <2>1. CASE Quiet \/ ShelfMoved
    BY <2>1, LiveSame DEF Quiet, ShelfMoved
  <2>2. ASSUME NEW o \in Order, Restated(o) PROVE CouponInv'
    BY <2>2, LiveSame DEF Restated, Only
  <2>3. ASSUME NEW o \in Order, NEW k \in Clicks, Placing(o, k) PROVE CouponInv'
    <3>1. CASE k.coupon
      BY <2>3, <3>1, Redeemed
    <3>2. CASE ~k.coupon
      <4>1. order[o] = Unwritten /\ order'[o].coupon = "none"
        BY <2>3, <3>2 DEF Typed, Placing, Placed, PlacedRow
      <4>2. Live' = Live /\ used' = used
        BY <2>3, <3>2, <4>1 DEF Live, Placing, Only, Unwritten
      <4>3. \A u \in Customer :
              {p \in Live : order[p].customer = u}' = {p \in Live : order[p].customer = u}
        BY <2>3, <4>1, <4>2 DEF Live, Placing, Only, Unwritten
      <4> QED
        BY <4>2, <4>3 DEF CouponInv, UsedCountsLive, CouponLimits
    <3> QED
      BY <3>1, <3>2
  <2>4. ASSUME NEW o \in Order, Packing(o) PROVE CouponInv'
    <3>1. order'[o].coupon = order[o].coupon /\ order'[o].customer = order[o].customer
      BY <2>4, TypedParts DEF Packing, Rows, OrderRow
    <3> QED
      BY <2>4, <3>1, LiveSame DEF Packing, Only
  <2>5. ASSUME NEW o \in Order, CalledOff(o) PROVE CouponInv'
    <3>1. CASE order[o].coupon = "live"
      BY <2>5, <3>1, Unredeemed
    <3>2. CASE order[o].coupon # "live"
      BY <2>5, <3>2, LiveSame DEF CalledOff, Only
    <3> QED
      BY <3>1, <3>2
  <2> QED
    BY <2>1, <2>2, <2>3, <2>4, <2>5 DEF Step
<1> QED
  BY <1>1, <1>2, AlwaysTyped, PTL DEF Spec

(* Both usage limits hold of the redemptions that count.                   *)
THEOREM CouponWithinLimits == Spec => []CouponLimits
<1>1. CouponInv => CouponLimits
  BY DEF CouponInv
<1> QED
  BY <1>1, CouponAlways, PTL

(* ... and used_count counts exactly those.                                *)
THEOREM UsedAlwaysCounts == Spec => []UsedCountsLive
<1>1. CouponInv => UsedCountsLive
  BY DEF CouponInv
<1> QED
  BY <1>1, CouponAlways, PTL

-----------------------------------------------------------------------------
(* The counter and what is owed.                                           *)

(* What order o is owed of variant v.                                      *)
Owed(o, v) == IF PromiseOf(o).state = "promised" THEN order[o].lines[v] ELSE 0

OwedOf(v) == [o \in Order |-> Owed(o, v)]

(* The sum of the abstract specification is the library's.                 *)
LEMMA PromisedIsSum ==
  ASSUME NEW v
  PROVE  P!Promised(v) = SumFunctionOnSet(OwedOf(v), Order)
<1>1. OwedOf(v) = [o \in Order |->
                     IF [p \in Order |-> PromiseOf(p)][o].state = "promised"
                     THEN [p \in Order |-> PromiseOf(p)][o].lines[v] ELSE 0]
  BY DEF OwedOf, Owed, PromiseOf
<1> QED
  BY <1>1 DEF P!Promised, P!SumFunction, P!SumFunctionOnSet, P!FoldFunctionOnSet,
     P!MapThenFoldSet, SumFunctionOnSet, FoldFunctionOnSet, MapThenFoldSet

Counted == \A v \in Variant : reserved[v] = SumFunctionOnSet(OwedOf(v), Order)

LEMMA OwedNat ==
  ASSUME Typed, NEW v \in Variant
  PROVE  \A o \in Order : Owed(o, v) \in Nat
<1> SUFFICES ASSUME NEW o \in Order PROVE Owed(o, v) \in Nat
  OBVIOUS
<1>1. order[o].lines \in Lines
  BY DEF Typed, TypeOK, OrderRow
<1> QED
  BY <1>1, FulfilmentAssumption DEF Owed, Lines

LEMMA OwedNatNext ==
  ASSUME Typed', NEW v \in Variant
  PROVE  \A o \in Order : Owed(o, v)' \in Nat
<1> SUFFICES ASSUME NEW o \in Order PROVE Owed(o, v)' \in Nat
  OBVIOUS
<1>1. order'[o].lines \in Lines
  BY DEF Typed, TypeOK, OrderRow
<1> QED
  BY <1>1, FulfilmentAssumption DEF Owed, PromiseOf, Lines

(* One row written moves the sum by what that order is owed more or less.  *)
LEMMA OwedMoves ==
  ASSUME Typed, Typed', NEW o \in Order, Only(o), NEW v \in Variant
  PROVE  SumFunctionOnSet(OwedOf(v)', Order)
           = SumFunctionOnSet(OwedOf(v), Order) - Owed(o, v) + Owed(o, v)'
<1>1. \A p \in Order : OwedOf(v)[p] = Owed(p, v) /\ (OwedOf(v)')[p] = Owed(p, v)'
  BY DEF OwedOf
<1>2. \A p \in Order \ {o} : Owed(p, v)' = Owed(p, v)
  BY DEF Only, Owed, PromiseOf
<1>3. \A p \in Order : OwedOf(v)[p] \in Int /\ (OwedOf(v)')[p] \in Int
  BY <1>1, OwedNat, OwedNatNext
<1>4. \A p \in Order \ {o} : (OwedOf(v)')[p] = OwedOf(v)[p]
  BY <1>1, <1>2
<1>5. IsFiniteSet(Order)
  BY FulfilmentAssumption
<1>6. SumFunctionOnSet(OwedOf(v)', Order)
        = SumFunctionOnSet(OwedOf(v), Order) - OwedOf(v)[o] + (OwedOf(v)')[o]
  BY <1>3, <1>4, <1>5, SumUpdate
<1> QED
  BY <1>1, <1>6

(* An order owed its lines has them in the counter, whatever else is.      *)
LEMMA OwedIsReserved ==
  ASSUME Typed, Counted, NEW o \in Order,
         order[o].status \notin {"NONE", "CANCELLED"}, ~order[o].committed
  PROVE  \A v \in Variant :
           /\ Owed(o, v) = order[o].lines[v]
           /\ Freed(order[o].lines)[v] = order[o].lines[v]
<1> SUFFICES ASSUME NEW v \in Variant
             PROVE  /\ Owed(o, v) = order[o].lines[v]
                    /\ Freed(order[o].lines)[v] = order[o].lines[v]
  OBVIOUS
<1>1. order[o].lines \in Lines /\ reserved \in [Variant -> Nat]
  BY DEF Typed, TypeOK, OrderRow
<1>2. Owed(o, v) = order[o].lines[v]
  BY DEF Owed, PromiseOf
<1>3. \A p \in Order : OwedOf(v)[p] = Owed(p, v)
  BY DEF OwedOf
<1>4. OwedOf(v)[o] <= SumFunctionOnSet(OwedOf(v), Order)
  BY <1>3, OwedNat, SumPart, FulfilmentAssumption
<1>5. reserved[v] >= order[o].lines[v]
  BY <1>1, <1>2, <1>3, <1>4, FulfilmentAssumption DEF Counted, Lines
<1> QED
  BY <1>1, <1>2, <1>5, FreedNat

LEMMA CountedStep ==
  ASSUME Typed, Typed', Counted, Step
  PROVE  Counted'
<1>1. \A v \in Variant : SumFunctionOnSet(OwedOf(v), Order) = reserved[v]
  BY DEF Counted
<1>2. CASE Quiet \/ ShelfMoved
  BY <1>2 DEF Quiet, ShelfMoved, Counted, OwedOf, Owed, PromiseOf
<1>3. ASSUME NEW o \in Order, Only(o),
             \A v \in Variant : reserved'[v] = reserved[v] - Owed(o, v) + Owed(o, v)'
      PROVE  Counted'
  <2> SUFFICES ASSUME NEW v \in Variant
               PROVE  reserved'[v] = SumFunctionOnSet(OwedOf(v)', Order)
    BY DEF Counted
  <2> QED
    BY <1>1, <1>3, OwedMoves
<1>4. ASSUME NEW o \in Order, Restated(o) PROVE Counted'
  <2>1. \A v \in Variant : Owed(o, v)' = Owed(o, v) /\ reserved'[v] \in Nat
    BY <1>4 DEF Restated, Owed, PromiseOf, Placed, Typed, TypeOK
  <2>2. \A v \in Variant : reserved'[v] = reserved[v] - Owed(o, v) + Owed(o, v)'
    BY <1>4, <2>1, OwedNat DEF Restated
  <2> QED
    BY <1>3, <1>4, <2>2 DEF Restated
<1>5. ASSUME NEW o \in Order, NEW k \in Clicks, Placing(o, k) PROVE Counted'
  <2>1. \A v \in Variant : Owed(o, v) = 0 /\ Owed(o, v)' = k.lines[v]
    BY <1>5 DEF Placing, PlacedRow, Owed, PromiseOf, Placed
  <2>2. \A v \in Variant : reserved[v] \in Nat /\ k.lines[v] \in Nat
    BY FulfilmentAssumption DEF Typed, TypeOK, Clicks, Lines
  <2>3. \A v \in Variant : reserved'[v] = reserved[v] - Owed(o, v) + Owed(o, v)'
    BY <1>5, <2>1, <2>2 DEF Placing
  <2> QED
    BY <1>3, <1>5, <2>3 DEF Placing
<1>6. ASSUME NEW o \in Order, o \in Placed, Only(o),
             ~order[o].committed, order[o].status # "CANCELLED",
             order'[o].committed \/ order'[o].status = "CANCELLED",
             \A v \in Variant : reserved'[v] = reserved[v] - Freed(order[o].lines)[v]
      PROVE  Counted'
  <2>1. \A v \in Variant : Owed(o, v)' = 0
    BY <1>6 DEF Owed, PromiseOf
  <2>2. order[o].status \notin {"NONE", "CANCELLED"}
    BY <1>6 DEF Placed
  <2>3. \A v \in Variant : Freed(order[o].lines)[v] = Owed(o, v)
    BY <1>6, <2>2, OwedIsReserved
  <2>4. \A v \in Variant : reserved[v] \in Nat /\ Owed(o, v) \in Nat
    BY OwedNat DEF Typed, TypeOK
  <2>5. \A v \in Variant : reserved'[v] = reserved[v] - Owed(o, v) + Owed(o, v)'
    BY <1>6, <2>1, <2>3, <2>4
  <2> QED
    BY <1>3, <1>6, <2>5
<1>7. ASSUME NEW o \in Order, Packing(o) PROVE Counted'
  <2>1. order'[o].committed
    BY <1>7, TypedParts DEF Packing, Rows, OrderRow
  <2> QED
    BY <1>6, <1>7, <2>1 DEF Packing
<1>8. ASSUME NEW o \in Order, CalledOff(o) PROVE Counted'
  BY <1>6, <1>8 DEF CalledOff
<1> QED
  BY <1>2, <1>4, <1>5, <1>7, <1>8 DEF Step

(* `reserved` is the sum of what the open orders are owed.  The clamp of a *)
(* release is what makes this need proof: it frees the order's lines only  *)
(* while the counter holds them, which this invariant says it does.        *)
LEMMA CountedAlways == Spec => [](Typed /\ Counted)
<1>1. Init => Counted
  <2> SUFFICES ASSUME Init, NEW v \in Variant
               PROVE  reserved[v] = SumFunctionOnSet(OwedOf(v), Order)
    BY DEF Counted
  <2>1. \A o \in Order : OwedOf(v)[o] = 0
    BY DEF Init, OwedOf, Owed, PromiseOf
  <2>2. SumFunctionOnSet(OwedOf(v), Order) = 0
    BY <2>1, SumZero, FulfilmentAssumption
  <2> QED
    BY <2>2 DEF Init, NoLines
<1>2. Typed /\ Counted /\ [Next]_vars => Counted'
  BY NextStep, CountedStep
<1> QED
  BY <1>1, <1>2, AlwaysTyped, PTL DEF Spec

(* The cached `reserved` is what the open orders are owed, no unit more:   *)
(* no release is lost, doubled or taken from another order's.              *)
THEOREM ReservedIsWhatIsOwed == Spec => []ReservedIsOwed
<1>1. Counted => ReservedIsOwed
  BY PromisedIsSum DEF Counted, ReservedIsOwed
<1> QED
  BY <1>1, CountedAlways, PTL

-----------------------------------------------------------------------------
(* The refinement: Fulfilment implements Promises.                         *)

LEMMA PromiseInit == Init => P!Init
BY DEF Init, P!Init, P!Nothing, NoLines, PromiseOf

(* Where the counter is what is promised, what is available is what is     *)
(* free.                                                                   *)
LEMMA AvailableIsFree ==
  ASSUME Counted, NEW v \in Variant
  PROVE  P!Free(v) = Available(v)
BY PromisedIsSum DEF P!Free, Available, Counted

(* The promises as rows change.                                            *)
LEMMA PromisesMove ==
  ASSUME NEW o \in Order, Only(o)
  PROVE  [p \in Order |-> PromiseOf(p)']
           = [[p \in Order |-> PromiseOf(p)] EXCEPT ![o] = PromiseOf(o)']
BY DEF Only, PromiseOf

LEMMA PromiseSame ==
  ASSUME NEW o \in Order, Only(o), PromiseOf(o)' = PromiseOf(o)
  PROVE  [p \in Order |-> PromiseOf(p)'] = [p \in Order |-> PromiseOf(p)]
BY PromisesMove

LEMMA PromiseStep ==
  ASSUME Typed, Typed', Counted, Step
  PROVE  P!Next \/ UNCHANGED <<onHand, [o \in Order |-> PromiseOf(o)]>>
<1> DEFINE pr == [o \in Order |-> PromiseOf(o)]
<1>1. CASE Quiet
  BY <1>1 DEF Quiet, PromiseOf
<1>2. CASE ShelfMoved
  <2>1. pr' = pr
    BY <1>2 DEF ShelfMoved, PromiseOf
  <2>2. ASSUME NEW v \in Variant, NEW q \in 1 .. MaxQty, CounterSale(v, q)
        PROVE  P!CounterSale(v, q)
    BY <2>1, <2>2, AvailableIsFree DEF CounterSale, P!CounterSale
  <2>3. ASSUME NEW v \in Variant, NEW n \in 0 .. MaxShelf, Correct(v, n)
        PROVE  P!Correct(v)
    <3>1. onHand \in [Variant -> Int] /\ n \in Nat
      BY FulfilmentAssumption DEF Typed, TypeOK
    <3>2. onHand' = [onHand EXCEPT ![v] = n] /\ onHand'[v] = n
      BY <2>3, <3>1 DEF Correct
    <3> QED
      BY <2>1, <3>1, <3>2 DEF P!Correct
  <2> QED
    BY <1>2, <2>2, <2>3 DEF ShelfMoved, Shelf, P!Next
<1>3. ASSUME NEW o \in Order, Restated(o)
      PROVE  UNCHANGED <<onHand, pr>>
  <2>1. PromiseOf(o)' = PromiseOf(o)
    BY <1>3 DEF Restated, PromiseOf, Placed
  <2> QED
    BY <1>3, <2>1, PromiseSame DEF Restated
<1>4. ASSUME NEW o \in Order, NEW k \in Clicks, Placing(o, k)
      PROVE  P!Next
  <2>1. k.lines \in Lines /\ k.lines # NoLines
    BY <1>4 DEF Placing, Clicks
  <2>2. pr[o].state = "none"
    BY <1>4 DEF Placing, Placed, PromiseOf
  <2>3. PromiseOf(o)' = [state |-> "promised", lines |-> k.lines]
    BY <1>4 DEF Placing, PlacedRow, PromiseOf
  <2>4. pr' = [pr EXCEPT ![o] = [state |-> "promised", lines |-> k.lines]]
    BY <1>4, <2>3, PromisesMove DEF Placing
  <2>5. \A v \in Variant :
          k.lines[v] = 0 \/ AllowOversell \/ P!Free(v) >= k.lines[v]
    BY <1>4, AvailableIsFree DEF Placing, CanReserve
  <2>6. P!Promise(o, k.lines)
    BY <1>4, <2>1, <2>2, <2>4, <2>5 DEF P!Promise, P!Nothing, NoLines, Placing
  <2>7. k.lines \in P!Lines
    BY <2>1 DEF Lines, P!Lines
  <2> QED
    BY <2>6, <2>7 DEF P!Next
<1>5. ASSUME NEW o \in Order, Packing(o)
      PROVE  P!Dispatch(o)
  <2>1. order'[o].committed /\ order'[o].status = "PACKED" /\ order'[o].lines = order[o].lines
    BY <1>5, TypedParts DEF Packing, Rows, OrderRow
  <2>2. pr[o] = [state |-> "promised", lines |-> order[o].lines]
    BY <1>5 DEF Packing, Placed, PromiseOf
  <2>3. PromiseOf(o)' = [state |-> "dispatched", lines |-> order[o].lines]
    BY <2>1 DEF PromiseOf
  <2>4. pr' = [pr EXCEPT ![o].state = "dispatched"]
    BY <1>5, <2>2, <2>3, PromisesMove DEF Packing
  <2> QED
    BY <1>5, <2>2, <2>4 DEF P!Dispatch, Packing
<1>6. ASSUME NEW o \in Order, CalledOff(o)
      PROVE  P!Withdraw(o)
  <2>1. pr[o] = [state |-> "promised", lines |-> order[o].lines]
    BY <1>6 DEF CalledOff, Placed, PromiseOf
  <2>2. PromiseOf(o)' = [state |-> "withdrawn", lines |-> order[o].lines]
    BY <1>6 DEF CalledOff, PromiseOf
  <2>3. pr' = [pr EXCEPT ![o].state = "withdrawn"]
    BY <1>6, <2>1, <2>2, PromisesMove DEF CalledOff
  <2> QED
    BY <1>6, <2>1, <2>3 DEF P!Withdraw, CalledOff
<1> QED
  BY <1>1, <1>2, <1>3, <1>4, <1>5, <1>6 DEF Step, P!Next

(* The counter, the clamps, the sweep and the retried cancels implement    *)
(* the promise: an order placed holds its units against every other order  *)
(* and the counter, until it is dispatched with them or withdrawn, once.   *)
THEOREM ImplementsPromises == Spec => KeepsPromises
<1>1. Typed /\ Typed' /\ Counted /\ [Next]_vars
        => [P!Next]_<<onHand, [o \in Order |-> PromiseOf(o)]>>
  BY NextStep, PromiseStep
<1> QED
  BY <1>1, PromiseInit, CountedAlways, PTL DEF Spec, KeepsPromises, P!Spec
=============================================================================
