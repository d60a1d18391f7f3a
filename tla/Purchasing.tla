----------------------------- MODULE Purchasing -----------------------------
(***************************************************************************)
(* Purchase orders at one branch (purchase-orders.service.ts): drafted,    *)
(* sent, received in parts, cancelled; goods sent back to the supplier off *)
(* the shelf, or damaged ones a customer brought back.  Each is one        *)
(* transaction under the order's row lock, and one step; a send of damaged *)
(* goods waits for their rows in between, and is two.                      *)
(*                                                                         *)
(* A line of an order is the item it buys: an order has one line an item.  *)
(* The average cost and the supplier's price list are left out.            *)
(***************************************************************************)
EXTENDS Integers, FiniteSets, Sequences, FiniteSetsExt

CONSTANTS
  Purchase, Item,
  Ordered,     \* units of each item on each order
  UnitCost,    \* and their cost
  GrandTotal,  \* of each order, discounts, tax and shipping in it
  Damaged,     \* units customers may bring back damaged
  ItemOf,      \* the item each is one of
  ReturnKey, NoReturnKey

ASSUME PurchasingAssumption ==
  /\ Ordered \in [Purchase -> [Item -> Nat]]
  /\ UnitCost \in [Purchase -> [Item -> Nat]]
  /\ GrandTotal \in [Purchase -> Nat]
  /\ IsFiniteSet(Damaged) /\ ItemOf \in [Damaged -> Item]
  /\ NoReturnKey \notin ReturnKey

ASSUME FiniteAssumption == IsFiniteSet(Item) /\ IsFiniteSet(Purchase)

VARIABLES
  purchase,  \* purchasing_purchaseorder with its lines
  sentBack,  \* purchasing_purchasereturn with its lines
  sending,   \* the send of damaged goods that has each order locked
  shelf,     \* units of each item at the branch
  sold,      \* units sold and not back on the shelf
  damaged    \* return lines received damaged

purchaseVars == <<purchase, sentBack, sending, shelf, sold, damaged>>

Counts == [Item -> Nat]
None == [i \in Item |-> 0]

PurchaseStatus ==
  {"NONE", "DRAFT", "SENT", "PARTIALLY_RECEIVED", "RECEIVED", "CANCELLED"}

PurchaseRow ==
  [status : PurchaseStatus, badge : {"UNPAID", "PARTIALLY_PAID", "PAID"},
   received : Counts, returned : Counts, paid : Nat, credited : Nat]

(* `lines` are off the shelf, `items` the damaged ones.                    *)
SentBackRow ==
  [purchase : Purchase, lines : Counts, items : SUBSET Damaged,
   key : ReturnKey \cup {NoReturnKey}]

(* `seen`: those of `items` sent back when their rows were asked for.      *)
Sending ==
  [items : SUBSET Damaged, seen : SUBSET Damaged,
   key : ReturnKey \cup {NoReturnKey}]

NotSending == [items |-> {}, seen |-> {}, key |-> NoReturnKey]

PurchasingTypeOK ==
  /\ purchase \in [Purchase -> PurchaseRow]
  /\ sentBack \in Seq(SentBackRow)
  /\ sending \in [Purchase -> Sending]
  /\ shelf \in Counts /\ sold \in Counts
  /\ damaged \subseteq Damaged

PurchasingInit ==
  /\ purchase = [p \in Purchase |->
       [status |-> "NONE", badge |-> "UNPAID", received |-> None,
        returned |-> None, paid |-> 0, credited |-> 0]]
  /\ sentBack = <<>>
  /\ sending = [p \in Purchase |-> NotSending]
  /\ shelf = None /\ sold = None /\ damaged = {}

Plus(f, g) == [i \in Item |-> f[i] + g[i]]

Costs(p, lines) ==
  SumFunctionOnSet([i \in Item |-> UnitCost[p][i] * lines[i]], Item)

UnitsOf(items) ==
  [i \in Item |-> Cardinality({d \in items : ItemOf[d] = i})]

Unlocked(p) == sending[p] = NotSending

Returnable(p) ==
  [i \in Item |-> purchase[p].received[i] - purchase[p].returned[i]]

Within(f, g) == \A i \in Item : f[i] <= g[i]

(* `refreshReceiptStatus`.                                                 *)
ReceiptStatus(p, received) ==
  IF Within(Ordered[p], received) THEN "RECEIVED"
  ELSE IF received # None THEN "PARTIALLY_RECEIVED"
  ELSE purchase[p].status

(* `refreshPaymentStatus`: credit counts only towards settling in full.    *)
Badge(p, paid, credited) ==
  IF paid + credited >= GrandTotal[p] THEN "PAID"
  ELSE IF paid > 0 THEN "PARTIALLY_PAID" ELSE "UNPAID"

-----------------------------------------------------------------------------
(* Orders.                                                                 *)

(* `create`.                                                               *)
Draft(p) ==
  /\ purchase[p].status = "NONE"
  /\ purchase' = [purchase EXCEPT ![p].status = "DRAFT"]
  /\ UNCHANGED <<sentBack, sending, shelf, sold, damaged>>

(* `send`.                                                                 *)
SendOrder(p) ==
  /\ purchase[p].status = "DRAFT" /\ Unlocked(p)
  /\ purchase' = [purchase EXCEPT ![p].status = "SENT"]
  /\ UNCHANGED <<sentBack, sending, shelf, sold, damaged>>

(* Slip: the status only, and not the money paid on a sent order.          *)
MayCancelByStatus(p) == purchase[p].status \in {"DRAFT", "SENT"}

MayCancel(p) ==
  /\ purchase[p].status \in {"DRAFT", "SENT"}
  /\ purchase[p].received = None
  /\ purchase[p].paid = 0

(* `cancel`.                                                               *)
CancelPurchase(p) ==
  /\ MayCancel(p) /\ Unlocked(p)
  /\ purchase' = [purchase EXCEPT ![p].status = "CANCELLED"]
  /\ UNCHANGED <<sentBack, sending, shelf, sold, damaged>>

(* `receive`: a delivery of `lines`, of a draft too (D186), each within    *)
(* what is still to come; it carries no key (D188).  A delivery that makes *)
(* its supplier the preferred one while somebody else does is refused      *)
(* (D187).                                                                 *)
ReceiveGoods(p, lines) ==
  /\ purchase[p].status \notin {"NONE", "CANCELLED"} /\ Unlocked(p)
  /\ lines # None
  /\ LET received == Plus(purchase[p].received, lines) IN
       /\ Within(received, Ordered[p])
       /\ purchase' = [purchase EXCEPT
                         ![p].received = received,
                         ![p].status = ReceiptStatus(p, received)]
  /\ shelf' = Plus(shelf, lines)
  /\ UNCHANGED <<sentBack, sending, sold, damaged>>

-----------------------------------------------------------------------------
(* Goods sent back.                                                        *)

(* `returnByKey`.                                                          *)
SentByKey(key) ==
  key # NoReturnKey /\ \E n \in DOMAIN sentBack : sentBack[n].key = key

MaySendBack(p) == purchase[p].status \notin {"NONE", "DRAFT", "CANCELLED"}

(* The lines' returned counts, the order's credit and its badge.           *)
Credited(p, lines) ==
  LET credited == purchase[p].credited + Costs(p, lines)
  IN [purchase[p] EXCEPT !.returned = Plus(@, lines),
                         !.credited = credited,
                         !.badge = Badge(p, purchase[p].paid,
                                          credited)]

(* Slip: a shelf that may be oversold.                                     *)
OnShelfOrOversold(lines) == TRUE

(* `returnToSupplier`: the shelf holds the units, oversell or not.         *)
OnShelf(lines) == Within(lines, shelf)

(* `purchaseReturn`: off the order and off the shelf, or refused whole.    *)
SendBack(p, lines, key) ==
  /\ MaySendBack(p) /\ Unlocked(p) /\ ~SentByKey(key)
  /\ lines # None /\ Within(lines, Returnable(p)) /\ OnShelf(lines)
  /\ purchase' = [purchase EXCEPT ![p] = Credited(p, lines)]
  /\ shelf' = [i \in Item |-> shelf[i] - lines[i]]
  /\ sentBack' = Append(sentBack, [purchase |-> p, lines |-> lines,
                                   items |-> {}, key |-> key])
  /\ UNCHANGED <<sending, sold, damaged>>

Sent(items) ==
  {d \in items : \E n \in DOMAIN sentBack : d \in sentBack[n].items}

(* `sendDamaged` up to the locks on the return lines: the order locked and *)
(* its key looked up; the lines' rows may be another send's still.         *)
ChooseDamaged(p, items, key) ==
  /\ MaySendBack(p) /\ Unlocked(p) /\ ~SentByKey(key)
  /\ items # {} /\ items \subseteq damaged
  /\ sending' = [sending EXCEPT
       ![p] = [items |-> items, seen |-> Sent(items), key |-> key]]
  /\ UNCHANGED <<purchase, sentBack, shelf, sold, damaged>>

(* Slip: what had gone back when the rows were asked for, not once they    *)
(* were locked (and no unique column).                                     *)
GoneBackAsAsked(s) == s.seen

(* Read after the lock, in a statement of its own; the column is unique.   *)
GoneBack(s) == Sent(s.items)

(* The rest of it: refused, answered, or every item credited at the order  *)
(* line's cost; the shelf is not touched.                                  *)
SendDamaged(p) ==
  /\ ~Unlocked(p)
  /\ LET s == sending[p]
         lines == UnitsOf(s.items)
     IN IF /\ GoneBack(s) = {} /\ ~SentByKey(s.key)
           /\ Within(lines, Returnable(p))
          THEN /\ purchase' = [purchase EXCEPT ![p] = Credited(p, lines)]
               /\ sentBack' = Append(sentBack,
                    [purchase |-> p, lines |-> None, items |-> s.items,
                     key |-> s.key])
          ELSE UNCHANGED <<purchase, sentBack>>
  /\ sending' = [sending EXCEPT ![p] = NotSending]
  /\ UNCHANGED <<shelf, sold, damaged>>

-----------------------------------------------------------------------------
(* What the rest of the shop does to the shelf: a sale takes a unit; a     *)
(* return's goods are received, damaged, and do not go back on it.         *)

Sell(i) ==
  /\ shelf[i] > 0
  /\ shelf' = [shelf EXCEPT ![i] = @ - 1]
  /\ sold' = [sold EXCEPT ![i] = @ + 1]
  /\ UNCHANGED <<purchase, sentBack, sending, damaged>>

BringBackDamaged(d) ==
  /\ d \notin damaged
  /\ UnitsOf(damaged)[ItemOf[d]] < sold[ItemOf[d]]
  /\ damaged' = damaged \cup {d}
  /\ UNCHANGED <<purchase, sentBack, sending, shelf, sold>>

Deliverable(p) ==
  {lines \in [Item -> UNION {0 .. Ordered[p][i] : i \in Item}] :
     Within(lines, Ordered[p])}

PurchasingNext ==
  \/ \E p \in Purchase :
       \/ Draft(p) \/ SendOrder(p) \/ CancelPurchase(p) \/ SendDamaged(p)
       \/ \E lines \in Deliverable(p) :
            \/ ReceiveGoods(p, lines)
            \/ \E key \in ReturnKey \cup {NoReturnKey} :
                 SendBack(p, lines, key)
       \/ \E items \in SUBSET Damaged, key \in ReturnKey \cup {NoReturnKey} :
            ChooseDamaged(p, items, key)
  \/ \E i \in Item : Sell(i)
  \/ \E d \in Damaged : BringBackDamaged(d)

-----------------------------------------------------------------------------
(* Properties.                                                             *)

(* Over the rows of returns of an order: what `lines` says of item `i`.    *)
SentBackOn(p, i) ==
  LET of == {n \in DOMAIN sentBack : sentBack[n].purchase = p}
      lines == [n \in DOMAIN sentBack |-> sentBack[n].lines[i]]
      items == [n \in DOMAIN sentBack |-> UnitsOf(sentBack[n].items)[i]]
  IN SumFunctionOnSet(lines, of) + SumFunctionOnSet(items, of)

(* Every order's lines, credit and shelf are what its deliveries and       *)
(* returns made them: nothing is sent back that did not come, and what     *)
(* came is on the shelf, sold, or went back from it.                       *)
GoodsAddUp ==
  /\ \A p \in Purchase :
       /\ \A i \in Item :
            /\ purchase[p].returned[i] = SentBackOn(p, i)
            /\ purchase[p].returned[i] <= purchase[p].received[i]
            /\ purchase[p].received[i] <= Ordered[p][i]
       /\ purchase[p].credited = Costs(p, purchase[p].returned)
       /\ purchase[p].status \in {"NONE", "DRAFT", "SENT", "CANCELLED"}
            <=> purchase[p].received = None
  /\ \A i \in Item :
       shelf[i] + sold[i]
         = SumFunction([p \in Purchase |-> purchase[p].received[i]])
           - SumFunction([n \in DOMAIN sentBack |-> sentBack[n].lines[i]])

(* No return is made twice, and no damaged item credited twice, on one     *)
(* order or on two.                                                        *)
SentBackOnce ==
  \A m, n \in DOMAIN sentBack :
    m # n =>
      /\ sentBack[m].items \cap sentBack[n].items = {}
      /\ sentBack[m].key = sentBack[n].key => sentBack[m].key = NoReturnKey
=============================================================================
