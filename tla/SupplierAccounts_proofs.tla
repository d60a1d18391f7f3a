---------------------- MODULE SupplierAccounts_proofs ----------------------
(***************************************************************************)
(* Proofs about the purchase orders of BackOffice, for every finite set of *)
(* orders and items: the types of everything, and that each supplier's     *)
(* account adds up.                                                        *)
(*                                                                         *)
(* SupplierAccountsAddUp is inductive with the types.  Every step writes   *)
(* at most one order, and Still, Noted, Delivered, SentOff, PaidOff or     *)
(* InAdvance says how; that is all the proofs about the sums use of the    *)
(* actions.                                                                *)
(***************************************************************************)
EXTENDS BackOffice_proofs, Sums

(* The types that BackOffice_proofs has not.                               *)
GoodsTyped == PurchasingTypeOK /\ payment \in Seq(Payments)

(* What an order's row says of itself.                                     *)
RowAdds(p, row) ==
  /\ \A i \in Item :
       /\ row.returned[i] <= row.received[i]
       /\ row.received[i] <= Ordered[p][i]
  /\ row.credited = Costs(p, row.returned)
  /\ row.status \in {"NONE", "DRAFT", "SENT", "CANCELLED"} <=> row.received = None
  /\ \/ row.badge = Badge(p, row.paid, row.credited)
     \/ row.badge = "UNPAID" /\ row.paid + row.credited = 0
  /\ row.status = "CANCELLED" => row.paid = 0 /\ row.received = None

RowsAdd == \A p \in Purchase : RowAdds(p, purchase[p])

(* And what the papers say of it.                                          *)
PaymentSum(p) ==
  SumFunctionOnSet([n \in DOMAIN payment |-> payment[n].amount], PaymentsOf(p))

ReturnsAdd ==
  \A p \in Purchase, i \in Item : purchase[p].returned[i] = SentBackOn(p, i)

PaidAdds == \A p \in Purchase : purchase[p].paid = PaymentSum(p)

ReceivedSum(i) == SumFunctionOnSet([p \in Purchase |-> purchase[p].received[i]], Purchase)
WentBack(i) ==
  SumFunctionOnSet([n \in DOMAIN sentBack |-> sentBack[n].lines[i]], DOMAIN sentBack)

ShelfAdds == \A i \in Item : shelf[i] + sold[i] = ReceivedSum(i) - WentBack(i)

Accounts == RowsAdd /\ ReturnsAdd /\ PaidAdds /\ ShelfAdds

LEMMA AccountsAddUp == ASSUME Accounts PROVE SupplierAccountsAddUp
<1>1. \A i \in Item :
        /\ ReceivedSum(i) = SumFunction([p \in Purchase |-> purchase[p].received[i]])
        /\ WentBack(i) = SumFunction([n \in DOMAIN sentBack |-> sentBack[n].lines[i]])
  BY DEF ReceivedSum, WentBack, SumFunction
<1>2. GoodsAddUp
  BY <1>1 DEF Accounts, RowsAdd, RowAdds, ReturnsAdd, ShelfAdds, GoodsAddUp
<1> QED
  BY <1>2 DEF Accounts, RowsAdd, RowAdds, PaidAdds, PaymentSum, SupplierAccountsAddUp

-----------------------------------------------------------------------------
(* The effects of a step on the orders, `y` being the row written.         *)
Writes(p, y) ==
  /\ p \in Purchase /\ y \in PurchaseRow /\ RowAdds(p, y)
  /\ purchase' = [purchase EXCEPT ![p] = y]

Still ==
  /\ UNCHANGED <<purchase, sentBack, payment>>
  /\ \A i \in Item : shelf'[i] + sold'[i] = shelf[i] + sold[i]

Noted(p, y) ==
  /\ Writes(p, y)
  /\ y.received = purchase[p].received /\ y.returned = purchase[p].returned
  /\ y.paid = purchase[p].paid
  /\ UNCHANGED <<sentBack, payment, shelf, sold>>

Delivered(p, y, lines) ==
  /\ Writes(p, y) /\ lines \in Counts
  /\ y.received = Plus(purchase[p].received, lines)
  /\ y.returned = purchase[p].returned /\ y.paid = purchase[p].paid
  /\ shelf' = Plus(shelf, lines)
  /\ UNCHANGED <<sentBack, payment, sold>>

SentOff(p, y, x) ==
  /\ Writes(p, y) /\ x \in SentBackRow /\ x.purchase = p
  /\ y.received = purchase[p].received /\ y.paid = purchase[p].paid
  /\ \A i \in Item :
       /\ y.returned[i] = purchase[p].returned[i] + (x.lines[i] + UnitsOf(x.items)[i])
       /\ shelf'[i] = shelf[i] - x.lines[i]
  /\ sentBack' = Append(sentBack, x)
  /\ UNCHANGED <<payment, sold>>

PaidOff(p, y, x) ==
  /\ Writes(p, y) /\ x \in Payments /\ x.purchase = p
  /\ y.received = purchase[p].received /\ y.returned = purchase[p].returned
  /\ y.paid = purchase[p].paid + x.amount
  /\ y.credited = purchase[p].credited /\ y.paid + y.credited <= GrandTotal[p]
  /\ payment' = Append(payment, x)
  /\ UNCHANGED <<sentBack, shelf, sold>>

InAdvance(x) ==
  /\ x \in Payments /\ x.purchase = NoPurchase
  /\ payment' = Append(payment, x)
  /\ UNCHANGED <<purchase, sentBack, shelf, sold>>

Effect ==
  \/ Still
  \/ \E p, y : \/ Noted(p, y)
               \/ \E lines : Delivered(p, y, lines)
               \/ \E x : SentOff(p, y, x) \/ PaidOff(p, y, x)
  \/ \E x : InAdvance(x)

-----------------------------------------------------------------------------
(* Counts of goods, and what they cost.                                    *)
LEMMA UnitsOfNat ==
  ASSUME NEW items \in SUBSET Damaged
  PROVE  UnitsOf(items) \in Counts
<1>1. ASSUME NEW i \in Item PROVE Cardinality({d \in items : ItemOf[d] = i}) \in Nat
  <2>1. IsFiniteSet({d \in items : ItemOf[d] = i})
    BY PurchasingAssumption, FS_Subset
  <2> QED
    BY <2>1, FS_CardinalityType
<1> QED
  BY <1>1 DEF UnitsOf, Counts

LEMMA UnitsOfNone == \A i \in Item : UnitsOf({})[i] = 0
<1>1. \A i \in Item : {d \in {} : ItemOf[d] = i} = {}
  OBVIOUS
<1> QED
  BY <1>1, FS_EmptySet DEF UnitsOf

LEMMA CostsOver ==
  ASSUME NEW p \in Purchase, NEW lines \in Counts
  PROVE  /\ \A i \in Item : UnitCost[p][i] \in Nat /\ UnitCost[p][i] * lines[i] \in Nat
         /\ Costs(p, lines) \in Nat
<1>1. \A m, n \in Nat : m * n \in Nat
  OBVIOUS
<1>2. \A i \in Item : UnitCost[p][i] \in Nat /\ UnitCost[p][i] * lines[i] \in Nat
  BY <1>1, PurchasingAssumption DEF Counts
<1> DEFINE f == [i \in Item |-> UnitCost[p][i] * lines[i]]
<1>3. \A i \in Item : f[i] \in Nat
  BY <1>2
<1>4. Costs(p, lines) = SumFunctionOnSet(f, Item)
  BY DEF Costs
<1> HIDE DEF f
<1>5. SumFunctionOnSet(f, Item) \in Nat
  BY <1>3, FiniteAssumption, SumNat
<1> QED
  BY <1>2, <1>4, <1>5

LEMMA CostsPlus ==
  ASSUME NEW p \in Purchase, NEW a \in Counts, NEW b \in Counts
  PROVE  Costs(p, Plus(a, b)) = Costs(p, a) + Costs(p, b)
<1> DEFINE f == [i \in Item |-> UnitCost[p][i] * a[i]]
           g == [i \in Item |-> UnitCost[p][i] * b[i]]
           h == [i \in Item |-> UnitCost[p][i] * Plus(a, b)[i]]
<1>1. /\ Costs(p, a) = SumFunctionOnSet(f, Item)
      /\ Costs(p, b) = SumFunctionOnSet(g, Item)
      /\ Costs(p, Plus(a, b)) = SumFunctionOnSet(h, Item)
  BY DEF Costs
<1>2. \A i \in Item : f[i] \in Int /\ g[i] \in Int /\ h[i] = f[i] + g[i]
  <2> SUFFICES ASSUME NEW i \in Item
               PROVE  /\ UnitCost[p][i] * a[i] \in Int
                      /\ UnitCost[p][i] * b[i] \in Int
                      /\ UnitCost[p][i] * Plus(a, b)[i]
                           = UnitCost[p][i] * a[i] + UnitCost[p][i] * b[i]
    OBVIOUS
  <2>1. UnitCost[p][i] \in Nat /\ a[i] \in Nat /\ b[i] \in Nat /\ Plus(a, b)[i] = a[i] + b[i]
    BY PurchasingAssumption DEF Counts, Plus
  <2>2. \A u, m, n \in Nat : /\ u * m \in Int
                             /\ u * n \in Int
                             /\ u * (m + n) = u * m + u * n
    OBVIOUS
  <2> QED
    BY <2>1, <2>2
<1> HIDE DEF f, g, h
<1>3. SumFunctionOnSet(h, Item) = SumFunctionOnSet(f, Item) + SumFunctionOnSet(g, Item)
  BY <1>2, FiniteAssumption, SumPlus
<1> QED
  BY <1>1, <1>3

LEMMA CostsNone == \A p \in Purchase : Costs(p, None) = 0
<1> SUFFICES ASSUME NEW p \in Purchase PROVE Costs(p, None) = 0
  OBVIOUS
<1> DEFINE f == [i \in Item |-> UnitCost[p][i] * None[i]]
<1>1. \A i \in Item : f[i] = 0
  <2>1. \A m \in Nat : m * 0 = 0
    OBVIOUS
  <2> QED
    BY <2>1, PurchasingAssumption DEF None
<1>2. Costs(p, None) = SumFunctionOnSet(f, Item)
  BY DEF Costs
<1> HIDE DEF f
<1> QED
  BY <1>1, <1>2, FiniteAssumption, SumZero

(* Some of a count is not none of it.                                      *)
LEMMA PlusSome ==
  ASSUME NEW a \in Counts, NEW b \in Counts
  PROVE  /\ Plus(a, b) \in Counts /\ None \in Counts
         /\ \A i \in Item : Plus(a, b)[i] = a[i] + b[i]
         /\ b # None => Plus(a, b) # None
<1>1. Plus(a, b) \in Counts /\ None \in Counts /\ \A i \in Item : Plus(a, b)[i] = a[i] + b[i]
  BY DEF Plus, Counts, None
<1>2. ASSUME b # None PROVE Plus(a, b) # None
  <2>1. PICK i \in Item : b[i] # 0
    BY <1>2 DEF Counts, None
  <2>2. Plus(a, b)[i] # 0
    BY <1>1, <2>1 DEF Counts
  <2> QED
    BY <2>2 DEF None
<1> QED
  BY <1>1, <1>2

-----------------------------------------------------------------------------
(* One row more of a table.                                                *)
LEMMA OneMore ==
  ASSUME NEW R, NEW rows \in Seq(R), NEW x \in R
  PROVE  /\ DOMAIN Append(rows, x) = DOMAIN rows \cup {Len(rows) + 1}
         /\ Len(rows) + 1 \notin DOMAIN rows /\ IsFiniteSet(DOMAIN rows)
         /\ Append(rows, x)[Len(rows) + 1] = x
         /\ \A n \in DOMAIN rows : Append(rows, x)[n] = rows[n] /\ rows[n] \in R
         /\ Append(rows, x) \in Seq(R)
<1>1. /\ DOMAIN rows = 1 .. Len(rows) /\ Len(rows) \in Nat
      /\ DOMAIN Append(rows, x) = 1 .. (Len(rows) + 1)
  OBVIOUS
<1>2. IsFiniteSet(1 .. Len(rows))
  BY <1>1, FS_Interval
<1> QED
  BY <1>1, <1>2

(* What the returns and the payments add up to is a whole sum ...          *)
LEMMA RowSum ==
  ASSUME NEW D, IsFiniteSet(D), NEW f, NEW S \in SUBSET D, \A n \in D : f[n] \in Int
  PROVE  SumFunctionOnSet(f, S) \in Int
<1>1. IsFiniteSet(S)
  BY FS_Subset
<1> QED
  BY <1>1, SumInt

(* ... and grows by the row written, if it is one of those counted.        *)
Grows(f, g, S, k) ==
  /\ SumFunctionOnSet(g, S) = SumFunctionOnSet(f, S)
  /\ SumFunctionOnSet(g, S \cup {k}) = SumFunctionOnSet(f, S) + g[k]

LEMMA RowSumMore ==
  ASSUME NEW D, IsFiniteSet(D), NEW k, k \notin D, NEW f, NEW g,
         NEW S \in SUBSET D, g[k] \in Int,
         \A n \in D : f[n] = g[n] /\ f[n] \in Int
  PROVE  Grows(f, g, S, k)
<1>1. IsFiniteSet(S) /\ k \notin S /\ \A n \in S : f[n] = g[n] /\ f[n] \in Int
  BY FS_Subset
<1>2. SumFunctionOnSet(g, S) = SumFunctionOnSet(f, S)
  BY <1>1, SumSame
<1>3. SumFunctionOnSet(g, S \cup {k}) = SumFunctionOnSet(f, S) + g[k]
  BY <1>1, SumMore
<1> QED
  BY <1>2, <1>3 DEF Grows

(* A return written: what it sends back on its order, and off the shelf.   *)
LEMMA SentMore ==
  ASSUME GoodsTyped, NEW x \in SentBackRow, sentBack' = Append(sentBack, x),
         NEW i \in Item
  PROVE  /\ \A p \in Purchase :
              SentBackOn(p, i)' =
                IF x.purchase = p THEN SentBackOn(p, i) + (x.lines[i] + UnitsOf(x.items)[i])
                ELSE SentBackOn(p, i)
         /\ WentBack(i)' = WentBack(i) + x.lines[i]
         /\ WentBack(i) \in Int
<1> DEFINE f == [n \in DOMAIN sentBack |-> sentBack[n].lines[i]]
           g == [n \in DOMAIN sentBack' |-> sentBack'[n].lines[i]]
           u == [n \in DOMAIN sentBack |-> UnitsOf(sentBack[n].items)[i]]
           w == [n \in DOMAIN sentBack' |-> UnitsOf(sentBack'[n].items)[i]]
           k == Len(sentBack) + 1
           D == DOMAIN sentBack
<1>1. sentBack \in Seq(SentBackRow)
  BY DEF GoodsTyped, PurchasingTypeOK
<1>2. /\ DOMAIN sentBack' = D \cup {k} /\ k \notin D /\ sentBack'[k] = x
      /\ IsFiniteSet(D)
      /\ \A n \in D : sentBack'[n] = sentBack[n] /\ sentBack[n] \in SentBackRow
  BY <1>1, OneMore
<1>3. x.lines[i] \in Int /\ UnitsOf(x.items)[i] \in Int
  BY UnitsOfNat DEF SentBackRow, Counts
<1>4. \A n \in D : f[n] = g[n] /\ f[n] \in Int
  BY <1>2 DEF SentBackRow, Counts
<1>5. \A n \in D : u[n] = w[n] /\ u[n] \in Int
  <2>1. \A n \in D : UnitsOf(sentBack[n].items) \in Counts
    BY <1>2, UnitsOfNat DEF SentBackRow
  <2> QED
    BY <1>2, <2>1 DEF Counts
<1>6. /\ g[k] = x.lines[i] /\ w[k] = UnitsOf(x.items)[i]
      /\ g[k] \in Int /\ w[k] \in Int
  BY <1>2, <1>3
<1>7. WentBack(i) = SumFunctionOnSet(f, D) /\ WentBack(i)' = SumFunctionOnSet(g, D \cup {k})
  BY <1>2 DEF WentBack
<1> DEFINE of(p) == {n \in D : sentBack[n].purchase = p}
<1>8. ASSUME NEW p \in Purchase
      PROVE  /\ SentBackOn(p, i) = SumFunctionOnSet(f, of(p)) + SumFunctionOnSet(u, of(p))
             /\ SentBackOn(p, i)' =
                  IF x.purchase = p
                  THEN SumFunctionOnSet(g, of(p) \cup {k}) + SumFunctionOnSet(w, of(p) \cup {k})
                  ELSE SumFunctionOnSet(g, of(p)) + SumFunctionOnSet(w, of(p))
  <2> DEFINE new == {n \in DOMAIN sentBack' : sentBack'[n].purchase = p}
  <2>1. new = IF x.purchase = p THEN of(p) \cup {k} ELSE of(p)
    BY <1>2
  <2>2. SentBackOn(p, i)' = SumFunctionOnSet(g, new) + SumFunctionOnSet(w, new)
    BY DEF SentBackOn
  <2>3. SentBackOn(p, i) = SumFunctionOnSet(f, of(p)) + SumFunctionOnSet(u, of(p))
    BY DEF SentBackOn
  <2> HIDE DEF new, f, g, u, w, of, k
  <2> QED
    BY <2>1, <2>2, <2>3
<1> HIDE DEF f, g, u, w, k, D
<1>9. ASSUME NEW S \in SUBSET D
      PROVE  /\ SumFunctionOnSet(f, S) \in Int /\ SumFunctionOnSet(u, S) \in Int
             /\ SumFunctionOnSet(g, S) = SumFunctionOnSet(f, S)
             /\ SumFunctionOnSet(w, S) = SumFunctionOnSet(u, S)
             /\ SumFunctionOnSet(g, S \cup {k}) = SumFunctionOnSet(f, S) + g[k]
             /\ SumFunctionOnSet(w, S \cup {k}) = SumFunctionOnSet(u, S) + w[k]
  <2>1. SumFunctionOnSet(f, S) \in Int /\ SumFunctionOnSet(u, S) \in Int
    BY <1>2, <1>4, <1>5, RowSum
  <2>2. Grows(f, g, S, k)
    BY <1>2, <1>3, <1>4, <1>6, RowSumMore
  <2>3. Grows(u, w, S, k)
    BY <1>2, <1>3, <1>5, <1>6, RowSumMore
  <2> QED
    BY <2>1, <2>2, <2>3 DEF Grows
<1>10. WentBack(i)' = WentBack(i) + x.lines[i] /\ WentBack(i) \in Int
  BY <1>6, <1>7, <1>9
<1>11. ASSUME NEW p \in Purchase
       PROVE  SentBackOn(p, i)' =
                IF x.purchase = p THEN SentBackOn(p, i) + (x.lines[i] + UnitsOf(x.items)[i])
                ELSE SentBackOn(p, i)
  <2> DEFINE S == of(p)
             a == SumFunctionOnSet(f, S)
             b == SumFunctionOnSet(u, S)
             l == x.lines[i]
             m == UnitsOf(x.items)[i]
  <2>1. /\ a \in Int /\ b \in Int
        /\ SumFunctionOnSet(g, S) = a /\ SumFunctionOnSet(w, S) = b
        /\ SumFunctionOnSet(g, S \cup {k}) = a + l /\ SumFunctionOnSet(w, S \cup {k}) = b + m
    BY <1>6, <1>9
  <2>2. l \in Int /\ m \in Int
    BY <1>3
  <2>3. SentBackOn(p, i) = a + b
    BY <1>8
  <2>4. SentBackOn(p, i)' = IF x.purchase = p THEN (a + l) + (b + m) ELSE a + b
    BY <1>8, <2>1
  <2> HIDE DEF a, b, l, m
  <2>5. (a + l) + (b + m) = (a + b) + (l + m)
    BY <2>1, <2>2
  <2> QED
    BY <2>3, <2>4, <2>5 DEF l, m
<1> QED
  BY <1>10, <1>11

(* A payment written.                                                      *)
LEMMA PaymentMore ==
  ASSUME GoodsTyped, NEW x \in Payments, payment' = Append(payment, x), NEW p \in Purchase
  PROVE  PaymentSum(p)' = IF x.purchase = p THEN PaymentSum(p) + x.amount ELSE PaymentSum(p)
<1> DEFINE f == [n \in DOMAIN payment |-> payment[n].amount]
           g == [n \in DOMAIN payment' |-> payment'[n].amount]
           k == Len(payment) + 1
           D == DOMAIN payment
           S == {n \in D : payment[n].purchase = p}
           new == {n \in DOMAIN payment' : payment'[n].purchase = p}
<1>1. payment \in Seq(Payments)
  BY DEF GoodsTyped
<1>2. /\ DOMAIN payment' = D \cup {k} /\ k \notin D /\ payment'[k] = x
      /\ IsFiniteSet(D)
      /\ \A n \in D : payment'[n] = payment[n] /\ payment[n] \in Payments
  BY <1>1, OneMore
<1>3. x.amount \in Int
  BY AmountNat DEF Payments
<1>4. \A n \in D : f[n] = g[n] /\ f[n] \in Int
  <2>1. \A n \in D : payment[n].amount \in Int
    BY <1>2, AmountNat DEF Payments
  <2> QED
    BY <1>2, <2>1
<1>5. g[k] = x.amount /\ g[k] \in Int
  BY <1>2, <1>3
<1>6. PaymentSum(p) = SumFunctionOnSet(f, S) /\ PaymentSum(p)' = SumFunctionOnSet(g, new)
  BY DEF PaymentSum, PaymentsOf
<1>7. new = IF x.purchase = p THEN S \cup {k} ELSE S
  BY <1>2
<1>8. S \in SUBSET D
  OBVIOUS
<1> HIDE DEF f, g, new, S, k, D
<1>9. Grows(f, g, S, k)
  BY <1>2, <1>3, <1>4, <1>5, <1>8, RowSumMore
<1> QED
  BY <1>5, <1>6, <1>7, <1>9 DEF Grows

(* A delivery booked on one order.                                         *)
LEMMA ReceivedMore ==
  ASSUME GoodsTyped, NEW p \in Purchase, NEW y \in PurchaseRow,
         purchase' = [purchase EXCEPT ![p] = y], NEW i \in Item
  PROVE  /\ ReceivedSum(i) \in Int
         /\ ReceivedSum(i)' = ReceivedSum(i) - purchase[p].received[i] + y.received[i]
<1> DEFINE f == [q \in Purchase |-> purchase[q].received[i]]
           g == [q \in Purchase |-> purchase'[q].received[i]]
<1>1. \A q \in Purchase : purchase'[q] = IF q = p THEN y ELSE purchase[q]
  BY DEF GoodsTyped, PurchasingTypeOK
<1>2. \A q \in Purchase : purchase[q].received[i] \in Nat /\ y.received[i] \in Nat
  BY DEF GoodsTyped, PurchasingTypeOK, PurchaseRow, Counts
<1>3. \A q \in Purchase : f[q] \in Int /\ g[q] \in Int
  BY <1>1, <1>2
<1>4. \A q \in Purchase \ {p} : g[q] = f[q]
  BY <1>1
<1>5. f[p] = purchase[p].received[i] /\ g[p] = y.received[i]
  BY <1>1
<1>6. ReceivedSum(i) = SumFunctionOnSet(f, Purchase) /\ ReceivedSum(i)' = SumFunctionOnSet(g, Purchase)
  BY DEF ReceivedSum
<1> HIDE DEF f, g
<1>7. SumFunctionOnSet(g, Purchase) = SumFunctionOnSet(f, Purchase) - f[p] + g[p]
  BY <1>3, <1>4, FiniteAssumption, SumUpdate
<1>8. SumFunctionOnSet(f, Purchase) \in Int
  BY <1>3, FiniteAssumption, SumInt
<1> QED
  BY <1>5, <1>6, <1>7, <1>8

-----------------------------------------------------------------------------
(* Each effect keeps the accounts.                                         *)
LEMMA RowWritten ==
  ASSUME GoodsTyped, RowsAdd, NEW p, NEW y, Writes(p, y)
  PROVE  /\ \A q \in Purchase : purchase'[q] = IF q = p THEN y ELSE purchase[q]
         /\ purchase' \in [Purchase -> PurchaseRow]
         /\ RowsAdd'
<1>1. /\ p \in Purchase /\ y \in PurchaseRow /\ RowAdds(p, y)
      /\ purchase' = [purchase EXCEPT ![p] = y]
      /\ purchase \in [Purchase -> PurchaseRow]
  BY DEF Writes, GoodsTyped, PurchasingTypeOK
<1>2. \A q \in Purchase : purchase'[q] = IF q = p THEN y ELSE purchase[q]
  BY <1>1
<1>3. purchase' \in [Purchase -> PurchaseRow]
  BY <1>1
<1>4. \A q \in Purchase : RowAdds(q, purchase'[q])
  BY <1>1, <1>2 DEF RowsAdd
<1> QED
  BY <1>2, <1>3, <1>4 DEF RowsAdd

(* What no step writes adds up to what it did.                             *)
LEMMA SumsKept ==
  /\ UNCHANGED sentBack =>
       \A i \in Item : /\ \A p \in Purchase : SentBackOn(p, i)' = SentBackOn(p, i)
                       /\ WentBack(i)' = WentBack(i)
  /\ UNCHANGED payment => \A p \in Purchase : PaymentSum(p)' = PaymentSum(p)
  /\ UNCHANGED purchase => \A i \in Item : ReceivedSum(i)' = ReceivedSum(i)
BY DEF SentBackOn, WentBack, PaymentSum, PaymentsOf, ReceivedSum

(* The shelf and what was sold off it are whole.                           *)
LEMMA WholeShelf ==
  ASSUME GoodsTyped, NEW i \in Item
  PROVE  /\ shelf[i] \in Int /\ sold[i] \in Int
         /\ \A p \in Purchase : purchase[p].received[i] \in Int /\ purchase[p].paid \in Int
BY DEF GoodsTyped, PurchasingTypeOK, PurchaseRow, Counts

LEMMA StillAdds ==
  ASSUME GoodsTyped, Accounts, Still
  PROVE  Accounts'
<1>1. RowsAdd' /\ ReturnsAdd' /\ PaidAdds'
  BY SumsKept DEF Still, Accounts, RowsAdd, RowAdds, ReturnsAdd, PaidAdds
<1>2. ShelfAdds'
  BY SumsKept DEF Still, Accounts, ShelfAdds
<1> QED
  BY <1>1, <1>2 DEF Accounts

LEMMA InAdvanceAdds ==
  ASSUME GoodsTyped, Accounts, NEW x, InAdvance(x)
  PROVE  Accounts'
<1>1. RowsAdd' /\ ReturnsAdd' /\ ShelfAdds'
  BY SumsKept DEF InAdvance, Accounts, RowsAdd, RowAdds, ReturnsAdd, ShelfAdds
<1>2. ASSUME NEW p \in Purchase PROVE PaymentSum(p)' = PaymentSum(p)
  <2>1. x \in Payments /\ payment' = Append(payment, x) /\ x.purchase # p
    BY BackOfficeAssumption DEF InAdvance
  <2> QED
    BY <2>1, PaymentMore
<1>3. PaidAdds'
  BY <1>2 DEF PaidAdds, Accounts, InAdvance
<1> QED
  BY <1>1, <1>3 DEF Accounts

LEMMA NotedAdds ==
  ASSUME GoodsTyped, Accounts, NEW p, NEW y, Noted(p, y)
  PROVE  Accounts'
<1>1. Writes(p, y) /\ RowsAdd
  BY DEF Noted, Accounts
<1>2. RowsAdd' /\ \A q \in Purchase : purchase'[q] = IF q = p THEN y ELSE purchase[q]
  BY <1>1, RowWritten
<1>3. \A q \in Purchase : purchase'[q].returned = purchase[q].returned
                           /\ purchase'[q].paid = purchase[q].paid
  BY <1>2 DEF Noted
<1>4. ReturnsAdd' /\ PaidAdds'
  BY <1>3, SumsKept DEF Noted, Accounts, ReturnsAdd, PaidAdds
<1>5. ASSUME NEW i \in Item PROVE ReceivedSum(i)' = ReceivedSum(i)
  <2>1. /\ p \in Purchase /\ y \in PurchaseRow
        /\ purchase' = [purchase EXCEPT ![p] = y] /\ y.received = purchase[p].received
    BY <1>1 DEF Writes, Noted
  <2>2. /\ ReceivedSum(i) \in Int
        /\ ReceivedSum(i)' = ReceivedSum(i) - purchase[p].received[i] + y.received[i]
    BY <2>1, ReceivedMore
  <2> QED
    BY <2>1, <2>2, WholeShelf
<1>6. ShelfAdds'
  BY <1>5, SumsKept DEF Noted, Accounts, ShelfAdds
<1> QED
  BY <1>2, <1>4, <1>6 DEF Accounts

LEMMA PaidOffAdds ==
  ASSUME GoodsTyped, Accounts, NEW p, NEW y, NEW x, PaidOff(p, y, x)
  PROVE  Accounts'
<1>1. Writes(p, y) /\ RowsAdd
  BY DEF PaidOff, Accounts
<1>2. RowsAdd' /\ \A q \in Purchase : purchase'[q] = IF q = p THEN y ELSE purchase[q]
  BY <1>1, RowWritten
<1>3. \A q \in Purchase : purchase'[q].returned = purchase[q].returned
  BY <1>2 DEF PaidOff
<1>4. ReturnsAdd'
  BY <1>3, SumsKept DEF PaidOff, Accounts, ReturnsAdd
<1>5. ASSUME NEW i \in Item PROVE ReceivedSum(i)' = ReceivedSum(i)
  <2>1. /\ p \in Purchase /\ y \in PurchaseRow
        /\ purchase' = [purchase EXCEPT ![p] = y] /\ y.received = purchase[p].received
    BY <1>1 DEF Writes, PaidOff
  <2>2. /\ ReceivedSum(i) \in Int
        /\ ReceivedSum(i)' = ReceivedSum(i) - purchase[p].received[i] + y.received[i]
    BY <2>1, ReceivedMore
  <2> QED
    BY <2>1, <2>2, WholeShelf
<1>6. ShelfAdds'
  BY <1>5, SumsKept DEF PaidOff, Accounts, ShelfAdds
<1>7. ASSUME NEW q \in Purchase PROVE purchase'[q].paid = PaymentSum(q)'
  <2>1. x \in Payments /\ payment' = Append(payment, x) /\ x.purchase = p
    BY DEF PaidOff
  <2>2. PaymentSum(q)' = IF q = p THEN PaymentSum(q) + x.amount ELSE PaymentSum(q)
    BY <2>1, PaymentMore
  <2>3. purchase[q].paid = PaymentSum(q)
    BY DEF Accounts, PaidAdds
  <2> QED
    BY <1>2, <2>2, <2>3 DEF PaidOff
<1>8. PaidAdds'
  BY <1>7 DEF PaidAdds
<1> QED
  BY <1>2, <1>4, <1>6, <1>8 DEF Accounts

LEMMA DeliveredAdds ==
  ASSUME GoodsTyped, Accounts, NEW p, NEW y, NEW lines, Delivered(p, y, lines)
  PROVE  Accounts'
<1>1. Writes(p, y) /\ RowsAdd
  BY DEF Delivered, Accounts
<1>2. RowsAdd' /\ \A q \in Purchase : purchase'[q] = IF q = p THEN y ELSE purchase[q]
  BY <1>1, RowWritten
<1>3. \A q \in Purchase : purchase'[q].returned = purchase[q].returned
                           /\ purchase'[q].paid = purchase[q].paid
  BY <1>2 DEF Delivered
<1>4. ReturnsAdd' /\ PaidAdds'
  BY <1>3, SumsKept DEF Delivered, Accounts, ReturnsAdd, PaidAdds
<1>5. ASSUME NEW i \in Item
      PROVE  shelf'[i] + sold'[i] = ReceivedSum(i)' - WentBack(i)'
  <2>1. /\ p \in Purchase /\ y \in PurchaseRow
        /\ purchase' = [purchase EXCEPT ![p] = y]
        /\ purchase[p].received \in Counts /\ shelf \in Counts /\ lines \in Counts
    BY <1>1 DEF Writes, Delivered, GoodsTyped, PurchasingTypeOK, PurchaseRow
  <2>2. /\ ReceivedSum(i) \in Int
        /\ ReceivedSum(i)' = ReceivedSum(i) - purchase[p].received[i] + y.received[i]
    BY <2>1, ReceivedMore
  <2>3. /\ y.received[i] = purchase[p].received[i] + lines[i]
        /\ shelf'[i] = shelf[i] + lines[i]
        /\ lines[i] \in Int
    BY <2>1 DEF Delivered, Plus, Counts
  <2>4. ReceivedSum(i)' = ReceivedSum(i) + lines[i]
    BY <2>1, <2>2, <2>3, WholeShelf
  <2>5. sold'[i] = sold[i] /\ WentBack(i)' = WentBack(i)
    BY SumsKept DEF Delivered
  <2>6. shelf[i] + sold[i] = ReceivedSum(i) - WentBack(i) /\ WentBack(i) \in Int
    <3> DEFINE f == [n \in DOMAIN sentBack |-> sentBack[n].lines[i]]
               D == DOMAIN sentBack
    <3>1. WentBack(i) = SumFunctionOnSet(f, D)
      BY DEF WentBack
    <3>2. sentBack \in Seq(SentBackRow)
      BY DEF GoodsTyped, PurchasingTypeOK
    <3>3. D = 1 .. Len(sentBack) /\ Len(sentBack) \in Nat
      BY <3>2
    <3>4. \A n \in D : f[n] \in Int
      <4>1. \A n \in D : sentBack[n] \in SentBackRow
        BY <3>2
      <4> QED
        BY <4>1 DEF SentBackRow, Counts
    <3>5. IsFiniteSet(D)
      BY <3>3, FS_Interval
    <3> HIDE DEF f, D
    <3>6. WentBack(i) \in Int
      BY <3>1, <3>4, <3>5, SumInt
    <3> QED
      BY <3>6 DEF Accounts, ShelfAdds
  <2> QED
    BY <2>2, <2>3, <2>4, <2>5, <2>6, WholeShelf
<1>6. ShelfAdds'
  BY <1>5 DEF ShelfAdds
<1> QED
  BY <1>2, <1>4, <1>6 DEF Accounts

LEMMA SentOffAdds ==
  ASSUME GoodsTyped, Accounts, NEW p, NEW y, NEW x, SentOff(p, y, x)
  PROVE  Accounts'
<1>1. Writes(p, y) /\ RowsAdd
  BY DEF SentOff, Accounts
<1>2. RowsAdd' /\ \A q \in Purchase : purchase'[q] = IF q = p THEN y ELSE purchase[q]
  BY <1>1, RowWritten
<1>3. \A q \in Purchase : purchase'[q].paid = purchase[q].paid
  BY <1>2 DEF SentOff
<1>4. PaidAdds'
  BY <1>3, SumsKept DEF SentOff, Accounts, PaidAdds
<1>5. x \in SentBackRow /\ sentBack' = Append(sentBack, x) /\ x.purchase = p
  BY DEF SentOff
<1>6. ASSUME NEW q \in Purchase, NEW i \in Item
      PROVE  purchase'[q].returned[i] = SentBackOn(q, i)'
  <2>1. SentBackOn(q, i)' =
          IF q = p THEN SentBackOn(q, i) + (x.lines[i] + UnitsOf(x.items)[i])
          ELSE SentBackOn(q, i)
    BY <1>5, SentMore
  <2>2. purchase[q].returned[i] = SentBackOn(q, i)
    BY DEF Accounts, ReturnsAdd
  <2> QED
    BY <1>2, <2>1, <2>2 DEF SentOff
<1>7. ReturnsAdd'
  BY <1>6 DEF ReturnsAdd
<1>8. ASSUME NEW i \in Item
      PROVE  shelf'[i] + sold'[i] = ReceivedSum(i)' - WentBack(i)'
  <2>1. /\ p \in Purchase /\ y \in PurchaseRow
        /\ purchase' = [purchase EXCEPT ![p] = y] /\ y.received = purchase[p].received
    BY <1>1 DEF Writes, SentOff
  <2>2. /\ ReceivedSum(i) \in Int
        /\ ReceivedSum(i)' = ReceivedSum(i) - purchase[p].received[i] + y.received[i]
    BY <2>1, ReceivedMore
  <2>3. ReceivedSum(i)' = ReceivedSum(i)
    BY <2>1, <2>2, WholeShelf
  <2>4. WentBack(i)' = WentBack(i) + x.lines[i] /\ WentBack(i) \in Int
    BY <1>5, SentMore
  <2>5. x.lines[i] \in Int /\ shelf'[i] = shelf[i] - x.lines[i] /\ sold'[i] = sold[i]
    BY <1>5 DEF SentOff, SentBackRow, Counts
  <2>6. shelf[i] + sold[i] = ReceivedSum(i) - WentBack(i)
    BY DEF Accounts, ShelfAdds
  <2> QED
    BY <2>2, <2>3, <2>4, <2>5, <2>6, WholeShelf
<1>9. ShelfAdds'
  BY <1>8 DEF ShelfAdds
<1> QED
  BY <1>2, <1>4, <1>7, <1>9 DEF Accounts

LEMMA EffectAdds ==
  ASSUME GoodsTyped, Accounts, Effect
  PROVE  Accounts'
BY StillAdds, NotedAdds, DeliveredAdds, SentOffAdds, PaidOffAdds, InAdvanceAdds DEF Effect

-----------------------------------------------------------------------------
(* Every step is one of the effects.                                       *)
Stocked == shelf \in Counts /\ sold \in Counts /\ damaged \subseteq Damaged

LEMMA OneRow ==
  ASSUME GoodsTyped, RowsAdd, NEW p \in Purchase
  PROVE  /\ purchase[p] \in PurchaseRow /\ RowAdds(p, purchase[p])
         /\ purchase[p].received \in Counts /\ purchase[p].returned \in Counts
         /\ purchase[p].paid \in Nat /\ purchase[p].credited \in Nat
         /\ purchase \in [Purchase -> PurchaseRow]
         /\ Stocked
BY DEF GoodsTyped, PurchasingTypeOK, PurchaseRow, RowsAdd, Stocked

(* A status written over an order that nothing has come of.                *)
LEMMA StatusNoted ==
  ASSUME GoodsTyped, RowsAdd, NEW p \in Purchase, NEW s \in {"DRAFT", "SENT", "CANCELLED"},
         purchase' = [purchase EXCEPT ![p].status = s],
         purchase[p].received = None, s = "CANCELLED" => purchase[p].paid = 0,
         UNCHANGED <<sentBack, payment, shelf, sold, damaged>>
  PROVE  Effect /\ Stocked'
<1> DEFINE y == [purchase[p] EXCEPT !.status = s]
<1>1. /\ purchase[p] \in PurchaseRow /\ RowAdds(p, purchase[p]) /\ Stocked
  BY OneRow
<1>2. /\ y \in PurchaseRow
      /\ y.status = s /\ y.received = purchase[p].received
      /\ y.returned = purchase[p].returned /\ y.paid = purchase[p].paid
      /\ y.credited = purchase[p].credited /\ y.badge = purchase[p].badge
  BY <1>1 DEF PurchaseRow, PurchaseStatus
<1>3. purchase' = [purchase EXCEPT ![p] = y]
  OBVIOUS
<1> HIDE DEF y
<1>4. RowAdds(p, y)
  BY <1>1, <1>2 DEF RowAdds
<1>5. Noted(p, y)
  BY <1>2, <1>3, <1>4 DEF Noted, Writes
<1> QED
  BY <1>1, <1>5 DEF Effect, Stocked

LEMMA StatusStep ==
  ASSUME GoodsTyped, RowsAdd, NEW p \in Purchase, UNCHANGED payment,
         Draft(p) \/ SendOrder(p) \/ CancelPurchase(p)
  PROVE  Effect /\ Stocked'
<1>1. RowAdds(p, purchase[p])
  BY OneRow
<1>2. CASE Draft(p)
  <2>1. purchase[p].received = None
    BY <1>1, <1>2 DEF Draft, RowAdds
  <2> QED
    BY <1>2, <2>1, StatusNoted DEF Draft
<1>3. CASE SendOrder(p)
  <2>1. purchase[p].received = None
    BY <1>1, <1>3 DEF SendOrder, RowAdds
  <2> QED
    BY <1>3, <2>1, StatusNoted DEF SendOrder
<1>4. CASE CancelPurchase(p)
  BY <1>4, StatusNoted DEF CancelPurchase, MayCancel
<1> QED
  BY <1>2, <1>3, <1>4

LEMMA DeliverableCounts ==
  ASSUME NEW p \in Purchase, NEW lines \in Deliverable(p)
  PROVE  lines \in Counts
<1>1. \A i \in Item : Ordered[p][i] \in Nat
  BY PurchasingAssumption
<1>2. UNION {0 .. Ordered[p][i] : i \in Item} \subseteq Nat
  BY <1>1
<1> QED
  BY <1>2 DEF Deliverable, Counts

LEMMA ReceiveStep ==
  ASSUME GoodsTyped, RowsAdd, NEW p \in Purchase, NEW lines \in Deliverable(p),
         UNCHANGED payment, ReceiveGoods(p, lines)
  PROVE  Effect /\ Stocked'
<1> DEFINE received == Plus(purchase[p].received, lines)
           status == ReceiptStatus(p, received)
           y == [purchase[p] EXCEPT !.received = received, !.status = status]
<1>1. /\ purchase[p] \in PurchaseRow /\ RowAdds(p, purchase[p]) /\ Stocked
      /\ purchase[p].received \in Counts /\ purchase[p].returned \in Counts
  BY OneRow
<1>2. lines \in Counts /\ lines # None
  BY DeliverableCounts DEF ReceiveGoods
<1>3. /\ received \in Counts /\ received # None
      /\ \A i \in Item : received[i] = purchase[p].received[i] + lines[i]
  BY <1>1, <1>2, PlusSome
<1>4. /\ Within(received, Ordered[p])
      /\ purchase' = [purchase EXCEPT ![p].received = received, ![p].status = status]
      /\ shelf' = Plus(shelf, lines)
      /\ UNCHANGED <<sentBack, sold, damaged>>
  BY DEF ReceiveGoods
<1>5. status \in {"RECEIVED", "PARTIALLY_RECEIVED"}
  BY <1>3 DEF ReceiptStatus
<1> HIDE DEF received, status
<1>6. /\ y \in PurchaseRow
      /\ y.status = status /\ y.received = received
      /\ y.returned = purchase[p].returned /\ y.paid = purchase[p].paid
      /\ y.credited = purchase[p].credited /\ y.badge = purchase[p].badge
  BY <1>1, <1>3, <1>5 DEF PurchaseRow, PurchaseStatus
<1>7. purchase' = [purchase EXCEPT ![p] = y]
  BY <1>4
<1> HIDE DEF y
<1>8. \A i \in Item : y.returned[i] <= y.received[i] /\ y.received[i] <= Ordered[p][i]
  <2> SUFFICES ASSUME NEW i \in Item
               PROVE  y.returned[i] <= y.received[i] /\ y.received[i] <= Ordered[p][i]
    OBVIOUS
  <2>1. /\ purchase[p].returned[i] \in Nat /\ purchase[p].received[i] \in Nat
        /\ lines[i] \in Nat /\ purchase[p].returned[i] <= purchase[p].received[i]
    BY <1>1, <1>2 DEF Counts, RowAdds
  <2> QED
    BY <1>3, <1>4, <1>6, <2>1 DEF Within
<1>9. RowAdds(p, y)
  BY <1>1, <1>3, <1>5, <1>6, <1>8 DEF RowAdds
<1>10. Delivered(p, y, lines)
  BY <1>2, <1>4, <1>6, <1>7, <1>9 DEF Delivered, Writes, received
<1>11. Stocked'
  BY <1>1, <1>2, <1>4, PlusSome DEF Stocked
<1> QED
  BY <1>10, <1>11 DEF Effect

(* The row of an order some goods are sent back on.                        *)
LEMMA CreditedRow ==
  ASSUME GoodsTyped, RowsAdd, NEW p \in Purchase, NEW lines \in Counts,
         Within(lines, Returnable(p))
  PROVE  /\ Credited(p, lines) \in PurchaseRow /\ RowAdds(p, Credited(p, lines))
         /\ Credited(p, lines).received = purchase[p].received
         /\ Credited(p, lines).paid = purchase[p].paid
         /\ Credited(p, lines).returned = Plus(purchase[p].returned, lines)
<1> DEFINE r == purchase[p]
           credited == r.credited + Costs(p, lines)
           returned == Plus(r.returned, lines)
           badge == Badge(p, r.paid, credited)
           y == [r EXCEPT !.returned = returned, !.credited = credited, !.badge = badge]
<1>1. /\ r \in PurchaseRow /\ RowAdds(p, r) /\ r.received \in Counts
      /\ r.returned \in Counts /\ r.credited \in Nat
  BY OneRow
<1>2. returned \in Counts /\ \A i \in Item : returned[i] = r.returned[i] + lines[i]
  BY <1>1, PlusSome
<1>3. credited \in Nat
  BY <1>1, CostsOver
<1>4. credited = Costs(p, returned)
  BY <1>1, CostsPlus DEF RowAdds
<1>5. badge \in {"UNPAID", "PARTIALLY_PAID", "PAID"}
  BY DEF Badge
<1>6. \A i \in Item : returned[i] <= r.received[i]
  <2> SUFFICES ASSUME NEW i \in Item PROVE returned[i] <= r.received[i]
    OBVIOUS
  <2>1. lines[i] <= r.received[i] - r.returned[i]
    BY DEF Within, Returnable
  <2>2. lines[i] \in Nat /\ r.received[i] \in Nat /\ r.returned[i] \in Nat
    BY <1>1 DEF Counts
  <2> HIDE DEF r, returned
  <2> QED
    BY <1>2, <2>1, <2>2
<1>7. Credited(p, lines) = y
  BY DEF Credited
<1> HIDE DEF credited, returned, badge
<1>8. /\ y \in PurchaseRow
      /\ y.status = r.status /\ y.received = r.received /\ y.returned = returned
      /\ y.paid = r.paid /\ y.credited = credited /\ y.badge = badge
  BY <1>1, <1>2, <1>3, <1>5 DEF PurchaseRow
<1> HIDE DEF y
<1>9. y.badge = Badge(p, y.paid, y.credited)
  BY <1>8 DEF badge
<1>10. RowAdds(p, y)
  BY <1>1, <1>4, <1>6, <1>8, <1>9 DEF RowAdds
<1> QED
  BY <1>7, <1>8, <1>10 DEF returned

LEMMA SendBackStep ==
  ASSUME GoodsTyped, RowsAdd, NEW p \in Purchase, NEW lines \in Deliverable(p),
         NEW key \in ReturnKey \cup {NoReturnKey}, UNCHANGED payment,
         SendBack(p, lines, key)
  PROVE  Effect /\ Stocked'
<1> DEFINE y == Credited(p, lines)
           x == [purchase |-> p, lines |-> lines, items |-> {}, key |-> key]
<1>1. lines \in Counts /\ Within(lines, Returnable(p)) /\ Within(lines, shelf)
  BY DeliverableCounts DEF SendBack, OnShelf
<1>2. /\ y \in PurchaseRow /\ RowAdds(p, y) /\ y.received = purchase[p].received
      /\ y.paid = purchase[p].paid /\ y.returned = Plus(purchase[p].returned, lines)
  BY <1>1, CreditedRow
<1>3. /\ purchase' = [purchase EXCEPT ![p] = y]
      /\ shelf' = [i \in Item |-> shelf[i] - lines[i]]
      /\ sentBack' = Append(sentBack, x)
      /\ UNCHANGED <<sold, damaged>>
  BY DEF SendBack
<1>4. /\ x \in SentBackRow /\ x.purchase = p /\ x.lines = lines /\ x.items = {}
  BY <1>1 DEF SentBackRow
<1> HIDE DEF x, y
<1>5. Stocked /\ purchase[p].returned \in Counts
  BY OneRow
<1>6. \A i \in Item :
        /\ y.returned[i] = purchase[p].returned[i] + (x.lines[i] + UnitsOf(x.items)[i])
        /\ shelf'[i] = shelf[i] - x.lines[i]
  <2> SUFFICES ASSUME NEW i \in Item
               PROVE  /\ y.returned[i] = purchase[p].returned[i]
                                           + (lines[i] + UnitsOf({})[i])
                      /\ shelf'[i] = shelf[i] - lines[i]
    BY <1>4
  <2>1. UnitsOf({})[i] = 0 /\ lines[i] \in Nat /\ purchase[p].returned[i] \in Nat
    BY <1>1, <1>5, UnitsOfNone DEF Counts
  <2>2. y.returned[i] = purchase[p].returned[i] + lines[i]
    BY <1>2 DEF Plus
  <2> QED
    BY <1>3, <2>1, <2>2
<1>7. SentOff(p, y, x)
  BY <1>2, <1>3, <1>4, <1>6 DEF SentOff, Writes
<1>8. Stocked'
  <2>1. \A i \in Item : shelf[i] - lines[i] \in Nat
    BY <1>1, <1>5 DEF Stocked, Counts, Within
  <2> QED
    BY <1>3, <1>5, <2>1 DEF Stocked, Counts
<1> QED
  BY <1>7, <1>8 DEF Effect

LEMMA SendDamagedStep ==
  ASSUME GoodsTyped, RowsAdd, NEW p \in Purchase, UNCHANGED payment, SendDamaged(p)
  PROVE  Effect /\ Stocked'
<1> DEFINE s == sending[p]
           lines == UnitsOf(s.items)
           y == Credited(p, lines)
           x == [purchase |-> p, lines |-> None, items |-> s.items, key |-> s.key]
<1>1. UNCHANGED <<shelf, sold, damaged>> /\ Stocked
  BY OneRow DEF SendDamaged
<1>2. CASE UNCHANGED <<purchase, sentBack>>
  BY <1>1, <1>2 DEF Effect, Still, Stocked
<1>3. CASE /\ Within(lines, Returnable(p))
           /\ purchase' = [purchase EXCEPT ![p] = y]
           /\ sentBack' = Append(sentBack, x)
  <2>1. s \in Sending
    BY DEF GoodsTyped, PurchasingTypeOK
  <2>2. lines \in Counts /\ None \in Counts
    BY <2>1, UnitsOfNat DEF Sending, None, Counts
  <2>3. /\ y \in PurchaseRow /\ RowAdds(p, y) /\ y.received = purchase[p].received
        /\ y.paid = purchase[p].paid /\ y.returned = Plus(purchase[p].returned, lines)
    BY <1>3, <2>2, CreditedRow
  <2>4. x \in SentBackRow /\ x.purchase = p /\ x.lines = None /\ UnitsOf(x.items) = lines
    BY <2>1, <2>2 DEF SentBackRow, Sending
  <2>5. purchase[p].returned \in Counts
    BY OneRow
  <2> HIDE DEF x, y, lines
  <2>6. \A i \in Item :
          /\ y.returned[i] = purchase[p].returned[i] + (x.lines[i] + UnitsOf(x.items)[i])
          /\ shelf'[i] = shelf[i] - x.lines[i]
    <3> SUFFICES ASSUME NEW i \in Item
                 PROVE  /\ y.returned[i] = purchase[p].returned[i] + (None[i] + lines[i])
                        /\ shelf'[i] = shelf[i] - None[i]
      BY <2>4
    <3>1. None[i] = 0 /\ lines[i] \in Nat /\ purchase[p].returned[i] \in Nat
          /\ shelf[i] \in Nat
      BY <1>1, <2>2, <2>5 DEF None, Counts, Stocked
    <3>2. y.returned[i] = purchase[p].returned[i] + lines[i]
      BY <2>3 DEF Plus
    <3> QED
      BY <1>1, <3>1, <3>2
  <2>7. SentOff(p, y, x)
    BY <1>1, <1>3, <2>3, <2>4, <2>6 DEF SentOff, Writes
  <2> QED
    BY <1>1, <2>7 DEF Effect, Stocked
<1> QED
  BY <1>2, <1>3 DEF SendDamaged

LEMMA PaidRow ==
  ASSUME Typed, GoodsTyped, RowsAdd, NEW p \in Purchase, NEW amount \in Amount,
         MayPay(p, amount)
  PROVE  /\ PaidOn(p, amount) \in PurchaseRow /\ RowAdds(p, PaidOn(p, amount))
         /\ PaidOn(p, amount).received = purchase[p].received
         /\ PaidOn(p, amount).returned = purchase[p].returned
         /\ PaidOn(p, amount).paid = purchase[p].paid + amount
         /\ PaidOn(p, amount).credited = purchase[p].credited
         /\ PaidOn(p, amount).paid + PaidOn(p, amount).credited <= GrandTotal[p]
<1> DEFINE r == purchase[p]
           paid == r.paid + amount
           badge == Badge(p, paid, r.credited)
           y == [r EXCEPT !.paid = paid, !.badge = badge]
<1>1. /\ r \in PurchaseRow /\ RowAdds(p, r) /\ r.paid \in Nat /\ r.credited \in Nat
  BY OneRow
<1>2. amount \in Nat /\ GrandTotal[p] \in Nat
  BY AmountNat, PurchasingAssumption
<1>3. paid \in Nat /\ badge \in {"UNPAID", "PARTIALLY_PAID", "PAID"}
  BY <1>1, <1>2 DEF Badge
<1>4. r.status # "CANCELLED" /\ amount <= GrandTotal[p] - r.paid - r.credited
  BY BackOfficeAssumption DEF MayPay, WithinOutstanding
<1>5. paid + r.credited <= GrandTotal[p]
  BY <1>1, <1>2, <1>4
<1>6. PaidOn(p, amount) = y
  BY DEF PaidOn
<1> HIDE DEF paid, badge
<1>7. /\ y \in PurchaseRow
      /\ y.status = r.status /\ y.received = r.received /\ y.returned = r.returned
      /\ y.paid = paid /\ y.credited = r.credited /\ y.badge = badge
  BY <1>1, <1>3 DEF PurchaseRow
<1> HIDE DEF y
<1>8. y.badge = Badge(p, y.paid, y.credited)
  BY <1>7 DEF badge
<1>9. RowAdds(p, y)
  BY <1>1, <1>4, <1>7, <1>8 DEF RowAdds
<1> QED
  BY <1>5, <1>6, <1>7, <1>9 DEF paid

LEMMA PaymentStep ==
  ASSUME Typed, GoodsTyped, RowsAdd, NEW c \in Client, Pay(c)
  PROVE  Effect /\ Stocked'
<1> DEFINE r == desk[c]
           p == r.purchase
           a == Source(r.account)
           x == [purchase |-> p, amount |-> r.amount, account |-> a, key |-> r.key]
           ok == ~KeyOn(payment, r.key) /\ MayPay(p, r.amount) /\ CanPost(a, r.amount)
<1>1. /\ p \in Purchase \cup {NoPurchase} /\ r.amount \in Amount
      /\ r.key \in Key \cup {NoKey} /\ a \in Account \cup {NoAccount}
  BY AskedPay, SourceAccount DEF Pay
<1>2. UNCHANGED <<sentBack, shelf, sold, damaged>> /\ Stocked'
  BY DEF Pay, GoodsTyped, PurchasingTypeOK, Stocked
<1>3. CASE ~ok
  <2>1. UNCHANGED <<payment, purchase>>
    BY <1>3 DEF Pay
  <2> QED
    BY <1>2, <2>1 DEF Effect, Still
<1>4. CASE ok
  <2>1. /\ payment' = Append(payment, x)
        /\ purchase' = IF p = NoPurchase THEN purchase
                       ELSE [purchase EXCEPT ![p] = PaidOn(p, r.amount)]
    BY <1>4 DEF Pay
  <2>2. x \in Payments /\ x.purchase = p /\ x.amount = r.amount
    BY <1>1 DEF Payments
  <2>3. CASE p = NoPurchase
    <3> HIDE DEF x
    <3>1. InAdvance(x)
      BY <1>2, <2>1, <2>2, <2>3 DEF InAdvance
    <3> QED
      BY <1>2, <3>1 DEF Effect
  <2>4. CASE p # NoPurchase
    <3> DEFINE y == PaidOn(p, r.amount)
    <3>1. p \in Purchase /\ MayPay(p, r.amount)
      BY <1>1, <1>4, <2>4
    <3>2. /\ y \in PurchaseRow /\ RowAdds(p, y)
          /\ y.received = purchase[p].received /\ y.returned = purchase[p].returned
          /\ y.paid = purchase[p].paid + r.amount /\ y.credited = purchase[p].credited
          /\ y.paid + y.credited <= GrandTotal[p]
      BY <1>1, <3>1, PaidRow
    <3> HIDE DEF x, y
    <3>3. purchase' = [purchase EXCEPT ![p] = y]
      BY <2>1, <2>4 DEF y
    <3>4. PaidOff(p, y, x)
      BY <1>2, <2>1, <2>2, <3>1, <3>2, <3>3 DEF PaidOff, Writes
    <3> QED
      BY <1>2, <3>4 DEF Effect
  <2> QED
    BY <2>3, <2>4
<1> QED
  BY <1>3, <1>4

LEMMA StepEffect ==
  ASSUME Typed, GoodsTyped, RowsAdd, [Next]_vars
  PROVE  Effect /\ Stocked'
<1>1. Stocked
  BY DEF GoodsTyped, PurchasingTypeOK, Stocked
<1>2. CASE UNCHANGED <<purchaseVars, payment>>
  BY <1>1, <1>2 DEF purchaseVars, Effect, Still, Stocked
<1>3. CASE PurchasingNext /\ UNCHANGED payment
  <2> DEFINE OK == Effect /\ Stocked'
  <2>1. ASSUME NEW p \in Purchase, NEW items, NEW key, ChooseDamaged(p, items, key)
        PROVE  OK
    BY <1>1, <1>3, <2>1 DEF ChooseDamaged, Effect, Still, Stocked
  <2>2. ASSUME NEW i \in Item, Sell(i) PROVE OK
    <3>1. /\ shelf \in Counts /\ sold \in Counts /\ shelf[i] > 0
          /\ shelf' = [shelf EXCEPT ![i] = @ - 1] /\ sold' = [sold EXCEPT ![i] = @ + 1]
          /\ UNCHANGED <<purchase, sentBack, damaged>>
      BY <1>1, <2>2 DEF Sell, Stocked
    <3>2. \A j \in Item : /\ shelf'[j] = IF j = i THEN shelf[j] - 1 ELSE shelf[j]
                          /\ sold'[j] = IF j = i THEN sold[j] + 1 ELSE sold[j]
      BY <3>1 DEF Counts
    <3>3. \A j \in Item : shelf[j] \in Nat /\ sold[j] \in Nat
      BY <3>1 DEF Counts
    <3>4. \A j \in Item : /\ shelf'[j] \in Nat /\ sold'[j] \in Nat
                          /\ shelf'[j] + sold'[j] = shelf[j] + sold[j]
      BY <3>1, <3>2, <3>3
    <3>5. DOMAIN shelf' = Item /\ DOMAIN sold' = Item
          /\ shelf' = [j \in Item |-> shelf'[j]] /\ sold' = [j \in Item |-> sold'[j]]
      BY <3>1 DEF Counts
    <3>6. shelf' \in Counts /\ sold' \in Counts
      BY <3>4, <3>5 DEF Counts
    <3> QED
      BY <1>1, <1>3, <3>1, <3>4, <3>6 DEF Effect, Still, Stocked
  <2>3. ASSUME NEW d \in Damaged, BringBackDamaged(d) PROVE OK
    BY <1>1, <1>3, <2>3 DEF BringBackDamaged, Effect, Still, Stocked
  <2>4. ASSUME NEW p \in Purchase, Draft(p) \/ SendOrder(p) \/ CancelPurchase(p) PROVE OK
    BY <1>3, <2>4, StatusStep
  <2>5. ASSUME NEW p \in Purchase, SendDamaged(p) PROVE OK
    BY <1>3, <2>5, SendDamagedStep
  <2>6. ASSUME NEW p \in Purchase, NEW lines \in Deliverable(p), ReceiveGoods(p, lines)
        PROVE  OK
    BY <1>3, <2>6, ReceiveStep
  <2>7. ASSUME NEW p \in Purchase, NEW lines \in Deliverable(p),
               NEW key \in ReturnKey \cup {NoReturnKey}, SendBack(p, lines, key)
        PROVE  OK
    BY <1>3, <2>7, SendBackStep
  <2> HIDE DEF OK
  <2>8. OK
    BY <1>3, <2>1, <2>2, <2>3, <2>4, <2>5, <2>6, <2>7 DEF PurchasingNext
  <2> QED
    BY <2>8 DEF OK
<1>4. CASE \E c \in Client : Pay(c)
  BY <1>4, PaymentStep
<1> QED
  BY <1>2, <1>3, <1>4 DEF Next, vars, AskPay

-----------------------------------------------------------------------------
(* The invariant.                                                          *)
Kept == Typed /\ GoodsTyped /\ Accounts

LEMMA InitKept == ASSUME Init PROVE Kept
<1>1. Typed
  BY InitTyped
<1>2. /\ \A p \in Purchase : purchase[p] =
           [status |-> "NONE", badge |-> "UNPAID", received |-> None,
            returned |-> None, paid |-> 0, credited |-> 0]
      /\ sentBack = <<>> /\ payment = <<>> /\ shelf = None /\ sold = None
      /\ DOMAIN sentBack = {} /\ DOMAIN payment = {}
  BY DEF Init, PurchasingInit
<1>3. None \in Counts /\ \A i \in Item : None[i] = 0
  BY DEF None, Counts
<1>4. GoodsTyped
  <2>1. purchase \in [Purchase -> PurchaseRow]
    BY <1>3 DEF Init, PurchasingInit, PurchaseRow, PurchaseStatus
  <2>2. sending \in [Purchase -> Sending] /\ damaged \subseteq Damaged
    BY DEF Init, PurchasingInit, NotSending, Sending
  <2> QED
    BY <1>2, <1>3, <2>1, <2>2 DEF GoodsTyped, PurchasingTypeOK
<1>5. RowsAdd
  <2> SUFFICES ASSUME NEW p \in Purchase PROVE RowAdds(p, purchase[p])
    BY DEF RowsAdd
  <2>1. \A i \in Item : Ordered[p][i] \in Nat
    BY PurchasingAssumption
  <2>2. Costs(p, None) = 0
    BY CostsNone
  <2> QED
    BY <1>2, <1>3, <2>1, <2>2 DEF RowAdds
<1>6. ReturnsAdd
  <2> SUFFICES ASSUME NEW p \in Purchase, NEW i \in Item
               PROVE  0 = SentBackOn(p, i)
    BY <1>2, <1>3 DEF ReturnsAdd
  <2> DEFINE of == {n \in DOMAIN sentBack : sentBack[n].purchase = p}
             f == [n \in DOMAIN sentBack |-> sentBack[n].lines[i]]
             u == [n \in DOMAIN sentBack |-> UnitsOf(sentBack[n].items)[i]]
  <2>1. of = {}
    BY <1>2
  <2>2. SentBackOn(p, i) = SumFunctionOnSet(f, of) + SumFunctionOnSet(u, of)
    BY DEF SentBackOn
  <2> HIDE DEF of, f, u
  <2>3. SumFunctionOnSet(f, {}) = 0 /\ SumFunctionOnSet(u, {}) = 0
    BY SumEmpty
  <2> QED
    BY <2>1, <2>2, <2>3
<1>7. PaidAdds
  <2> SUFFICES ASSUME NEW p \in Purchase PROVE PaymentSum(p) = 0
    BY <1>2 DEF PaidAdds
  <2>1. PaymentsOf(p) = {}
    BY <1>2 DEF PaymentsOf
  <2> QED
    BY <2>1, SumEmpty DEF PaymentSum
<1>8. ShelfAdds
  <2> SUFFICES ASSUME NEW i \in Item
               PROVE  shelf[i] + sold[i] = ReceivedSum(i) - WentBack(i)
    BY DEF ShelfAdds
  <2>1. WentBack(i) = 0
    BY <1>2, SumEmpty DEF WentBack
  <2>2. ReceivedSum(i) = 0
    <3> DEFINE f == [p \in Purchase |-> purchase[p].received[i]]
    <3>1. \A p \in Purchase : f[p] = 0
      BY <1>2, <1>3
    <3>2. ReceivedSum(i) = SumFunctionOnSet(f, Purchase)
      BY DEF ReceivedSum
    <3> HIDE DEF f
    <3> QED
      BY <3>1, <3>2, FiniteAssumption, SumZero
  <2> QED
    BY <1>2, <1>3, <2>1, <2>2
<1> QED
  BY <1>1, <1>4, <1>5, <1>6, <1>7, <1>8 DEF Kept, Accounts

LEMMA StepKept ==
  ASSUME Kept, [Next]_vars
  PROVE  Kept'
<1>1. Typed /\ GoodsTyped /\ Accounts /\ RowsAdd
  BY DEF Kept, Accounts
<1>2. Typed'
  BY <1>1, StepTyped
<1>3. Effect /\ Stocked'
  BY <1>1, StepEffect
<1>4. Accounts'
  BY <1>1, <1>3, EffectAdds
<1>5. purchase' \in [Purchase -> PurchaseRow]
  <2>1. ASSUME NEW p, NEW y, Writes(p, y) PROVE purchase' \in [Purchase -> PurchaseRow]
    BY <1>1, <2>1, RowWritten
  <2>2. ASSUME UNCHANGED purchase PROVE purchase' \in [Purchase -> PurchaseRow]
    BY <1>1, <2>2 DEF GoodsTyped, PurchasingTypeOK
  <2> QED
    BY <1>3, <2>1, <2>2 DEF Effect, Still, Noted, Delivered, SentOff, PaidOff, InAdvance
<1>6. sentBack' \in Seq(SentBackRow) /\ sending' \in [Purchase -> Sending]
  <2>1. SendsTyped
    BY <1>1 DEF SendsTyped, GoodsTyped, PurchasingTypeOK
  <2>2. (UNCHANGED sentBack \/ \E x : NewReturn(x)) /\ sending' \in [Purchase -> Sending]
    BY <2>1, StepReturns
  <2> QED
    BY <2>1, <2>2 DEF SendsTyped, NewReturn
<1>7. GoodsTyped'
  BY <1>2, <1>3, <1>5, <1>6 DEF GoodsTyped, PurchasingTypeOK, Stocked, Typed
<1> QED
  BY <1>2, <1>4, <1>7 DEF Kept

LEMMA AlwaysKept == Spec => []Kept
BY InitKept, StepKept, PTL DEF Spec

(* However the desk and the stockroom interleave, every account, book,     *)
(* document, purchase order, return and payment to a supplier is well      *)
(* formed: no count of goods and no sum of money falls below nothing.      *)
THEOREM TypeCorrect == Spec => []TypeOK
<1>1. Kept => TypeOK
  BY DEF Kept, GoodsTyped, Typed, TypeOK
<1> QED
  BY <1>1, AlwaysKept, PTL

(* A supplier's account adds up: an order's paid total is its payments,    *)
(* its credit the cost of what its returns sent back, its badge what the   *)
(* two make of it; nothing is sent back that did not come, and what came   *)
(* is on the shelf, sold, or went back off it (receive, purchaseReturn,    *)
(* sendDamaged, supplier payments' create).                                *)
THEOREM AccountsAlwaysAddUp == Spec => []SupplierAccountsAddUp
<1>1. Kept => SupplierAccountsAddUp
  BY AccountsAddUp DEF Kept
<1> QED
  BY <1>1, AlwaysKept, PTL

(* No payment takes an order past what it comes to after the goods sent    *)
(* back: what is outstanding is asked under the order's row lock, and only *)
(* a payment raises what is paid.                                          *)
THEOREM NothingOverpaid == Spec => PaidWithinOwed
<1> DEFINE Fine == \A p \in Purchase :
                     purchase'[p].paid > purchase[p].paid =>
                       purchase'[p].paid + purchase'[p].credited <= GrandTotal[p]
<1>1. Kept /\ [Next]_vars => [Fine]_vars
  <2> SUFFICES ASSUME Kept, [Next]_vars PROVE Fine
    OBVIOUS
  <2>1. Typed /\ GoodsTyped /\ RowsAdd
    BY DEF Kept, Accounts
  <2>2. Effect
    BY <2>1, StepEffect
  <2>3. \A q \in Purchase : purchase[q].paid \in Nat
    BY <2>1, OneRow
  <2>4. ASSUME UNCHANGED purchase PROVE Fine
    BY <2>3, <2>4
  <2>5. ASSUME NEW p, NEW y, Writes(p, y),
               y.paid = purchase[p].paid \/ y.paid + y.credited <= GrandTotal[p]
        PROVE  Fine
    <3>1. \A q \in Purchase : purchase'[q] = IF q = p THEN y ELSE purchase[q]
      BY <2>1, <2>5, RowWritten
    <3> QED
      BY <2>3, <2>5, <3>1
  <2> HIDE DEF Fine
  <2> QED
    BY <2>2, <2>4, <2>5 DEF Effect, Still, Noted, Delivered, SentOff, PaidOff, InAdvance
<1> QED
  BY <1>1, AlwaysKept, PTL DEF Spec, PaidWithinOwed
=============================================================================
