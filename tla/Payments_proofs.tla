-------------------------- MODULE Payments_proofs --------------------------
(***************************************************************************)
(* Proofs about Payments, for any finite set of payments and any clients,  *)
(* events, keys, total and bounds.                                         *)
(*                                                                         *)
(* The rows and the money change in four ways (Captures, Refunds, Fails,   *)
(* Restates); what the waiting transactions may rely on meanwhile is       *)
(* HooksInv and ReceiptsInv.  On top of these, AnswersInv says what an     *)
(* event that has its answer has left of the payment it is about.          *)
(***************************************************************************)
EXTENDS Payments, Sums

(* Transactions that have the event's row, and those that have the order's *)
(* on the way to the payment's.                                            *)
Settling(c) == Hooking(c, {"payment", "order"})
AtOrder(c) == Hooking(c, {"order"})
Receiving(c) == tx[c] # Idle /\ tx[c].kind = "receive"

Taken(p) == payment[p].status \in CAPTURED_STATES

(* Checkout's payment waits for the provider.                              *)
Waits == payment[First].status = "PENDING" /\ payment[First].method = "ONLINE"

(* Only checkout's payment ever waits, or fails.                           *)
RowsInv ==
  /\ payment[First].status # "NONE"
  /\ \A p \in Payment \ {First} : payment[p].status = "NONE" \/ Taken(p)

(* A webhook past its event's row: the event is not settled, nobody else   *)
(* has it, and the payment it is about is checkout's, not captured and     *)
(* nobody else's once its row is locked.                                   *)
HooksInv ==
  /\ \A c \in Client : Hooking(c, {"event"}) => tx[c].payment \in {First, NoPayment}
  /\ \A c \in Client :
       Settling(c) => tx[c].payment = First /\ result[tx[c].event] = "UNSEEN"
  /\ \A c, d \in Client :
       Settling(c) /\ Settling(d) /\ tx[c].event = tx[d].event => c = d
  /\ \A c \in Client : AtOrder(c) => ~Taken(First)
  /\ \A c, d \in Client : AtOrder(c) /\ AtOrder(d) => c = d
  /\ \A e \in Event : result[e] = "captured" => Taken(First)

(* A receipt that waits holds the order: what it asked under that lock is  *)
(* so still.                                                               *)
ReceiptsInv ==
  /\ \A c, d \in Client : Receiving(c) /\ Receiving(d) => c = d
  /\ \A c \in Client :
       Receiving(c) => /\ tx[c].amount <= GrandTotal - order.paid
                       /\ ~PaymentKeyed(tx[c].key)

(* The money: totals, book and postings.  The book has entries of captured *)
(* payments and of refunds that are there, and of no other; only checkout's*)
(* payment can come on top of an order paid already, so twice the total is *)
(* the most.                                                               *)
MoneyInv ==
  /\ RefundsWithinPaid
  /\ BookAgrees
  /\ \A p \in Payment : <<"payment", p>> \in posted => Taken(p)
  /\ \A i \in Nat : <<"refund", i>> \in posted => i <= Len(refunds)
  /\ order.paid <= IF Taken(First) THEN 2 * GrandTotal ELSE GrandTotal
  /\ Len(refunds) <= MaxRefunds

(* The invariant, in the half about the money and the half about the       *)
(* requests under way.                                                     *)
MoneyType ==
  /\ order \in [status : Status, paid : Nat, refunded : Nat]
  /\ payment \in [Payment -> PaymentRow]
  /\ refunds \in Seq(RefundRow)
  /\ balance \in Int
  /\ posted \subseteq {"payment", "refund"} \X (Payment \cup 1 .. MaxRefunds)

AskedType ==
  /\ kind \in [Event -> {"capture", "failure", "mismatch"}]
  /\ result \in [Event -> {"UNSEEN", "ignored", "amount_mismatch", "captured",
                           "failed"}]
  /\ tx \in [Client -> Hooks \cup Receives \cup {Idle}]
  /\ cancelling \in BOOLEAN

MoneyOK == MoneyType /\ RowsInv /\ MoneyInv /\ KeyedOnce
AskedOK == AskedType /\ HooksInv /\ ReceiptsInv
Inv == MoneyOK /\ AskedOK

LEMMA InvType == Inv => TypeOK
BY DEF Inv, MoneyOK, AskedOK, MoneyType, AskedType, TypeOK

-----------------------------------------------------------------------------
(* The two sums.                                                           *)

PaymentTable == [Payment -> PaymentRow]

CapturedOf(pay) == {p \in Payment : pay[p].status \in CAPTURED_STATES}

AmountOf(pay) == [p \in Payment |-> pay[p].amount]

LEMMA CapturedSumIs ==
  ASSUME NEW pay
  PROVE  CapturedSum(pay) = SumFunctionOnSet(AmountOf(pay), CapturedOf(pay))
BY DEF CapturedSum, AmountOf, CapturedOf

LEMMA CapturedFinite ==
  ASSUME NEW pay \in PaymentTable
  PROVE  /\ IsFiniteSet(CapturedOf(pay))
         /\ \A p \in CapturedOf(pay) : AmountOf(pay)[p] = pay[p].amount
         /\ \A p \in Payment : AmountOf(pay)[p] \in Nat
<1>1. CapturedOf(pay) \in SUBSET Payment
  BY DEF CapturedOf
<1>2. IsFiniteSet(CapturedOf(pay))
  BY <1>1, FS_Subset, PaymentsAssumption
<1> QED
  BY <1>1, <1>2, PaymentsAssumption DEF PaymentTable, PaymentRow, AmountOf

LEMMA CapturedNat ==
  ASSUME NEW pay \in PaymentTable
  PROVE  CapturedSum(pay) \in Nat
<1>1. \A p \in CapturedOf(pay) : AmountOf(pay)[p] \in Nat
  BY CapturedFinite DEF CapturedOf
<1> QED
  BY <1>1, CapturedFinite, SumNat, CapturedSumIs

(* Rows with the same amounts and the same captured ones add up the same.  *)
LEMMA CapturedSame ==
  ASSUME NEW pay \in PaymentTable, NEW new \in PaymentTable,
         CapturedOf(new) = CapturedOf(pay),
         \A p \in CapturedOf(pay) : new[p].amount = pay[p].amount
  PROVE  CapturedSum(new) = CapturedSum(pay)
<1>1. \A p \in CapturedOf(pay) : AmountOf(new)[p] = AmountOf(pay)[p]
  BY CapturedFinite
<1> QED
  BY <1>1, CapturedFinite, SumSame, CapturedSumIs

(* A row captured adds its amount.                                         *)
LEMMA CapturedMore ==
  ASSUME NEW pay \in PaymentTable, NEW p \in Payment, p \notin CapturedOf(pay),
         NEW row \in PaymentRow, row.status \in CAPTURED_STATES
  PROVE  CapturedSum([pay EXCEPT ![p] = row]) = CapturedSum(pay) + row.amount
<1> DEFINE new == [pay EXCEPT ![p] = row]
<1>1. new \in PaymentTable /\ new[p] = row /\ \A q \in Payment : q # p => new[q] = pay[q]
  BY DEF PaymentTable
<1> HIDE DEF new
<1>2. CapturedOf(new) = CapturedOf(pay) \cup {p}
  BY <1>1 DEF CapturedOf
<1>3. \A q \in CapturedOf(pay) \cup {p} : AmountOf(new)[q] \in Int
  <2>1. \A q \in Payment : AmountOf(new)[q] \in Nat
    BY <1>1, CapturedFinite
  <2> QED
    BY <2>1 DEF CapturedOf
<1>4. IsFiniteSet(CapturedOf(pay))
  BY CapturedFinite
<1>5. SumFunctionOnSet(AmountOf(new), CapturedOf(pay) \cup {p})
        = SumFunctionOnSet(AmountOf(new), CapturedOf(pay)) + AmountOf(new)[p]
  BY <1>3, <1>4, SumAdd
<1>6. \A q \in CapturedOf(pay) : AmountOf(new)[q] = AmountOf(pay)[q]
  BY <1>1 DEF CapturedOf, AmountOf
<1>7. SumFunctionOnSet(AmountOf(new), CapturedOf(pay))
        = SumFunctionOnSet(AmountOf(pay), CapturedOf(pay))
  BY <1>4, <1>6, SumSame
<1>8. AmountOf(new)[p] = row.amount
  BY <1>1 DEF AmountOf
<1>9. CapturedSum(new) = CapturedSum(pay) + row.amount
  BY <1>2, <1>5, <1>7, <1>8, CapturedSumIs
<1> QED
  BY <1>9 DEF new

RefundAmounts(list) == [i \in DOMAIN list |-> list[i].amount]

LEMMA RefundedSumIs ==
  ASSUME NEW list \in Seq(RefundRow)
  PROVE  /\ RefundedSum(list) = SumFunctionOnSet(RefundAmounts(list), 1 .. Len(list))
         /\ IsFiniteSet(1 .. Len(list))
         /\ \A i \in 1 .. Len(list) :
              RefundAmounts(list)[i] = list[i].amount /\ list[i].amount \in Nat
<1>1. DOMAIN list = 1 .. Len(list) /\ Len(list) \in Nat
  OBVIOUS
<1>2. DOMAIN RefundAmounts(list) = 1 .. Len(list)
  BY <1>1 DEF RefundAmounts
<1>3. RefundedSum(list) = SumFunctionOnSet(RefundAmounts(list), 1 .. Len(list))
  BY <1>2 DEF RefundedSum, SumFunction, RefundAmounts
<1>4. IsFiniteSet(1 .. Len(list))
  BY <1>1, FS_Interval
<1>5. \A i \in 1 .. Len(list) : list[i] \in RefundRow
  BY <1>1
<1> QED
  BY <1>1, <1>3, <1>4, <1>5, PaymentsAssumption DEF RefundRow, RefundAmounts

LEMMA RefundedNat ==
  ASSUME NEW list \in Seq(RefundRow)
  PROVE  RefundedSum(list) \in Nat
<1>1. \A i \in 1 .. Len(list) : RefundAmounts(list)[i] \in Nat
  BY RefundedSumIs
<1> QED
  BY <1>1, RefundedSumIs, SumNat

(* A refund more adds its amount.                                          *)
LEMMA RefundedMore ==
  ASSUME NEW list \in Seq(RefundRow), NEW r \in RefundRow
  PROVE  RefundedSum(Append(list, r)) = RefundedSum(list) + r.amount
<1> DEFINE new == Append(list, r)
           n == Len(list)
<1>1. /\ new \in Seq(RefundRow) /\ Len(new) = n + 1 /\ n \in Nat
      /\ new[n + 1] = r /\ \A i \in 1 .. n : new[i] = list[i]
  OBVIOUS
<1> HIDE DEF new, n
<1>2. 1 .. (n + 1) = (1 .. n) \cup {n + 1} /\ n + 1 \notin 1 .. n
  BY <1>1
<1>3. \A i \in 1 .. (n + 1) : RefundAmounts(new)[i] = new[i].amount /\ new[i].amount \in Nat
  BY <1>1, RefundedSumIs
<1>4. \A i \in (1 .. n) \cup {n + 1} : RefundAmounts(new)[i] \in Int
  BY <1>2, <1>3
<1>5. IsFiniteSet(1 .. n)
  BY RefundedSumIs DEF n
<1>6. SumFunctionOnSet(RefundAmounts(new), (1 .. n) \cup {n + 1})
        = SumFunctionOnSet(RefundAmounts(new), 1 .. n) + RefundAmounts(new)[n + 1]
  <2> DEFINE D == 1 .. n
             m == n + 1
  <2>1. m \notin D /\ IsFiniteSet(D) /\ \A i \in D \cup {m} : RefundAmounts(new)[i] \in Int
    BY <1>2, <1>4, <1>5
  <2> HIDE DEF D, m
  <2>2. SumFunctionOnSet(RefundAmounts(new), D \cup {m})
          = SumFunctionOnSet(RefundAmounts(new), D) + RefundAmounts(new)[m]
    BY <2>1, SumAdd
  <2> QED
    BY <2>2 DEF D, m
<1>7. \A i \in 1 .. n : RefundAmounts(new)[i] = RefundAmounts(list)[i]
  <2>1. \A i \in 1 .. n : RefundAmounts(list)[i] = list[i].amount
    BY RefundedSumIs DEF n
  <2>2. \A i \in 1 .. n : i \in 1 .. (n + 1)
    BY <1>1
  <2> QED
    BY <1>1, <1>3, <2>1, <2>2
<1>8. SumFunctionOnSet(RefundAmounts(new), 1 .. n)
        = SumFunctionOnSet(RefundAmounts(list), 1 .. n)
  BY <1>5, <1>7, SumSame
<1>9. RefundAmounts(new)[n + 1] = r.amount
  BY <1>1, <1>3
<1>10. RefundedSum(new) = SumFunctionOnSet(RefundAmounts(new), 1 .. (n + 1))
  BY <1>1, RefundedSumIs
<1>11. RefundedSum(list) = SumFunctionOnSet(RefundAmounts(list), 1 .. n)
  BY RefundedSumIs DEF n
<1>12. RefundedSum(new) = RefundedSum(list) + r.amount
  BY <1>2, <1>6, <1>8, <1>9, <1>10, <1>11
<1> QED
  BY <1>12 DEF new

-----------------------------------------------------------------------------
(* The book.                                                               *)

PaidIn(pay, entries) == {p \in CapturedOf(pay) : <<"payment", p>> \in entries}

PaidBack(list, entries) == {i \in 1 .. Len(list) : <<"refund", i>> \in entries}

BookSum(pay, list, entries) ==
  SumFunctionOnSet(AmountOf(pay), PaidIn(pay, entries))
  - SumFunctionOnSet(RefundAmounts(list), PaidBack(list, entries))

LEMMA BookIs ==
  ASSUME NEW pay, NEW list \in Seq(RefundRow), NEW entries
  PROVE  SumFunctionOnSet([p \in Payment |-> pay[p].amount],
                          {p \in Payment : /\ <<"payment", p>> \in entries
                                           /\ pay[p].status \in CAPTURED_STATES})
         - SumFunctionOnSet([i \in DOMAIN list |-> list[i].amount],
                            {i \in DOMAIN list : <<"refund", i>> \in entries})
           = BookSum(pay, list, entries)
<1>1. {p \in Payment : /\ <<"payment", p>> \in entries
                       /\ pay[p].status \in CAPTURED_STATES} = PaidIn(pay, entries)
  BY DEF PaidIn, CapturedOf
<1>2. {i \in DOMAIN list : <<"refund", i>> \in entries} = PaidBack(list, entries)
  BY DEF PaidBack
<1> QED
  BY <1>1, <1>2 DEF BookSum, AmountOf, RefundAmounts

LEMMA BookParts ==
  ASSUME NEW pay \in PaymentTable, NEW list \in Seq(RefundRow), NEW entries
  PROVE  /\ IsFiniteSet(PaidIn(pay, entries)) /\ IsFiniteSet(PaidBack(list, entries))
         /\ \A p \in PaidIn(pay, entries) : AmountOf(pay)[p] \in Nat
         /\ \A i \in PaidBack(list, entries) : RefundAmounts(list)[i] \in Nat
         /\ SumFunctionOnSet(AmountOf(pay), PaidIn(pay, entries)) \in Nat
         /\ SumFunctionOnSet(RefundAmounts(list), PaidBack(list, entries)) \in Nat
<1>1. IsFiniteSet(PaidIn(pay, entries)) /\ IsFiniteSet(PaidBack(list, entries))
  <2>1. PaidIn(pay, entries) \in SUBSET CapturedOf(pay)
    BY DEF PaidIn
  <2>2. PaidBack(list, entries) \in SUBSET (1 .. Len(list))
    BY DEF PaidBack
  <2> QED
    BY <2>1, <2>2, CapturedFinite, RefundedSumIs, FS_Subset
<1>2. \A p \in PaidIn(pay, entries) : AmountOf(pay)[p] \in Nat
  BY CapturedFinite DEF PaidIn, CapturedOf
<1>3. \A i \in PaidBack(list, entries) : RefundAmounts(list)[i] \in Nat
  BY RefundedSumIs DEF PaidBack
<1> QED
  BY <1>1, <1>2, <1>3, SumNat

(* Rows with the same amounts and the same captured ones book the same.    *)
LEMMA BookSame ==
  ASSUME NEW pay \in PaymentTable, NEW new \in PaymentTable,
         NEW list \in Seq(RefundRow), NEW entries,
         PaidIn(new, entries) = PaidIn(pay, entries),
         \A p \in PaidIn(pay, entries) : new[p].amount = pay[p].amount
  PROVE  BookSum(new, list, entries) = BookSum(pay, list, entries)
<1>1. \A p \in PaidIn(pay, entries) : AmountOf(new)[p] = AmountOf(pay)[p]
  BY DEF AmountOf, PaidIn, CapturedOf
<1>2. SumFunctionOnSet(AmountOf(new), PaidIn(pay, entries))
        = SumFunctionOnSet(AmountOf(pay), PaidIn(pay, entries))
  BY <1>1, BookParts, SumSame
<1> QED
  BY <1>2 DEF BookSum

(* Two tables that differ in one row at most.                              *)
OthersSame(pay, new, p) == \A q \in Payment : q # p => new[q] = pay[q]

(* A row captured adds its amount with its entry, and nothing without.     *)
LEMMA BookCaptured ==
  ASSUME NEW pay \in PaymentTable, NEW new \in PaymentTable,
         NEW list \in Seq(RefundRow), NEW entries, NEW p \in Payment,
         <<"payment", p>> \notin entries, new[p].status = "CAPTURED",
         OthersSame(pay, new, p)
  PROVE  /\ BookSum(new, list, entries) = BookSum(pay, list, entries)
         /\ BookSum(new, list, entries \cup {<<"payment", p>>})
              = BookSum(pay, list, entries) + new[p].amount
<1>1. /\ PaidIn(new, entries) = PaidIn(pay, entries)
      /\ PaidIn(new, entries \cup {<<"payment", p>>}) = PaidIn(pay, entries) \cup {p}
      /\ p \notin PaidIn(pay, entries)
      /\ \A q \in PaidIn(pay, entries) : q \in Payment /\ q # p
  BY DEF PaidIn, CapturedOf, CAPTURED_STATES, OthersSame
<1>2. \A q \in PaidIn(pay, entries) : new[q].amount = pay[q].amount
  BY <1>1 DEF OthersSame
<1>3. BookSum(new, list, entries) = BookSum(pay, list, entries)
  BY <1>1, <1>2, BookSame
<1>4. PaidBack(list, entries \cup {<<"payment", p>>}) = PaidBack(list, entries)
  BY DEF PaidBack
<1>5. AmountOf(new)[p] = new[p].amount /\ AmountOf(new)[p] \in Int
  BY CapturedFinite DEF AmountOf
<1>6. \A q \in PaidIn(pay, entries) :
        AmountOf(pay)[q] = AmountOf(new)[q] /\ AmountOf(pay)[q] \in Int
  <2>1. \A q \in PaidIn(pay, entries) : AmountOf(pay)[q] = AmountOf(new)[q]
    BY <1>1, <1>2 DEF AmountOf
  <2> QED
    BY <2>1, BookParts
<1>7. SumFunctionOnSet(AmountOf(new), PaidIn(pay, entries) \cup {p})
        = SumFunctionOnSet(AmountOf(pay), PaidIn(pay, entries)) + AmountOf(new)[p]
  <2> DEFINE S == PaidIn(pay, entries)
             f == AmountOf(pay)
             g == AmountOf(new)
  <2>1. /\ IsFiniteSet(S) /\ p \notin S /\ g[p] \in Int
        /\ \A q \in S : f[q] = g[q] /\ f[q] \in Int
    BY <1>1, <1>5, <1>6, BookParts
  <2> HIDE DEF S, f, g
  <2>2. SumFunctionOnSet(g, S \cup {p}) = SumFunctionOnSet(f, S) + g[p]
    BY <2>1, SumMore
  <2> QED
    BY <2>2 DEF S, f, g
<1>8. /\ SumFunctionOnSet(AmountOf(pay), PaidIn(pay, entries)) \in Nat
      /\ SumFunctionOnSet(RefundAmounts(list), PaidBack(list, entries)) \in Nat
  BY BookParts
<1>9. BookSum(new, list, entries \cup {<<"payment", p>>})
        = BookSum(pay, list, entries) + new[p].amount
  <2> DEFINE a == SumFunctionOnSet(AmountOf(pay), PaidIn(pay, entries))
             b == SumFunctionOnSet(RefundAmounts(list), PaidBack(list, entries))
  <2>1. BookSum(pay, list, entries) = a - b /\ a \in Nat /\ b \in Nat
    BY <1>8 DEF BookSum
  <2>2. BookSum(new, list, entries \cup {<<"payment", p>>}) = (a + new[p].amount) - b
    BY <1>1, <1>4, <1>5, <1>7 DEF BookSum
  <2>3. new[p].amount \in Int
    BY <1>5
  <2> HIDE DEF a, b
  <2> QED
    BY <2>1, <2>2, <2>3
<1> QED
  BY <1>3, <1>9

(* A refund more takes its amount off with its entry, and nothing without. *)
LEMMA BookRefunded ==
  ASSUME NEW pay \in PaymentTable, NEW list \in Seq(RefundRow), NEW r \in RefundRow,
         NEW entries, \A i \in Nat : <<"refund", i>> \in entries => i <= Len(list)
  PROVE  /\ BookSum(pay, Append(list, r), entries) = BookSum(pay, list, entries)
         /\ BookSum(pay, Append(list, r), entries \cup {<<"refund", Len(list) + 1>>})
              = BookSum(pay, list, entries) - r.amount
<1> DEFINE new == Append(list, r)
           n == Len(list) + 1
<1>1. /\ new \in Seq(RefundRow) /\ Len(new) = n /\ n \in Nat /\ Len(list) \in Nat
      /\ new[n] = r /\ \A i \in 1 .. Len(list) : new[i] = list[i]
  OBVIOUS
<1>2. 1 .. n = (1 .. Len(list)) \cup {n} /\ n \notin 1 .. Len(list)
  BY <1>1
<1>3. <<"refund", n>> \notin entries
  BY <1>1
<1> HIDE DEF new, n
<1>4. /\ PaidBack(new, entries) = PaidBack(list, entries)
      /\ PaidBack(new, entries \cup {<<"refund", n>>}) = PaidBack(list, entries) \cup {n}
      /\ n \notin PaidBack(list, entries)
  BY <1>1, <1>2, <1>3 DEF PaidBack
<1>5. PaidIn(pay, entries \cup {<<"refund", n>>}) = PaidIn(pay, entries)
  BY DEF PaidIn
<1>6. \A i \in 1 .. n : RefundAmounts(new)[i] = new[i].amount /\ new[i].amount \in Nat
  BY <1>1, RefundedSumIs
<1>7. \A i \in PaidBack(list, entries) :
        RefundAmounts(list)[i] = RefundAmounts(new)[i] /\ RefundAmounts(list)[i] \in Int
  <2> SUFFICES ASSUME NEW i \in PaidBack(list, entries)
               PROVE  RefundAmounts(list)[i] = RefundAmounts(new)[i]
                      /\ RefundAmounts(list)[i] \in Int
    OBVIOUS
  <2>1. i \in 1 .. Len(list) /\ i \in 1 .. n
    BY <1>2 DEF PaidBack
  <2>2. RefundAmounts(list)[i] = list[i].amount /\ list[i].amount \in Nat
    BY <2>1, RefundedSumIs
  <2> QED
    BY <1>1, <1>6, <2>1, <2>2
<1>8. RefundAmounts(new)[n] = r.amount /\ r.amount \in Nat
  <2>1. n \in 1 .. n
    BY <1>2
  <2> QED
    BY <1>1, <1>6, <2>1
<1>9. SumFunctionOnSet(RefundAmounts(new), PaidBack(list, entries))
        = SumFunctionOnSet(RefundAmounts(list), PaidBack(list, entries))
  BY <1>7, BookParts, SumSame
<1>10. SumFunctionOnSet(RefundAmounts(new), PaidBack(list, entries) \cup {n})
         = SumFunctionOnSet(RefundAmounts(list), PaidBack(list, entries)) + r.amount
  <2>1. RefundAmounts(new)[n] \in Int
    BY <1>8
  <2>2. SumFunctionOnSet(RefundAmounts(new), PaidBack(list, entries) \cup {n})
          = SumFunctionOnSet(RefundAmounts(list), PaidBack(list, entries))
            + RefundAmounts(new)[n]
    BY <1>4, <1>7, <2>1, BookParts, SumMore
  <2> QED
    BY <1>8, <2>2
<1>11. /\ SumFunctionOnSet(AmountOf(pay), PaidIn(pay, entries)) \in Nat
       /\ SumFunctionOnSet(RefundAmounts(list), PaidBack(list, entries)) \in Nat
  BY BookParts
<1>12. BookSum(pay, new, entries) = BookSum(pay, list, entries)
  BY <1>4, <1>9 DEF BookSum
<1>13. BookSum(pay, new, entries \cup {<<"refund", n>>}) = BookSum(pay, list, entries) - r.amount
  <2> DEFINE a == SumFunctionOnSet(AmountOf(pay), PaidIn(pay, entries))
             b == SumFunctionOnSet(RefundAmounts(list), PaidBack(list, entries))
  <2>1. BookSum(pay, list, entries) = a - b /\ a \in Nat /\ b \in Nat
    BY <1>11 DEF BookSum
  <2>2. BookSum(pay, new, entries \cup {<<"refund", n>>}) = a - (b + r.amount)
    BY <1>4, <1>5, <1>10 DEF BookSum
  <2>3. r.amount \in Nat
    BY <1>8
  <2> HIDE DEF a, b
  <2> QED
    BY <2>1, <2>2, <2>3
<1> QED
  BY <1>12, <1>13 DEF new, n

-----------------------------------------------------------------------------
(* What a step does to the money.                                          *)

(* Money captured in row `row` of p, as much as the order still owed unless*)
(* it is checkout's payment, with a key nobody used or the one it had.     *)
Capturing(p, row) ==
  /\ p \in Payment /\ ~Taken(p)
  /\ row \in PaymentRow /\ row.status = "CAPTURED"
  /\ row.key = payment[p].key \/ ~PaymentKeyed(row.key)
  /\ p = First \/ row.amount <= GrandTotal - order.paid
  /\ Capture(p, [payment EXCEPT ![p] = row])

Refunding(amount, key, status) ==
  /\ amount \in Nat \ {0} /\ key \in Key \cup {NoKey} /\ status \in Status
  /\ amount <= order.paid - order.refunded
  /\ key = NoKey \/ \A i \in DOMAIN refunds : refunds[i].key # key
  /\ Len(refunds) < MaxRefunds
  /\ \E sameWay \in BOOLEAN : Refund(amount, key, status, sameWay)

Failing ==
  /\ ~Taken(First)
  /\ payment' = [payment EXCEPT ![First].status = "FAILED"]
  /\ UNCHANGED <<order, refunds, balance, posted>>

Restating ==
  /\ order' \in [status : Status, paid : {order.paid}, refunded : {order.refunded}]
  /\ UNCHANGED <<payment, refunds, balance, posted>>

Kept ==
  /\ \A p \in Payment : Taken(p) => Taken(p)'
  /\ Waits' => Waits

LEMMA CapturingKeeps ==
  ASSUME MoneyOK, NEW p, NEW row, Capturing(p, row)
  PROVE  /\ MoneyOK' /\ Kept
         /\ Taken(First)' = (Taken(First) \/ p = First)
<1> USE DEF CAPTURED_STATES
<1> DEFINE pay == [payment EXCEPT ![p] = row]
<1>1. /\ p \in Payment /\ ~Taken(p) /\ row \in PaymentRow /\ row.status = "CAPTURED"
      /\ payment \in PaymentTable /\ First \in Payment
      /\ GrandTotal \in Nat
  BY PaymentsAssumption DEF Capturing, MoneyOK, MoneyType, PaymentTable
<1>2. /\ pay \in PaymentTable /\ pay[p] = row
      /\ \A q \in Payment : q # p => pay[q] = payment[q]
  BY <1>1 DEF PaymentTable
<1>3. /\ payment' = pay
      /\ order' = Refreshed(order.status, pay, refunds)
      /\ refunds' = refunds
      /\ \/ Post(<<"payment", p>>, pay[p].amount)
         \/ UNCHANGED <<balance, posted>>
  BY DEF Capturing, Capture
<1>4. CapturedSum(pay) = CapturedSum(payment) + row.amount
  BY <1>1, CapturedMore DEF CapturedOf, Taken
<1> HIDE DEF pay
<1>5. /\ order.paid = CapturedSum(payment) /\ order.refunded = RefundedSum(refunds)
      /\ order.refunded <= order.paid
      /\ order.paid \in Nat /\ order.refunded \in Nat /\ order.status \in Status
      /\ row.amount \in 0 .. GrandTotal
      /\ <<"payment", p>> \notin posted
      /\ order.paid <= IF Taken(First) THEN 2 * GrandTotal ELSE GrandTotal
  BY <1>1 DEF MoneyOK, MoneyInv, MoneyType, RefundsWithinPaid, PaymentRow
<1>6. order' = [status |-> order.status, paid |-> order.paid + row.amount,
                refunded |-> order.refunded]
  BY <1>2, <1>3, <1>4, <1>5 DEF Refreshed
<1>7. \/ posted' = posted \cup {<<"payment", p>>} /\ balance' = balance + row.amount
      \/ posted' = posted /\ balance' = balance
  BY <1>2, <1>3, <1>5 DEF Post
<1>8. /\ \A q \in Payment : Taken(q)' = (Taken(q) \/ q = p)
      /\ Kept
  <2>1. \A q \in Payment : Taken(q)' = (Taken(q) \/ q = p)
    BY <1>1, <1>2, <1>3 DEF Taken
  <2>2. Waits' => Waits
    BY <1>1, <1>2, <1>3 DEF Waits
  <2> QED
    BY <2>1, <2>2 DEF Kept
<1>9. MoneyType'
  <2>1. order' \in [status : Status, paid : Nat, refunded : Nat]
    BY <1>1, <1>5, <1>6
  <2>2. balance' \in Int
    BY <1>5, <1>7 DEF MoneyOK, MoneyType
  <2>3. posted' \subseteq {"payment", "refund"} \X (Payment \cup 1 .. MaxRefunds)
    BY <1>1, <1>7 DEF MoneyOK, MoneyType
  <2>4. payment' \in [Payment -> PaymentRow]
    BY <1>2, <1>3 DEF PaymentTable
  <2> QED
    BY <1>3, <2>1, <2>2, <2>3, <2>4 DEF MoneyOK, MoneyType
<1>10. RowsInv'
  BY <1>1, <1>2, <1>3, <1>8 DEF RowsInv, MoneyOK
<1>11. MoneyInv'
  <2>1. RefundsWithinPaid'
    BY <1>1, <1>3, <1>4, <1>5, <1>6 DEF RefundsWithinPaid
  <2>2. \A q \in Payment : <<"payment", q>> \in posted' => Taken(q)'
    <3>1. \A q \in Payment : <<"payment", q>> \in posted' => <<"payment", q>> \in posted \/ q = p
      BY <1>7
    <3>2. \A q \in Payment : <<"payment", q>> \in posted => Taken(q)
      BY DEF MoneyOK, MoneyInv
    <3> QED
      BY <1>8, <3>1, <3>2
  <2>3. \A i \in Nat : <<"refund", i>> \in posted' => i <= Len(refunds')
    BY <1>3, <1>7 DEF MoneyOK, MoneyInv
  <2>4. BookAgrees'
    <3>1. refunds \in Seq(RefundRow) /\ balance = BookSum(payment, refunds, posted)
      BY BookIs DEF MoneyOK, MoneyInv, MoneyType, BookAgrees, PostedPayments, PostedRefunds
    <3>2. /\ BookSum(pay, refunds, posted) = BookSum(payment, refunds, posted)
          /\ BookSum(pay, refunds, posted \cup {<<"payment", p>>})
               = BookSum(payment, refunds, posted) + row.amount
      <4>1. /\ <<"payment", p>> \notin posted /\ pay[p].status = "CAPTURED"
            /\ pay[p].amount = row.amount
            /\ OthersSame(payment, pay, p)
        BY <1>1, <1>2, <1>5 DEF OthersSame
      <4>2. payment \in PaymentTable /\ pay \in PaymentTable /\ p \in Payment
            /\ refunds \in Seq(RefundRow)
        BY <1>1, <1>2, <3>1
      <4>3. /\ BookSum(pay, refunds, posted) = BookSum(payment, refunds, posted)
            /\ BookSum(pay, refunds, posted \cup {<<"payment", p>>})
                 = BookSum(payment, refunds, posted) + pay[p].amount
        BY <4>1, <4>2, BookCaptured
      <4> QED
        BY <4>1, <4>3
    <3>3. balance' = BookSum(payment', refunds', posted')
      BY <1>3, <1>7, <3>1, <3>2
    <3> QED
      BY <1>9, <3>3, BookIs DEF MoneyType, BookAgrees, PostedPayments, PostedRefunds
  <2>5. order'.paid <= IF Taken(First)' THEN 2 * GrandTotal ELSE GrandTotal
    <3>1. order'.paid = order.paid + row.amount
      BY <1>6
    <3>2. CASE p = First
      <4>1. ~Taken(First) /\ Taken(First)'
        BY <1>1, <1>8, <3>2
      <4> QED
        BY <1>1, <1>5, <3>1, <4>1
    <3>3. CASE p # First
      <4>1. row.amount <= GrandTotal - order.paid
        BY <3>3 DEF Capturing
      <4> QED
        BY <1>1, <1>5, <1>8, <3>1, <4>1
    <3> QED
      BY <3>2, <3>3
  <2> QED
    BY <1>3, <2>1, <2>2, <2>3, <2>4, <2>5 DEF MoneyInv, MoneyOK
<1>12. KeyedOnce'
  <2>1. KeyedOnce /\ (row.key = payment[p].key \/ ~PaymentKeyed(row.key))
    BY DEF MoneyOK, Capturing
  <2> QED
    BY <1>1, <1>2, <1>3, <2>1 DEF KeyedOnce, PaymentKeyed
<1> QED
  BY <1>1, <1>8, <1>9, <1>10, <1>11, <1>12 DEF MoneyOK

LEMMA RefundingKeeps ==
  ASSUME MoneyOK, NEW amount, NEW key, NEW status, Refunding(amount, key, status)
  PROVE  /\ MoneyOK' /\ Kept /\ order'.paid = order.paid
         /\ \A q \in Payment : Taken(q)' = Taken(q) /\ payment'[q].key = payment[q].key
<1> USE DEF CAPTURED_STATES
<1>1. /\ amount \in Nat \ {0} /\ key \in Key \cup {NoKey} /\ status \in Status
      /\ amount <= order.paid - order.refunded
      /\ payment \in PaymentTable /\ refunds \in Seq(RefundRow)
      /\ GrandTotal \in Nat /\ MaxRefunds \in Nat /\ First \in Payment
  BY PaymentsAssumption DEF Refunding, MoneyOK, MoneyType, PaymentTable, RefundRow
<1>2. PICK p \in Sources :
        LET taken == payment[p].refunded + amount
            pay   == [payment EXCEPT
                        ![p].refunded = taken,
                        ![p].status = IF taken >= payment[p].amount
                                      THEN "REFUNDED" ELSE "PARTIALLY_REFUNDED"]
            list  == Append(refunds, [amount |-> amount, key |-> key])
        IN  /\ refunds' = list
            /\ payment' = pay
            /\ order' = Refreshed(status, pay, list)
            /\ \/ Post(<<"refund", Len(list)>>, -amount)
               \/ UNCHANGED <<balance, posted>>
  BY DEF Refunding, Refund
<1>3. p \in Payment /\ Taken(p) /\ payment[p] \in PaymentRow
  BY <1>1 DEF Sources, Taken, PaymentTable
<1>4. /\ payment' \in PaymentTable
      /\ \A q \in Payment : /\ Taken(q)' = Taken(q)
                            /\ payment'[q].key = payment[q].key
                            /\ payment'[q].amount = payment[q].amount
                            /\ payment'[q].method = payment[q].method
                            /\ ~Taken(q) => payment'[q].status = payment[q].status
  <2> DEFINE st == IF payment[p].refunded + amount >= payment[p].amount
                   THEN "REFUNDED" ELSE "PARTIALLY_REFUNDED"
             row == [payment[p] EXCEPT !.refunded = payment[p].refunded + amount,
                                       !.status = st]
  <2>1. payment' = [payment EXCEPT ![p] = row]
    BY <1>1, <1>2, <1>3 DEF PaymentTable
  <2>2. /\ row \in PaymentRow /\ row.status \in {"REFUNDED", "PARTIALLY_REFUNDED"}
        /\ row.key = payment[p].key /\ row.amount = payment[p].amount
        /\ row.method = payment[p].method
    <3>1. st \in {"REFUNDED", "PARTIALLY_REFUNDED"} /\ payment[p].refunded + amount \in Nat
      BY <1>1, <1>3 DEF PaymentRow
    <3> HIDE DEF st
    <3> QED
      BY <1>1, <1>3, <3>1 DEF PaymentRow
  <2> HIDE DEF row
  <2>3. /\ payment' \in PaymentTable /\ payment'[p] = row
        /\ \A q \in Payment : q # p => payment'[q] = payment[q]
    BY <1>1, <1>3, <2>1, <2>2 DEF PaymentTable
  <2> QED
    BY <1>3, <2>2, <2>3 DEF Taken
<1>5. /\ order.paid = CapturedSum(payment) /\ order.refunded = RefundedSum(refunds)
      /\ order.refunded <= order.paid
      /\ order.paid \in Nat /\ order.refunded \in Nat
      /\ order.paid <= IF Taken(First) THEN 2 * GrandTotal ELSE GrandTotal
      /\ Len(refunds) < MaxRefunds /\ Len(refunds) \in Nat
  BY <1>1 DEF MoneyOK, MoneyInv, MoneyType, RefundsWithinPaid, Refunding
<1>6. amount <= 2 * GrandTotal
  BY <1>1, <1>5
<1>7. [amount |-> amount, key |-> key] \in RefundRow
  BY <1>1, <1>6 DEF RefundRow
<1>8. CapturedSum(payment') = order.paid
  <2>1. CapturedOf(payment') = CapturedOf(payment)
    BY <1>4 DEF CapturedOf, Taken
  <2>2. \A q \in CapturedOf(payment) : payment'[q].amount = payment[q].amount
    BY <1>4 DEF CapturedOf
  <2> QED
    BY <1>1, <1>4, <1>5, <2>1, <2>2, CapturedSame
<1>9. RefundedSum(refunds') = order.refunded + amount
  <2>1. refunds' = Append(refunds, [amount |-> amount, key |-> key])
    BY <1>2
  <2> QED
    BY <1>1, <1>5, <1>7, <2>1, RefundedMore
<1>10. order' = [status |-> status, paid |-> order.paid, refunded |-> order.refunded + amount]
  BY <1>2, <1>8, <1>9 DEF Refreshed
<1>11. /\ refunds' \in Seq(RefundRow) /\ Len(refunds') = Len(refunds) + 1
       /\ DOMAIN refunds' = DOMAIN refunds \cup {Len(refunds) + 1}
       /\ \A i \in DOMAIN refunds : refunds'[i] = refunds[i]
       /\ refunds'[Len(refunds) + 1] = [amount |-> amount, key |-> key]
  BY <1>1, <1>2, <1>7
<1>12. \/ /\ balance' = balance - amount
          /\ posted' = posted \cup {<<"refund", Len(refunds) + 1>>}
       \/ balance' = balance /\ posted' = posted
  <2>1. \/ Post(<<"refund", Len(refunds')>>, -amount)
        \/ UNCHANGED <<balance, posted>>
    BY <1>2
  <2>2. Len(refunds') = Len(refunds) + 1 /\ Len(refunds) + 1 \in Nat
    BY <1>5, <1>11
  <2>3. <<"refund", Len(refunds')>> \notin posted
    BY <1>5, <2>2 DEF MoneyOK, MoneyInv
  <2>4. balance \in Int
    BY DEF MoneyOK, MoneyType
  <2> QED
    BY <1>1, <2>1, <2>2, <2>3, <2>4 DEF Post
<1>13. MoneyType'
  <2>1. order' \in [status : Status, paid : Nat, refunded : Nat]
    BY <1>1, <1>5, <1>10
  <2>2. balance' \in Int
    BY <1>1, <1>12 DEF MoneyOK, MoneyType
  <2>3. posted' \subseteq {"payment", "refund"} \X (Payment \cup 1 .. MaxRefunds)
    <3>1. Len(refunds) + 1 \in 1 .. MaxRefunds
      BY <1>1, <1>5, <1>11
    <3> QED
      BY <1>12, <3>1 DEF MoneyOK, MoneyType
  <2> QED
    BY <1>4, <1>11, <2>1, <2>2, <2>3 DEF MoneyType, PaymentTable, RefundRow
<1>14. RowsInv'
  BY <1>1, <1>4 DEF RowsInv, MoneyOK, Taken
<1>15. MoneyInv'
  <2>1. RefundsWithinPaid'
    BY <1>1, <1>5, <1>8, <1>9, <1>10 DEF RefundsWithinPaid
  <2>2. \A q \in Payment : <<"payment", q>> \in posted' => Taken(q)'
    BY <1>4, <1>12 DEF MoneyOK, MoneyInv
  <2>3. \A i \in Nat : <<"refund", i>> \in posted' => i <= Len(refunds')
    <3>1. \A i \in Nat : <<"refund", i>> \in posted => i <= Len(refunds)
      BY DEF MoneyOK, MoneyInv
    <3> QED
      BY <1>5, <1>11, <1>12, <3>1
  <2>4. BookAgrees'
    <3> DEFINE r == [amount |-> amount, key |-> key]
    <3>1. balance = BookSum(payment, refunds, posted)
      BY <1>1, BookIs DEF MoneyOK, MoneyInv, MoneyType, BookAgrees, PostedPayments, PostedRefunds
    <3>2. /\ refunds' = Append(refunds, r) /\ r \in RefundRow /\ r.amount = amount
          /\ \A i \in Nat : <<"refund", i>> \in posted => i <= Len(refunds)
      BY <1>2, <1>7 DEF MoneyOK, MoneyInv
    <3> HIDE DEF r
    <3>3. /\ BookSum(payment, refunds', posted) = BookSum(payment, refunds, posted)
          /\ BookSum(payment, refunds', posted \cup {<<"refund", Len(refunds) + 1>>})
               = BookSum(payment, refunds, posted) - amount
      BY <1>1, <3>2, BookRefunded
    <3>4. BookSum(payment', refunds', posted') = BookSum(payment, refunds', posted')
      <4>1. PaidIn(payment', posted') = PaidIn(payment, posted')
        BY <1>4 DEF PaidIn, CapturedOf, Taken
      <4>2. \A q \in PaidIn(payment, posted') : payment'[q].amount = payment[q].amount
        BY <1>4 DEF PaidIn, CapturedOf
      <4> QED
        BY <1>1, <1>4, <1>11, <4>1, <4>2, BookSame
    <3>5. balance' = BookSum(payment', refunds', posted')
      BY <1>12, <3>1, <3>3, <3>4
    <3> QED
      BY <1>11, <3>5, BookIs DEF BookAgrees, PostedPayments, PostedRefunds
  <2>5. Len(refunds') <= MaxRefunds
    BY <1>1, <1>5, <1>11
  <2> QED
    BY <1>1, <1>4, <1>5, <1>10, <2>1, <2>2, <2>3, <2>4, <2>5 DEF MoneyInv
<1>16. KeyedOnce'
  <2>1. KeyedOnce /\ (key = NoKey \/ \A i \in DOMAIN refunds : refunds[i].key # key)
    BY DEF MoneyOK, Refunding
  <2>2. \A i \in DOMAIN refunds : refunds'[i].key = refunds[i].key
    BY <1>11
  <2>3. refunds'[Len(refunds) + 1].key = key
    BY <1>11
  <2> QED
    BY <1>4, <1>11, <2>1, <2>2, <2>3 DEF KeyedOnce
<1>17. Waits' => Waits
  BY <1>1, <1>3, <1>4 DEF Waits, Taken
<1> QED
  BY <1>4, <1>10, <1>13, <1>14, <1>15, <1>16, <1>17 DEF MoneyOK, Kept

LEMMA FailingKeeps ==
  ASSUME MoneyOK, Failing
  PROVE  /\ MoneyOK' /\ Kept
         /\ \A q \in Payment : Taken(q)' = Taken(q) /\ payment'[q].key = payment[q].key
<1> USE DEF CAPTURED_STATES
<1>1. payment \in PaymentTable /\ First \in Payment /\ ~Taken(First)
  BY PaymentsAssumption DEF MoneyOK, MoneyType, PaymentTable, Failing
<1>2. /\ payment' \in PaymentTable
      /\ \A q \in Payment : /\ Taken(q)' = Taken(q)
                            /\ payment'[q].key = payment[q].key
                            /\ payment'[q].amount = payment[q].amount
                            /\ q # First => payment'[q] = payment[q]
      /\ payment'[First].status = "FAILED"
  BY <1>1 DEF PaymentTable, PaymentRow, Taken, Failing
<1>3. CapturedSum(payment') = CapturedSum(payment)
  <2>1. CapturedOf(payment') = CapturedOf(payment)
    BY <1>2 DEF CapturedOf, Taken
  <2>2. \A q \in CapturedOf(payment) : payment'[q].amount = payment[q].amount
    BY <1>2 DEF CapturedOf
  <2> QED
    BY <1>1, <1>2, <2>1, <2>2, CapturedSame
<1>4. MoneyType' /\ UNCHANGED <<order, refunds, balance, posted>>
  BY <1>2 DEF MoneyOK, MoneyType, PaymentTable, Failing
<1>5. RowsInv'
  BY <1>2 DEF RowsInv, MoneyOK
<1>6. MoneyInv'
  <2>1. BookAgrees'
    <3>1. balance = BookSum(payment, refunds, posted) /\ refunds \in Seq(RefundRow)
      BY BookIs DEF MoneyOK, MoneyInv, MoneyType, BookAgrees, PostedPayments, PostedRefunds
    <3>2. PaidIn(payment', posted) = PaidIn(payment, posted)
      BY <1>2 DEF PaidIn, CapturedOf, Taken
    <3>3. \A q \in PaidIn(payment, posted) : payment'[q].amount = payment[q].amount
      BY <1>2 DEF PaidIn, CapturedOf
    <3>4. BookSum(payment', refunds, posted) = BookSum(payment, refunds, posted)
      BY <1>1, <1>2, <3>1, <3>2, <3>3, BookSame
    <3> QED
      BY <1>4, <3>1, <3>4, BookIs DEF BookAgrees, PostedPayments, PostedRefunds
  <2> QED
    BY <1>1, <1>2, <1>3, <1>4, <2>1 DEF MoneyInv, MoneyOK, RefundsWithinPaid
<1>7. KeyedOnce'
  BY <1>2, <1>4 DEF KeyedOnce, MoneyOK
<1>8. Waits' => Waits
  BY <1>2 DEF Waits
<1> QED
  BY <1>2, <1>4, <1>5, <1>6, <1>7, <1>8 DEF MoneyOK, Kept

LEMMA RestatingKeeps ==
  ASSUME MoneyOK, Restating
  PROVE  MoneyOK' /\ Kept /\ order'.paid = order.paid /\ payment' = payment
<1>1. /\ order'.status \in Status /\ order'.paid = order.paid
      /\ order'.refunded = order.refunded
      /\ order' \in [status : Status, paid : Nat, refunded : Nat]
      /\ UNCHANGED <<payment, refunds, balance, posted>>
  BY DEF Restating, MoneyOK, MoneyType
<1>2. MoneyType'
  BY <1>1 DEF MoneyOK, MoneyType
<1>3. MoneyInv'
  BY <1>1 DEF MoneyOK, MoneyInv, RefundsWithinPaid, Taken, BookAgrees, PostedPayments,
              PostedRefunds
<1>4. RowsInv' /\ KeyedOnce' /\ Kept
  BY <1>1 DEF MoneyOK, RowsInv, KeyedOnce, Taken, Kept, Waits
<1> QED
  BY <1>1, <1>2, <1>3, <1>4 DEF MoneyOK

-----------------------------------------------------------------------------
(* The requests under way.                                                 *)

(* Every request under way goes on as it was, or is over.                  *)
TxFewer == \A c \in Client : tx'[c] = Idle \/ tx'[c] = tx[c]

(* Nothing a receipt asked under the order's lock changes.                 *)
Unasked == order'.paid = order.paid
           /\ \A p \in Payment : payment'[p].key = payment[p].key

LEMMA TxTyped ==
  ASSUME AskedType, TxFewer, tx' \in [Client -> Hooks \cup Receives \cup {Idle}]
  PROVE  \A c \in Client :
           /\ tx[c] # Idle => tx[c] \in Hooks \cup Receives
           /\ Hooking(c, {"event"})' => Hooking(c, {"event"}) /\ tx'[c] = tx[c]
           /\ Settling(c)' => Settling(c) /\ tx'[c] = tx[c]
           /\ AtOrder(c)' => AtOrder(c) /\ tx'[c] = tx[c]
           /\ Receiving(c)' => Receiving(c) /\ tx'[c] = tx[c]
BY DEF AskedType, TxFewer, Settling, AtOrder, Receiving, Hooking

(* ReceiptsInv is left by a step that changes nothing it speaks of, ...    *)
LEMMA ReceiptsLeft ==
  ASSUME ReceiptsInv, Unasked,
         \A c \in Client : Receiving(c)' => Receiving(c) /\ tx'[c] = tx[c]
  PROVE  ReceiptsInv'
BY DEF ReceiptsInv, Unasked, PaymentKeyed

(* ... and one after which no receipt waits.                               *)
LEMMA ReceiptsNone ==
  ASSUME \A c \in Client : ~Receiving(c)'
  PROVE  ReceiptsInv'
BY DEF ReceiptsInv

LEMMA Unlocked ==
  ASSUME ~OrderLocked
  PROVE  \A c \in Client : ~Receiving(c)
BY DEF OrderLocked, Receiving

(* HooksInv, by a step that settles no event and captures nothing a webhook*)
(* holds.                                                                  *)
LEMMA HooksLeft ==
  ASSUME HooksInv, result' = result, First \in Payment,
         Taken(First) => Taken(First)',
         Taken(First)' => Taken(First) \/ \A c \in Client : ~AtOrder(c)',
         \A c \in Client :
           /\ Hooking(c, {"event"})' => Hooking(c, {"event"}) /\ tx'[c] = tx[c]
           /\ Settling(c)' => Settling(c) /\ tx'[c] = tx[c]
           /\ AtOrder(c)' => AtOrder(c) /\ tx'[c] = tx[c]
  PROVE  HooksInv'
BY DEF HooksInv

-----------------------------------------------------------------------------
(* Every step keeps the invariant, keeps captured payments captured and    *)
(* leaves the events that are settled.                                     *)

Settled == \A e \in Event : result[e] # "UNSEEN" => result'[e] = result[e]

Good == Inv' /\ Kept /\ Settled

LEMMA SameMoney ==
  ASSUME MoneyOK, UNCHANGED money
  PROVE  MoneyOK' /\ Kept /\ Unasked /\ (\A p \in Payment : Taken(p)' = Taken(p))
<1>1. Restating
  BY DEF Restating, money, MoneyOK, MoneyType
<1> QED
  BY <1>1, RestatingKeeps DEF Unasked, money, Taken

(* A request of c becomes x, nothing else changes of the requests.         *)
LEMMA OneTx ==
  ASSUME AskedType, NEW c \in Client, NEW x \in Hooks \cup Receives \cup {Idle},
         tx' = [tx EXCEPT ![c] = x]
  PROVE  /\ tx' \in [Client -> Hooks \cup Receives \cup {Idle}]
         /\ tx'[c] = x
         /\ \A d \in Client : d # c =>
              /\ tx'[d] = tx[d]
              /\ Hooking(d, {"event"})' = Hooking(d, {"event"})
              /\ Settling(d)' = Settling(d)
              /\ AtOrder(d)' = AtOrder(d)
              /\ Receiving(d)' = Receiving(d)
BY DEF AskedType, Settling, AtOrder, Receiving, Hooking

LEMMA Over ==
  ASSUME NEW c, tx'[c] = Idle
  PROVE  /\ ~Hooking(c, {"event"})' /\ ~Settling(c)'
         /\ ~AtOrder(c)' /\ ~Receiving(c)'
BY DEF Settling, AtOrder, Receiving, Hooking

(* A request known by what it waits for.                                   *)
LEMMA HookIs ==
  ASSUME Inv, NEW c \in Client, NEW steps, Hooking(c, steps)
  PROVE  /\ tx[c] \in Hooks /\ tx[c].event \in Event /\ ~Receiving(c)
         /\ steps = {"event"} => tx[c].payment \in {First, NoPayment}
         /\ steps \subseteq {"payment", "order"} =>
              /\ Settling(c)
              /\ tx[c].payment = First /\ result[tx[c].event] = "UNSEEN"
BY DEF Inv, AskedOK, AskedType, HooksInv, Hooking, Settling, Receiving, Hooks, Receives

LEMMA LocksAre ==
  ASSUME TRUE
  PROVE  /\ OrderLocked <=> \E c \in Client : Receiving(c)
         /\ \A p : PaymentLocked(p) <=> \E c \in Client : AtOrder(c) /\ tx[c].payment = p
         /\ \A e : EventLocked(e) <=> \E c \in Client : Settling(c) /\ tx[c].event = e
BY DEF OrderLocked, PaymentLocked, EventLocked, Receiving, AtOrder, Settling

LEMMA HookFindStep ==
  ASSUME Inv, NEW c \in Client, NEW e \in Event, HookFind(c, e)
  PROVE  Good
<1> DEFINE x == [kind |-> "hook", at |-> "event", event |-> e,
                 payment |-> IF /\ payment[First].status = "PENDING"
                                /\ payment[First].method = "ONLINE"
                             THEN First ELSE NoPayment]
<1>1. x \in Hooks /\ x.kind = "hook" /\ x.at = "event" /\ x.payment \in {First, NoPayment}
  BY PaymentsAssumption DEF Hooks
<1>2. tx[c] = Idle /\ tx' = [tx EXCEPT ![c] = x] /\ UNCHANGED <<money, kind, result, cancelling>>
  BY DEF HookFind
<1> HIDE DEF x
<1>3. MoneyOK' /\ Kept /\ Unasked /\ (\A p \in Payment : Taken(p)' = Taken(p))
  BY <1>2, SameMoney DEF Inv
<1>4. /\ tx' \in [Client -> Hooks \cup Receives \cup {Idle}] /\ tx'[c] = x
      /\ \A d \in Client : d # c =>
           /\ tx'[d] = tx[d]
           /\ Hooking(d, {"event"})' = Hooking(d, {"event"})
           /\ Settling(d)' = Settling(d)
           /\ AtOrder(d)' = AtOrder(d)
           /\ Receiving(d)' = Receiving(d)
  BY <1>1, <1>2, OneTx DEF Inv, AskedOK
<1>5. ~Settling(c)' /\ ~AtOrder(c)' /\ ~Receiving(c)'
  BY <1>1, <1>4 DEF Settling, AtOrder, Receiving, Hooking
<1>6. AskedType'
  BY <1>2, <1>4 DEF Inv, AskedOK, AskedType
<1>7. HooksInv'
  BY <1>1, <1>2, <1>3, <1>4, <1>5, PaymentsAssumption DEF Inv, AskedOK, HooksInv
<1>8. ReceiptsInv'
  BY <1>3, <1>4, <1>5, ReceiptsLeft DEF Inv, AskedOK
<1> QED
  BY <1>2, <1>3, <1>6, <1>7, <1>8 DEF Good, Inv, AskedOK, Settled

LEMMA HookEventStep ==
  ASSUME Inv, NEW c \in Client, HookEvent(c)
  PROVE  Good
<1> DEFINE e == tx[c].event
<1>1. /\ Hooking(c, {"event"}) /\ UNCHANGED <<money, kind, cancelling>>
      /\ tx[c] \in Hooks /\ e \in Event /\ tx[c].payment \in {First, NoPayment}
      /\ result \in [Event -> {"UNSEEN", "ignored", "amount_mismatch", "captured", "failed"}]
  BY HookIs DEF HookEvent, Inv, AskedOK, AskedType
<1>2. \A d \in Client : Settling(d) => tx[d].event # e
  BY LocksAre DEF HookEvent
<1>3. MoneyOK' /\ Kept /\ Unasked /\ (\A p \in Payment : Taken(p)' = Taken(p))
  BY <1>1, SameMoney DEF Inv
<1>4. CASE result[e] # "UNSEEN" \/ tx[c].payment = NoPayment \/ kind[e] = "mismatch"
  <2>1. /\ tx' = [tx EXCEPT ![c] = Idle]
        /\ result' = [result EXCEPT
                       ![e] = IF @ # "UNSEEN" THEN @
                              ELSE IF tx[c].payment = NoPayment THEN "ignored"
                              ELSE IF kind[e] = "mismatch" THEN "amount_mismatch"
                              ELSE @]
    BY <1>4 DEF HookEvent
  <2>2. /\ result' \in [Event -> {"UNSEEN", "ignored", "amount_mismatch", "captured", "failed"}]
        /\ \A f \in Event : result[f] # "UNSEEN" \/ f # e => result'[f] = result[f]
        /\ \A f \in Event : result'[f] = "captured" => result[f] = "captured"
    BY <1>1, <2>1
  <2>3. /\ tx' \in [Client -> Hooks \cup Receives \cup {Idle}] /\ tx'[c] = Idle
        /\ \A d \in Client : d # c =>
             /\ tx'[d] = tx[d]
             /\ Hooking(d, {"event"})' = Hooking(d, {"event"})
             /\ Settling(d)' = Settling(d)
             /\ AtOrder(d)' = AtOrder(d)
             /\ Receiving(d)' = Receiving(d)
    BY <2>1, OneTx DEF Inv, AskedOK
  <2>4. /\ ~Hooking(c, {"event"})' /\ ~Settling(c)' /\ ~AtOrder(c)' /\ ~Receiving(c)'
    BY <2>3, Over
  <2>5. AskedType'
    BY <1>1, <2>2, <2>3 DEF Inv, AskedOK, AskedType
  <2>6. HooksInv'
    <3>1. \A d \in Client : Settling(d)' => result'[tx'[d].event] = "UNSEEN"
      <4> SUFFICES ASSUME NEW d \in Client, Settling(d)'
                   PROVE  result'[tx'[d].event] = "UNSEEN"
        OBVIOUS
      <4>1. d # c /\ Settling(d) /\ tx'[d] = tx[d]
        BY <2>3, <2>4
      <4>2. tx[d].event \in Event /\ tx[d].event # e /\ result[tx[d].event] = "UNSEEN"
        BY <1>2, <4>1, HookIs DEF Settling
      <4> QED
        BY <2>2, <4>1, <4>2
    <3> QED
      BY <1>3, <2>2, <2>3, <2>4, <3>1, PaymentsAssumption DEF Inv, AskedOK, HooksInv
  <2>7. ReceiptsInv'
    BY <1>3, <2>3, <2>4, ReceiptsLeft DEF Inv, AskedOK
  <2> QED
    BY <1>3, <2>2, <2>5, <2>6, <2>7 DEF Good, Inv, AskedOK, Settled
<1>5. CASE ~(result[e] # "UNSEEN" \/ tx[c].payment = NoPayment \/ kind[e] = "mismatch")
  <2> DEFINE x == [tx[c] EXCEPT !.at = "payment"]
  <2>1. tx' = [tx EXCEPT ![c] = x]
    BY <1>5 DEF HookEvent
  <2>2. result' = result
    <3>1. result' = [result EXCEPT ![e] = result[e]]
      BY <1>5 DEF HookEvent
    <3> QED
      BY <1>1, <3>1
  <2>3. /\ x \in Hooks /\ x.kind = "hook" /\ x.at = "payment" /\ x.event = e
        /\ x.payment = First
    BY <1>1, <1>5 DEF Hooks
  <2> HIDE DEF x
  <2>4. /\ tx' \in [Client -> Hooks \cup Receives \cup {Idle}] /\ tx'[c] = x
        /\ \A d \in Client : d # c =>
             /\ tx'[d] = tx[d]
             /\ Hooking(d, {"event"})' = Hooking(d, {"event"})
             /\ Settling(d)' = Settling(d)
             /\ AtOrder(d)' = AtOrder(d)
             /\ Receiving(d)' = Receiving(d)
    BY <2>1, <2>3, OneTx DEF Inv, AskedOK
  <2>5. ~Hooking(c, {"event"})' /\ ~AtOrder(c)' /\ ~Receiving(c)'
    BY <2>3, <2>4 DEF AtOrder, Receiving, Hooking
  <2>6. AskedType'
    BY <1>1, <2>2, <2>4 DEF Inv, AskedOK, AskedType
  <2>7. HooksInv'
    BY <1>2, <1>3, <1>5, <2>2, <2>3, <2>4, <2>5, PaymentsAssumption DEF Inv, AskedOK, HooksInv
  <2>8. ReceiptsInv'
    BY <1>3, <2>4, <2>5, ReceiptsLeft DEF Inv, AskedOK
  <2> QED
    BY <1>3, <2>2, <2>6, <2>7, <2>8 DEF Good, Inv, AskedOK, Settled
<1> QED
  BY <1>4, <1>5

LEMMA HookCaptureStep ==
  ASSUME Inv, NEW c \in Client, HookCapture(c)
  PROVE  Good
<1> DEFINE e == tx[c].event
           status == payment[tx[c].payment].status
           x == IF status = "PENDING" THEN [tx[c] EXCEPT !.at = "order"] ELSE Idle
<1>1. /\ Hooking(c, {"payment"}) /\ UNCHANGED <<money, kind, cancelling>>
      /\ tx[c] \in Hooks /\ e \in Event /\ Settling(c) /\ tx[c].payment = First
      /\ result[e] = "UNSEEN" /\ ~Receiving(c) /\ ~PaymentLocked(First)
      /\ result \in [Event -> {"UNSEEN", "ignored", "amount_mismatch", "captured", "failed"}]
      /\ tx' = [tx EXCEPT ![c] = x]
      /\ result' = IF status \in CAPTURED_STATES
                   THEN [result EXCEPT ![e] = "captured"] ELSE result
  BY HookIs DEF HookCapture, Inv, AskedOK, AskedType
<1>2. \A d \in Client : ~AtOrder(d)
  <2>1. \A d \in Client : AtOrder(d) => tx[d].payment = First
    BY HookIs DEF AtOrder
  <2> QED
    BY <1>1, <2>1, LocksAre
<1>3. \A d \in Client : Settling(d) /\ d # c => tx[d].event # e
  BY <1>1 DEF Inv, AskedOK, HooksInv
<1>4. MoneyOK' /\ Kept /\ Unasked /\ (\A p \in Payment : Taken(p)' = Taken(p))
  BY <1>1, SameMoney DEF Inv
<1>5. /\ x \in Hooks \cup {Idle}
      /\ x # Idle => /\ x.kind = "hook" /\ x.at = "order" /\ x.event = e
                     /\ x.payment = First /\ status = "PENDING"
  BY <1>1 DEF Hooks
<1>6. status = "PENDING" => status \notin CAPTURED_STATES
  BY DEF CAPTURED_STATES
<1>7. Taken(First) <=> status \in CAPTURED_STATES
  BY <1>1 DEF Taken
<1> HIDE DEF x, status
<1>8. /\ tx' \in [Client -> Hooks \cup Receives \cup {Idle}] /\ tx'[c] = x
      /\ \A d \in Client : d # c =>
           /\ tx'[d] = tx[d]
           /\ Hooking(d, {"event"})' = Hooking(d, {"event"})
           /\ Settling(d)' = Settling(d)
           /\ AtOrder(d)' = AtOrder(d)
           /\ Receiving(d)' = Receiving(d)
  BY <1>1, <1>5, OneTx DEF Inv, AskedOK
<1>9. /\ ~Hooking(c, {"event"})' /\ ~Receiving(c)'
      /\ Settling(c)' \/ AtOrder(c)' => x # Idle
  BY <1>5, <1>8 DEF Settling, AtOrder, Receiving, Hooking
<1>10. /\ result' \in [Event -> {"UNSEEN", "ignored", "amount_mismatch", "captured", "failed"}]
       /\ \A f \in Event : f # e => result'[f] = result[f]
       /\ ~Taken(First) => result' = result
  BY <1>1, <1>7
<1>11. AskedType'
  BY <1>1, <1>8, <1>10 DEF Inv, AskedOK, AskedType
<1>12. x # Idle => ~Taken(First) /\ result' = result
  BY <1>5, <1>6, <1>7, <1>10
<1>13. HooksInv'
  <2>1. \A d \in Client :
          Settling(d)' => tx'[d].payment = First /\ result'[tx'[d].event] = "UNSEEN"
    <3> SUFFICES ASSUME NEW d \in Client, Settling(d)'
                 PROVE  tx'[d].payment = First /\ result'[tx'[d].event] = "UNSEEN"
      OBVIOUS
    <3>1. CASE d = c
      BY <1>1, <1>5, <1>8, <1>9, <1>12, <3>1
    <3>2. CASE d # c
      <4>1. Settling(d) /\ tx'[d] = tx[d]
        BY <1>8, <3>2
      <4>2. tx[d].event \in Event /\ tx[d].payment = First /\ result[tx[d].event] = "UNSEEN"
        BY <4>1, HookIs DEF Settling
      <4> QED
        BY <1>3, <1>10, <3>2, <4>1, <4>2
    <3> QED
      BY <3>1, <3>2
  <2>2. \A d1, d2 \in Client :
          Settling(d1)' /\ Settling(d2)' /\ tx'[d1].event = tx'[d2].event => d1 = d2
    <3>1. \A d \in Client : Settling(d)' /\ d # c => tx'[d].event # e
      BY <1>3, <1>8
    <3>2. Settling(c)' => tx'[c].event = e
      BY <1>5, <1>8, <1>9
    <3> QED
      BY <1>8, <3>1, <3>2 DEF Inv, AskedOK, HooksInv
  <2>3. \A f \in Event : result'[f] = "captured" => Taken(First)'
    BY <1>4, <1>10, PaymentsAssumption DEF Inv, AskedOK, HooksInv
  <2>4. \A d \in Client : AtOrder(d)' => d = c /\ ~Taken(First)'
    BY <1>2, <1>4, <1>8, <1>9, <1>12, PaymentsAssumption
  <2>5. \A d \in Client : Hooking(d, {"event"})' => tx'[d].payment \in {First, NoPayment}
    BY <1>8, <1>9 DEF Inv, AskedOK, HooksInv
  <2> QED
    BY <2>1, <2>2, <2>3, <2>4, <2>5 DEF HooksInv
<1>14. ReceiptsInv'
  BY <1>4, <1>8, <1>9, ReceiptsLeft DEF Inv, AskedOK
<1>15. Settled
  BY <1>1, <1>10 DEF Settled
<1> QED
  BY <1>4, <1>11, <1>13, <1>14, <1>15 DEF Good, Inv, AskedOK

(* A webhook that ends with both locks: its event settled, the payment     *)
(* captured if that is what the event is settled as.                       *)
LEMMA HookEnds ==
  ASSUME Inv, NEW c \in Client, AtOrder(c), tx' = [tx EXCEPT ![c] = Idle],
         NEW r \in {"captured", "failed"},
         result' = [result EXCEPT ![tx[c].event] = r],
         UNCHANGED <<kind, cancelling>>, MoneyOK', Kept,
         r = "captured" => Taken(First)',
         \/ \A d \in Client : ~Receiving(d)
         \/ Unasked
  PROVE  Good
<1> DEFINE e == tx[c].event
<1>1. /\ tx[c] \in Hooks /\ e \in Event /\ Settling(c) /\ tx[c].payment = First
      /\ result[e] = "UNSEEN" /\ ~Receiving(c)
      /\ result \in [Event -> {"UNSEEN", "ignored", "amount_mismatch", "captured", "failed"}]
  BY HookIs DEF AtOrder, Inv, AskedOK, AskedType
<1>2. \A d \in Client : AtOrder(d) => d = c
  BY DEF Inv, AskedOK, HooksInv
<1>3. \A d \in Client : Settling(d) /\ d # c => tx[d].event # e
  BY <1>1 DEF Inv, AskedOK, HooksInv
<1>4. /\ tx' \in [Client -> Hooks \cup Receives \cup {Idle}] /\ tx'[c] = Idle
      /\ \A d \in Client : d # c =>
           /\ tx'[d] = tx[d]
           /\ Hooking(d, {"event"})' = Hooking(d, {"event"})
           /\ Settling(d)' = Settling(d)
           /\ AtOrder(d)' = AtOrder(d)
           /\ Receiving(d)' = Receiving(d)
  BY OneTx DEF Inv, AskedOK
<1>5. /\ ~Hooking(c, {"event"})' /\ ~Settling(c)' /\ ~AtOrder(c)' /\ ~Receiving(c)'
  BY <1>4, Over
<1>6. /\ result' \in [Event -> {"UNSEEN", "ignored", "amount_mismatch", "captured", "failed"}]
      /\ \A f \in Event : f # e => result'[f] = result[f]
      /\ result'[e] = r
  BY <1>1
<1>7. AskedType'
  BY <1>4, <1>6 DEF Inv, AskedOK, AskedType
<1>8. HooksInv'
  <2>1. \A d \in Client :
          Settling(d)' => tx'[d].payment = First /\ result'[tx'[d].event] = "UNSEEN"
    <3> SUFFICES ASSUME NEW d \in Client, Settling(d)'
                 PROVE  tx'[d].payment = First /\ result'[tx'[d].event] = "UNSEEN"
      OBVIOUS
    <3>1. d # c /\ Settling(d) /\ tx'[d] = tx[d]
      BY <1>4, <1>5
    <3>2. tx[d].event \in Event /\ tx[d].payment = First /\ result[tx[d].event] = "UNSEEN"
      BY <3>1, HookIs DEF Settling
    <3> QED
      BY <1>3, <1>6, <3>1, <3>2
  <2>2. \A d1, d2 \in Client :
          Settling(d1)' /\ Settling(d2)' /\ tx'[d1].event = tx'[d2].event => d1 = d2
    BY <1>4, <1>5 DEF Inv, AskedOK, HooksInv
  <2>3. \A f \in Event : result'[f] = "captured" => Taken(First)'
    BY <1>6, PaymentsAssumption DEF Inv, AskedOK, HooksInv, Kept
  <2>4. \A d \in Client : ~AtOrder(d)'
    BY <1>2, <1>4, <1>5
  <2>5. \A d \in Client : Hooking(d, {"event"})' => tx'[d].payment \in {First, NoPayment}
    BY <1>4, <1>5 DEF Inv, AskedOK, HooksInv
  <2> QED
    BY <2>1, <2>2, <2>3, <2>4, <2>5 DEF HooksInv
<1>9. ReceiptsInv'
  <2>1. CASE \A d \in Client : ~Receiving(d)
    BY <1>4, <1>5, <2>1, ReceiptsNone
  <2>2. CASE Unasked
    BY <1>4, <1>5, <2>2, ReceiptsLeft DEF Inv, AskedOK
  <2> QED
    BY <2>1, <2>2
<1>10. Settled
  BY <1>1, <1>6 DEF Settled
<1> QED
  BY <1>7, <1>8, <1>9, <1>10 DEF Good, Inv, AskedOK

LEMMA HookCommitStep ==
  ASSUME Inv, NEW c \in Client, HookCommit(c)
  PROVE  Good
<1> DEFINE row == [payment[First] EXCEPT !.status = "CAPTURED"]
<1>1. /\ AtOrder(c) /\ tx[c].payment = First /\ ~Taken(First) /\ First \in Payment
      /\ payment \in PaymentTable /\ MoneyOK
  BY HookIs, PaymentsAssumption
     DEF HookCommit, AtOrder, Inv, AskedOK, HooksInv, MoneyOK, MoneyType, PaymentTable
<1>2. /\ row \in PaymentRow /\ row.status = "CAPTURED" /\ row.key = payment[First].key
  BY <1>1 DEF PaymentTable, PaymentRow, CAPTURED_STATES
<1>3. Capture(First, [payment EXCEPT ![First] = row])
  <2>1. [payment EXCEPT ![First].status = "CAPTURED"] = [payment EXCEPT ![First] = row]
    BY <1>1 DEF PaymentTable
  <2>2. Capture(First, [payment EXCEPT ![First].status = "CAPTURED"])
    BY <1>1 DEF HookCommit
  <2> QED
    BY <2>1, <2>2
<1> HIDE DEF row
<1>4. Capturing(First, row)
  BY <1>1, <1>2, <1>3 DEF Capturing
<1>5. MoneyOK' /\ Kept /\ Taken(First)'
  BY <1>1, <1>4, CapturingKeeps
<1>6. \A d \in Client : ~Receiving(d)
  BY Unlocked DEF HookCommit
<1>7. /\ result' = [result EXCEPT ![tx[c].event] = "captured"]
      /\ tx' = [tx EXCEPT ![c] = Idle] /\ UNCHANGED <<kind, cancelling>>
  BY DEF HookCommit
<1>8. "captured" \in {"captured", "failed"}
  OBVIOUS
<1> QED
  BY <1>1, <1>5, <1>6, <1>7, <1>8, HookEnds

LEMMA HookFailedStep ==
  ASSUME Inv, NEW c \in Client, HookFailed(c)
  PROVE  Good
<1>1. /\ AtOrder(c) /\ tx[c].payment = First /\ ~Taken(First)
  BY HookIs DEF HookFailed, AtOrder, Inv, AskedOK, HooksInv
<1>2. Failing
  BY <1>1 DEF HookFailed, Failing
<1>3. MoneyOK' /\ Kept
  BY <1>2, FailingKeeps DEF Inv
<1>4. \A d \in Client : ~Receiving(d)
  BY Unlocked DEF HookFailed
<1>5. /\ result' = [result EXCEPT ![tx[c].event] = "failed"]
      /\ tx' = [tx EXCEPT ![c] = Idle] /\ UNCHANGED <<kind, cancelling>>
  BY DEF HookFailed
<1>6. "failed" \in {"captured", "failed"} /\ "failed" # "captured"
  OBVIOUS
<1> QED
  BY <1>1, <1>3, <1>4, <1>5, <1>6, HookEnds

(* A request that is over with nothing settled, whatever became of the     *)
(* money: a rollback, or nobody's request at all.                          *)
LEMMA AskedLeft ==
  ASSUME Inv, MoneyOK', Kept, TxFewer, result' = result, kind' = kind,
         tx' \in [Client -> Hooks \cup Receives \cup {Idle}],
         cancelling' \in BOOLEAN,
         Taken(First)' => Taken(First) \/ \A c \in Client : ~AtOrder(c)',
         \/ \A c \in Client : ~Receiving(c)'
         \/ Unasked
  PROVE  Good
<1>1. \A c \in Client :
        /\ Hooking(c, {"event"})' => Hooking(c, {"event"}) /\ tx'[c] = tx[c]
        /\ Settling(c)' => Settling(c) /\ tx'[c] = tx[c]
        /\ AtOrder(c)' => AtOrder(c) /\ tx'[c] = tx[c]
        /\ Receiving(c)' => Receiving(c) /\ tx'[c] = tx[c]
  BY TxTyped DEF Inv, AskedOK
<1>2. First \in Payment /\ (Taken(First) => Taken(First)')
  BY PaymentsAssumption DEF Kept
<1>3. HooksInv'
  BY <1>1, <1>2, HooksLeft DEF Inv, AskedOK
<1>4. ReceiptsInv'
  BY <1>1, ReceiptsLeft, ReceiptsNone DEF Inv, AskedOK
<1>5. AskedType'
  BY DEF Inv, AskedOK, AskedType
<1> QED
  BY <1>3, <1>4, <1>5 DEF Good, Inv, AskedOK, Settled

LEMMA HookFailStep ==
  ASSUME Inv, NEW c \in Client, HookFail(c)
  PROVE  Good
<1> DEFINE x == [tx[c] EXCEPT !.at = "order"]
<1>1. /\ Hooking(c, {"payment"}) /\ UNCHANGED <<money, kind, result, cancelling>>
      /\ tx[c] \in Hooks /\ Settling(c) /\ tx[c].payment = First
      /\ result[tx[c].event] = "UNSEEN" /\ ~Receiving(c) /\ ~PaymentLocked(First)
      /\ tx \in [Client -> Hooks \cup Receives \cup {Idle}]
      /\ tx' = [tx EXCEPT ![c] = IF payment[First].status \in CAPTURED_STATES
                                 THEN Idle ELSE x]
  <2>1. /\ Hooking(c, {"payment"}) /\ UNCHANGED <<money, kind, result, cancelling>>
        /\ tx' = [tx EXCEPT ![c] = IF payment[tx[c].payment].status \in CAPTURED_STATES
                                   THEN Idle ELSE x]
        /\ ~PaymentLocked(tx[c].payment)
    BY DEF HookFail
  <2>2. /\ tx[c] \in Hooks /\ Settling(c) /\ tx[c].payment = First
        /\ result[tx[c].event] = "UNSEEN" /\ ~Receiving(c)
    BY <2>1, HookIs
  <2> HIDE DEF x
  <2>3. tx' = [tx EXCEPT ![c] = IF payment[First].status \in CAPTURED_STATES
                                THEN Idle ELSE x]
    BY <2>1, <2>2
  <2>4. ~PaymentLocked(First)
    BY <2>1, <2>2
  <2> QED
    BY <2>1, <2>2, <2>3, <2>4 DEF Inv, AskedOK, AskedType
<1>2. MoneyOK' /\ Kept /\ Unasked /\ (\A p \in Payment : Taken(p)' = Taken(p))
  BY <1>1, SameMoney DEF Inv
<1>3. CASE Taken(First)
  <2>1. tx' = [tx EXCEPT ![c] = Idle]
    BY <1>1, <1>3 DEF Taken
  <2>2. TxFewer /\ tx' \in [Client -> Hooks \cup Receives \cup {Idle}]
    BY <1>1, <2>1 DEF TxFewer
  <2>3. cancelling' \in BOOLEAN
    BY <1>1 DEF Inv, AskedOK, AskedType
  <2> QED
    BY <1>1, <1>2, <1>3, <2>2, <2>3, AskedLeft
<1>4. CASE ~Taken(First)
  <2>1. tx' = [tx EXCEPT ![c] = x]
    BY <1>1, <1>4 DEF Taken
  <2>2. /\ x \in Hooks /\ x.kind = "hook" /\ x.at = "order"
        /\ x.event = tx[c].event /\ x.payment = First
    BY <1>1 DEF Hooks
  <2> HIDE DEF x
  <2>3. /\ tx' \in [Client -> Hooks \cup Receives \cup {Idle}] /\ tx'[c] = x
        /\ \A d \in Client : d # c =>
             /\ tx'[d] = tx[d]
             /\ Hooking(d, {"event"})' = Hooking(d, {"event"})
             /\ Settling(d)' = Settling(d)
             /\ AtOrder(d)' = AtOrder(d)
             /\ Receiving(d)' = Receiving(d)
    BY <2>1, <2>2, OneTx DEF Inv, AskedOK
  <2>4. ~Hooking(c, {"event"})' /\ ~Receiving(c)'
    BY <2>2, <2>3 DEF Receiving, Hooking
  <2>5. \A d \in Client : ~AtOrder(d)
    <3>1. \A d \in Client : AtOrder(d) => tx[d].payment = First
      BY HookIs DEF AtOrder
    <3> QED
      BY <1>1, <3>1, LocksAre
  <2>6. AskedType'
    BY <1>1, <2>3 DEF Inv, AskedOK, AskedType
  <2>7. HooksInv'
    BY <1>1, <1>2, <1>4, <2>2, <2>3, <2>4, <2>5, PaymentsAssumption DEF Inv, AskedOK, HooksInv
  <2>8. ReceiptsInv'
    BY <1>2, <2>3, <2>4, ReceiptsLeft DEF Inv, AskedOK
  <2> QED
    BY <1>1, <1>2, <2>6, <2>7, <2>8 DEF Good, Inv, AskedOK, Settled
<1> QED
  BY <1>3, <1>4

(* The row of a payment that staff write, captured.                        *)
Written(p, amount, key) ==
  [payment[p] EXCEPT !.status = "CAPTURED", !.amount = amount, !.key = key]

LEMMA WrittenCaptures ==
  ASSUME Inv, NEW amount \in 1 .. GrandTotal, NEW key \in Key \cup {NoKey},
         amount <= GrandTotal - order.paid, ~PaymentKeyed(key),
         NewCaptured(amount, key)
  PROVE  MoneyOK' /\ Kept /\ (Taken(First)' => Taken(First))
<1>1. PICK p \in Payment :
        /\ payment[p].status = "NONE"
        /\ Capture(p, [payment EXCEPT ![p].status = "CAPTURED",
                                      ![p].amount = amount, ![p].key = key])
  BY DEF NewCaptured
<1> DEFINE row == Written(p, amount, key)
<1>2. payment \in PaymentTable /\ payment[p] \in PaymentRow /\ GrandTotal \in Nat
  BY PaymentsAssumption DEF Inv, MoneyOK, MoneyType, PaymentTable
<1>3. row \in PaymentRow /\ row.status = "CAPTURED" /\ row.key = key /\ row.amount = amount
  <2>1. amount \in 0 .. GrandTotal
    BY <1>2
  <2>2. /\ [payment[p] EXCEPT !.status = "CAPTURED", !.amount = amount, !.key = key] \in PaymentRow
    BY <1>2, <2>1 DEF PaymentRow, CAPTURED_STATES
  <2> DEFINE r == payment[p]
  <2>3. r \in PaymentRow
    BY <1>2
  <2> HIDE DEF r
  <2>4. LET w == [r EXCEPT !.status = "CAPTURED", !.amount = amount, !.key = key]
        IN  w.status = "CAPTURED" /\ w.key = key /\ w.amount = amount
    BY <2>3 DEF PaymentRow
  <2> QED
    BY <2>2, <2>4 DEF Written, r
<1>4. Capture(p, [payment EXCEPT ![p] = row])
  <2>1. [payment EXCEPT ![p].status = "CAPTURED", ![p].amount = amount, ![p].key = key]
          = [payment EXCEPT ![p] = row]
    BY <1>2 DEF PaymentTable, Written
  <2> HIDE DEF row
  <2> QED
    BY <1>1, <2>1
<1> HIDE DEF row
<1>5. p # First /\ ~Taken(p)
  BY <1>1 DEF Inv, MoneyOK, RowsInv, Taken, CAPTURED_STATES
<1>6. Capturing(p, row)
  BY <1>3, <1>4, <1>5 DEF Capturing
<1> QED
  BY <1>5, <1>6, CapturingKeeps DEF Inv

LEMMA ReceiveNewStep ==
  ASSUME Inv, NEW method \in Method, NEW amount \in 1 .. GrandTotal,
         NEW key \in Key \cup {NoKey}, ReceiveNew(method, amount, key)
  PROVE  Good
<1>1. /\ ~PaymentKeyed(key) /\ amount <= GrandTotal - order.paid
      /\ UNCHANGED <<kind, result, tx, cancelling>> /\ ~OrderLocked
      /\ NewCaptured(amount, key)
  BY DEF ReceiveNew, MayReceive
<1>2. MoneyOK' /\ Kept /\ (Taken(First)' => Taken(First))
  BY <1>1, WrittenCaptures
<1>3. /\ TxFewer /\ tx' \in [Client -> Hooks \cup Receives \cup {Idle}]
      /\ cancelling' \in BOOLEAN
  BY <1>1 DEF Inv, AskedOK, AskedType, TxFewer
<1>4. \A c \in Client : ~Receiving(c)'
  BY <1>1, Unlocked DEF Receiving
<1> QED
  BY <1>1, <1>2, <1>3, <1>4, AskedLeft

LEMMA ReceiveOrderStep ==
  ASSUME Inv, NEW c \in Client, NEW method \in Method, NEW amount \in 1 .. GrandTotal,
         NEW key \in Key \cup {NoKey}, ReceiveOrder(c, method, amount, key)
  PROVE  Good
<1>1. PICK p \in Waiting(method) :
        tx' = [tx EXCEPT
                 ![c] = [kind |-> "receive", payment |-> p, amount |-> amount,
                         key |-> key]]
  BY DEF ReceiveOrder
<1> DEFINE x == [kind |-> "receive", payment |-> p, amount |-> amount, key |-> key]
<1>2. /\ x \in Receives /\ x.kind = "receive" /\ x.amount = amount /\ x.key = key
  BY <1>1 DEF Receives, Waiting
<1>3. tx' = [tx EXCEPT ![c] = x]
  BY <1>1
<1> HIDE DEF x
<1>4. /\ ~PaymentKeyed(key) /\ amount <= GrandTotal - order.paid
      /\ UNCHANGED <<money, kind, result, cancelling>>
      /\ \A d \in Client : ~Receiving(d)
  BY Unlocked DEF ReceiveOrder, MayReceive
<1>5. MoneyOK' /\ Kept /\ Unasked /\ (\A q \in Payment : Taken(q)' = Taken(q))
  BY <1>4, SameMoney DEF Inv
<1>6. /\ tx' \in [Client -> Hooks \cup Receives \cup {Idle}] /\ tx'[c] = x
      /\ \A d \in Client : d # c =>
           /\ tx'[d] = tx[d]
           /\ Hooking(d, {"event"})' = Hooking(d, {"event"})
           /\ Settling(d)' = Settling(d)
           /\ AtOrder(d)' = AtOrder(d)
           /\ Receiving(d)' = Receiving(d)
  BY <1>2, <1>3, OneTx DEF Inv, AskedOK
<1>7. ~Hooking(c, {"event"})' /\ ~Settling(c)' /\ ~AtOrder(c)'
  BY <1>2, <1>6 DEF Settling, AtOrder, Hooking
<1>8. AskedType'
  BY <1>4, <1>6 DEF Inv, AskedOK, AskedType
<1>9. HooksInv'
  BY <1>4, <1>5, <1>6, <1>7, PaymentsAssumption DEF Inv, AskedOK, HooksInv
<1>10. ReceiptsInv'
  <2>1. ~PaymentKeyed(key)'
    BY <1>4 DEF PaymentKeyed, money
  <2>2. order'.paid = order.paid
    BY <1>4 DEF money
  <2> QED
    BY <1>2, <1>4, <1>6, <2>1, <2>2 DEF ReceiptsInv
<1> QED
  BY <1>4, <1>5, <1>8, <1>9, <1>10 DEF Good, Inv, AskedOK, Settled

LEMMA ReceivePaymentStep ==
  ASSUME Inv, NEW c \in Client, ReceivePayment(c)
  PROVE  Good
<1> DEFINE p == tx[c].payment
<1>1. /\ Receiving(c) /\ tx[c] \in Receives /\ tx' = [tx EXCEPT ![c] = Idle]
      /\ UNCHANGED <<kind, result, cancelling>> /\ ~PaymentLocked(p)
      /\ tx \in [Client -> Hooks \cup Receives \cup {Idle}]
      /\ payment \in PaymentTable
  BY DEF ReceivePayment, Receiving, Inv, AskedOK, AskedType, Hooks, Receives,
         MoneyOK, MoneyType, PaymentTable
<1>2. /\ p \in Payment /\ tx[c].amount \in 1 .. GrandTotal
      /\ tx[c].key \in Key \cup {NoKey}
  BY <1>1 DEF Receives
<1>3. tx[c].amount <= GrandTotal - order.paid /\ ~PaymentKeyed(tx[c].key)
  BY <1>1 DEF Inv, AskedOK, ReceiptsInv
<1>4. /\ TxFewer /\ tx' \in [Client -> Hooks \cup Receives \cup {Idle}] /\ tx'[c] = Idle
      /\ \A d \in Client : d # c => tx'[d] = tx[d]
      /\ cancelling' \in BOOLEAN
  BY <1>1 DEF Inv, AskedOK, AskedType, TxFewer
<1>5. \A d \in Client : ~Receiving(d)'
  <2>1. \A d \in Client : Receiving(d) => d = c
    BY <1>1 DEF Inv, AskedOK, ReceiptsInv
  <2> QED
    BY <1>4, <2>1 DEF Receiving
<1>6. CASE /\ payment[p].status = "PENDING" /\ payment[p].amount = tx[c].amount
           /\ Capture(p, [payment EXCEPT ![p].status = "CAPTURED", ![p].key = tx[c].key])
  <2> DEFINE row == [payment[p] EXCEPT !.status = "CAPTURED", !.key = tx[c].key]
  <2>1. p = First /\ ~Taken(First)
    BY <1>2, <1>6 DEF Inv, MoneyOK, RowsInv, Taken, CAPTURED_STATES
  <2>2. /\ row \in PaymentRow /\ row.status = "CAPTURED" /\ row.key = tx[c].key
    <3>1. payment[p] \in PaymentRow
      BY <1>1, <1>2 DEF PaymentTable
    <3>2. tx[c].key \in Key \cup {NoKey}
      BY <1>2
    <3> DEFINE k == tx[c].key
    <3> HIDE DEF k
    <3>3. /\ [payment[p] EXCEPT !.status = "CAPTURED", !.key = k] \in PaymentRow
          /\ [payment[p] EXCEPT !.status = "CAPTURED", !.key = k].status = "CAPTURED"
          /\ [payment[p] EXCEPT !.status = "CAPTURED", !.key = k].key = k
      BY <3>1, <3>2 DEF PaymentRow, CAPTURED_STATES, k
    <3> QED
      BY <3>3 DEF k
  <2>3. Capture(p, [payment EXCEPT ![p] = row])
    <3>1. [payment EXCEPT ![p].status = "CAPTURED", ![p].key = tx[c].key]
            = [payment EXCEPT ![p] = row]
      BY <1>1, <1>2 DEF PaymentTable
    <3>2. Capture(p, [payment EXCEPT ![p].status = "CAPTURED", ![p].key = tx[c].key])
      BY <1>6
    <3> QED
      BY <3>1, <3>2
  <2> HIDE DEF row, p
  <2>4. Capturing(p, row)
    BY <1>2, <1>3, <2>1, <2>2, <2>3 DEF Capturing
  <2>5. MoneyOK' /\ Kept
    BY <2>4, CapturingKeeps DEF Inv
  <2>6. \A d \in Client : ~AtOrder(d)
    <3>1. \A d \in Client : AtOrder(d) => tx[d].payment = First
      BY HookIs DEF AtOrder
    <3> QED
      BY <1>1, <2>1, <3>1, LocksAre
  <2>7. \A d \in Client : ~AtOrder(d)'
    BY <1>4, <2>6 DEF AtOrder, Hooking
  <2> QED
    BY <1>1, <1>4, <1>5, <2>5, <2>7, AskedLeft
<1>7. CASE NewCaptured(tx[c].amount, tx[c].key)
  <2>1. MoneyOK' /\ Kept /\ (Taken(First)' => Taken(First))
    BY <1>2, <1>3, <1>7, WrittenCaptures
  <2> QED
    BY <1>1, <1>4, <1>5, <2>1, AskedLeft
<1>8. CASE UNCHANGED money
  <2>1. MoneyOK' /\ Kept /\ (\A q \in Payment : Taken(q)' = Taken(q))
    BY <1>8, SameMoney DEF Inv
  <2> QED
    BY <1>1, <1>4, <1>5, <2>1, AskedLeft, PaymentsAssumption
<1> QED
  BY <1>6, <1>7, <1>8 DEF ReceivePayment

(* What takes the order's lock alone and leaves the requests as they are.  *)
LEMMA OrderAlone ==
  ASSUME Inv, MoneyOK', Kept, UNCHANGED <<kind, result, tx>>,
         cancelling' \in BOOLEAN,
         Taken(First)' => Taken(First), Unasked
  PROVE  Good
<1>1. TxFewer /\ tx' \in [Client -> Hooks \cup Receives \cup {Idle}]
  BY DEF Inv, AskedOK, AskedType, TxFewer
<1> QED
  BY <1>1, AskedLeft

LEMMA RefundStep ==
  ASSUME Inv, NEW amount, NEW key, NEW status, Refunding(amount, key, status),
         UNCHANGED <<kind, result, tx>>,
         cancelling' \in BOOLEAN
  PROVE  Good
<1>1. /\ MoneyOK' /\ Kept /\ order'.paid = order.paid
      /\ \A q \in Payment : Taken(q)' = Taken(q) /\ payment'[q].key = payment[q].key
  BY RefundingKeeps DEF Inv
<1>2. Taken(First)' => Taken(First)
  BY <1>1, PaymentsAssumption
<1>3. Unasked
  BY <1>1 DEF Unasked
<1> QED
  BY <1>1, <1>2, <1>3, OrderAlone

LEMMA RestatingStep ==
  ASSUME Inv, Restating, UNCHANGED <<kind, result, tx>>,
         cancelling' \in BOOLEAN
  PROVE  Good
<1>1. MoneyOK' /\ Kept /\ order'.paid = order.paid /\ payment' = payment
  BY RestatingKeeps DEF Inv
<1>2. Unasked /\ (Taken(First)' => Taken(First))
  BY <1>1 DEF Unasked, Taken
<1> QED
  BY <1>1, <1>2, OrderAlone

LEMMA CancelLockedStep ==
  ASSUME Inv, CancelLocked
  PROVE  Good
<1>1. /\ UNCHANGED <<kind, result, tx>> /\ cancelling' = FALSE
     
      /\ order \in [status : Status, paid : Nat, refunded : Nat]
  BY DEF CancelLocked, Inv, AskedOK, AskedType, MoneyOK, MoneyType
<1>2. CASE UNCHANGED money
  <2>1. Restating
    BY <1>1, <1>2 DEF Restating, money
  <2> QED
    BY <1>1, <2>1, RestatingStep
<1>3. CASE /\ order' = [order EXCEPT !.status = "CANCELLED"]
           /\ UNCHANGED <<payment, refunds, balance, posted>>
  <2>1. Restating
    BY <1>1, <1>3 DEF Restating, Status
  <2> QED
    BY <1>1, <2>1, RestatingStep
<1>4. CASE /\ order.paid - order.refunded > 0
           /\ Len(refunds) < MaxRefunds
           /\ Refund(order.paid - order.refunded, NoKey, "CANCELLED", TRUE)
  <2>1. Refunding(order.paid - order.refunded, NoKey, "CANCELLED")
    <3>1. \E sameWay \in BOOLEAN :
            Refund(order.paid - order.refunded, NoKey, "CANCELLED", sameWay)
      BY <1>4
    <3> QED
      BY <1>1, <1>4, <3>1 DEF Refunding, Status
  <2> QED
    BY <1>1, <2>1, RefundStep
<1> QED
  BY <1>2, <1>3, <1>4 DEF CancelLocked

LEMMA StaffStep ==
  ASSUME Inv, Staff
  PROVE  Good
<1>1. /\ order \in [status : Status, paid : Nat, refunded : Nat]
      /\ cancelling \in BOOLEAN
  BY DEF Inv, AskedOK, AskedType, MoneyOK, MoneyType
<1>2. ASSUME NEW amount \in 1 .. GrandTotal, NEW key \in Key \cup {NoKey},
             RefundOrder(amount, key)
      PROVE  Good
  <2>1. Refunding(amount, key, order.status)
    <3>1. \E sameWay \in BOOLEAN : Refund(amount, key, order.status, sameWay)
      BY <1>2 DEF RefundOrder
    <3> QED
      BY <1>1, <1>2, <3>1, PaymentsAssumption DEF RefundOrder, Refunding
  <2> QED
    BY <1>1, <1>2, <2>1, RefundStep DEF RefundOrder
<1>3. ASSUME CancelFound PROVE Good
  <2>1. Restating
    BY <1>1, <1>3 DEF CancelFound, Restating, money
  <2> QED
    BY <1>1, <1>3, <2>1, RestatingStep DEF CancelFound
<1>4. ASSUME Advance PROVE Good
  <2>1. Restating
    BY <1>1, <1>4 DEF Advance, Restating, Status
  <2> QED
    BY <1>1, <1>4, <2>1, RestatingStep DEF Advance
<1> QED
  BY <1>2, <1>3, <1>4, ReceiveNewStep, ReceiveOrderStep, ReceivePaymentStep,
     CancelLockedStep DEF Staff

LEMMA RestStep ==
  ASSUME Inv,
         \/ SweepExpire \/ Restart
         \/ \E c \in Client : DeadlockAbort(c)
         \/ UNCHANGED vars
  PROVE  Good
<1>1. /\ order \in [status : Status, paid : Nat, refunded : Nat]
      /\ cancelling \in BOOLEAN
      /\ tx \in [Client -> Hooks \cup Receives \cup {Idle}]
  BY DEF Inv, AskedOK, AskedType, MoneyOK, MoneyType
<1>2. CASE UNCHANGED vars
  <2>1. Restating
    BY <1>1, <1>2 DEF vars, Restating
  <2> QED
    BY <1>1, <1>2, <2>1, RestatingStep DEF vars
<1>3. CASE SweepExpire
  <2>1. Restating
    BY <1>1, <1>3 DEF SweepExpire, Restating, Status
  <2> QED
    BY <1>1, <1>3, <2>1, RestatingStep DEF SweepExpire
<1>4. ASSUME UNCHANGED <<money, kind, result>>, TxFewer,
             tx' \in [Client -> Hooks \cup Receives \cup {Idle}],
             cancelling' \in BOOLEAN
      PROVE  Good
  <2>1. MoneyOK' /\ Kept /\ Unasked /\ (\A q \in Payment : Taken(q)' = Taken(q))
    BY <1>4, SameMoney DEF Inv
  <2> QED
    BY <1>4, <2>1, AskedLeft, PaymentsAssumption
<1>5. CASE Restart
  BY <1>1, <1>4, <1>5 DEF Restart, TxFewer
<1>6. ASSUME NEW c \in Client, DeadlockAbort(c) PROVE Good
  BY <1>1, <1>4, <1>6 DEF DeadlockAbort, TxFewer
<1> QED
  BY <1>2, <1>3, <1>5, <1>6

LEMMA NextStep == Inv /\ [Next]_vars => Good
BY HookFindStep, HookEventStep, HookCaptureStep, HookCommitStep, HookFailStep,
   HookFailedStep, StaffStep, RestStep DEF Next, Webhook

LEMMA InitInv == Init => Inv
<1> SUFFICES ASSUME Init PROVE Inv
  OBVIOUS
<1>1. PICK method \in Method :
       /\ order = [status |-> IF method = "COD" THEN "CONFIRMED" ELSE "PENDING",
                   paid |-> 0, refunded |-> 0]
       /\ payment =
            [p \in Payment |->
               [status |-> IF p = First THEN "PENDING" ELSE "NONE",
                method |-> method,
                amount |-> IF p = First THEN GrandTotal ELSE 0,
                refunded |-> 0, key |-> NoKey]]
  BY DEF Init
<1>2. /\ refunds = <<>> /\ balance = 0 /\ posted = {}
      /\ kind \in [Event -> {"capture", "failure", "mismatch"}]
      /\ result = [e \in Event |-> "UNSEEN"]
      /\ tx = [c \in Client |-> Idle] /\ cancelling = FALSE
  BY DEF Init
<1>3. First \in Payment /\ GrandTotal \in Nat \ {0} /\ MaxRefunds \in Nat
  BY PaymentsAssumption
<1>4. \A p \in Payment : /\ payment[p] \in PaymentRow /\ ~Taken(p)
                         /\ payment[p].key = NoKey
                         /\ payment[p].status = IF p = First THEN "PENDING" ELSE "NONE"
  BY <1>1, <1>3 DEF PaymentRow, Taken, CAPTURED_STATES
<1>5. payment \in PaymentTable
  BY <1>1, <1>4 DEF PaymentTable
<1>6. order \in [status : Status, paid : Nat, refunded : Nat]
  BY <1>1 DEF Status
<1>7. MoneyType
  BY <1>2, <1>5, <1>6 DEF MoneyType, PaymentTable
<1>8. RowsInv
  BY <1>3, <1>4 DEF RowsInv
<1>9. CapturedSum(payment) = 0
  <2>1. CapturedOf(payment) = {}
    BY <1>4 DEF CapturedOf, Taken
  <2> QED
    BY <2>1, SumEmpty, CapturedSumIs
<1>10. RefundedSum(refunds) = 0 /\ Len(refunds) = 0
  <2>1. refunds \in Seq(RefundRow) /\ Len(refunds) = 0 /\ 1 .. Len(refunds) = {}
    BY <1>2
  <2> QED
    BY <2>1, SumEmpty, RefundedSumIs
<1>11. MoneyInv
  <2>1. PostedPayments = {} /\ PostedRefunds = {}
    BY <1>2 DEF PostedPayments, PostedRefunds
  <2>2. BookAgrees
    BY <1>2, <2>1, SumEmpty DEF BookAgrees
  <2> QED
    BY <1>1, <1>2, <1>3, <1>4, <1>9, <1>10, <2>2 DEF MoneyInv, RefundsWithinPaid
<1>12. KeyedOnce
  BY <1>2, <1>4 DEF KeyedOnce
<1>13. AskedOK
  BY <1>2 DEF AskedOK, AskedType, HooksInv, ReceiptsInv, Settling, AtOrder, Receiving, Hooking
<1> QED
  BY <1>7, <1>8, <1>11, <1>12, <1>13 DEF Inv, MoneyOK

-----------------------------------------------------------------------------
(* The theorems.                                                           *)

(* The inductive invariant: the types, what the two totals and the book    *)
(* say of the rows, and what a webhook or a receipt that waits for a lock  *)
(* may rely on.                                                            *)
THEOREM Invariant == Spec => []Inv
<1>1. Inv /\ [Next]_vars => Inv'
  BY NextStep DEF Good
<1> QED
  BY <1>1, InitInv, PTL DEF Spec

(* Every variable keeps its type.                                          *)
THEOREM TypeCorrect == Spec => []TypeOK
BY InvType, Invariant, PTL

(* The order's two totals are what its rows say, and no more is ever given *)
(* back than was taken, whichever refunds, cancels and retries met.        *)
THEOREM RefundsStayWithinPaid == Spec => []RefundsWithinPaid
<1>1. Inv => RefundsWithinPaid
  BY DEF Inv, MoneyOK, MoneyInv
<1> QED
  BY <1>1, Invariant, PTL

(* The accounts have moved by the captured payments and the refunds that   *)
(* have their entry, each once and by its own amount.                      *)
THEOREM BookAlwaysAgrees == Spec => []BookAgrees
<1>1. Inv => BookAgrees
  BY DEF Inv, MoneyOK, MoneyInv
<1> QED
  BY <1>1, Invariant, PTL

(* ... so that, with an account open at every posting, they hold the money *)
(* the order has: all it took less all it gave back.                       *)
THEOREM BookHoldsWhatIsPosted ==
  Spec => [](/\ \A p \in Payment : payment[p].status \in CAPTURED_STATES
                                     => <<"payment", p>> \in posted
             /\ \A i \in DOMAIN refunds : <<"refund", i>> \in posted
             => balance = order.paid - order.refunded)
<1> DEFINE All == /\ \A p \in Payment : payment[p].status \in CAPTURED_STATES
                                          => <<"payment", p>> \in posted
                  /\ \A i \in DOMAIN refunds : <<"refund", i>> \in posted
<1>1. Inv => (All => balance = order.paid - order.refunded)
  <2> SUFFICES ASSUME Inv, All PROVE balance = order.paid - order.refunded
    OBVIOUS
  <2>1. PostedPayments = {p \in Payment : payment[p].status \in CAPTURED_STATES}
    BY DEF PostedPayments
  <2>2. PostedRefunds = DOMAIN refunds
    BY DEF PostedRefunds
  <2>3. DOMAIN [i \in DOMAIN refunds |-> refunds[i].amount] = DOMAIN refunds
    OBVIOUS
  <2> QED
    BY <2>1, <2>2, <2>3 DEF Inv, MoneyOK, MoneyInv, BookAgrees, RefundsWithinPaid,
       CapturedSum, RefundedSum, SumFunction
<1> QED
  BY <1>1, Invariant, PTL

(* A request sent twice with one key makes one payment and one refund.     *)
THEOREM OneRowForOneKey == Spec => []KeyedOnce
<1>1. Inv => KeyedOnce
  BY DEF Inv, MoneyOK
<1> QED
  BY <1>1, Invariant, PTL

(* Money taken stays taken.                                                *)
THEOREM CapturesStay == Spec => CapturedStays
<1>1. Inv /\ [Next]_vars =>
        [\A p \in Payment :
           payment[p].status \in CAPTURED_STATES
             => payment'[p].status \in CAPTURED_STATES]_vars
  BY NextStep DEF Good, Kept, Taken
<1> QED
  BY <1>1, Invariant, PTL DEF Spec, CapturedStays

(* A capture that is answered, or about to be with nothing done, is not    *)
(* lost: checkout's payment does not wait for it.                          *)
AnswersInv ==
  /\ NoCaptureLost
  /\ \A c \in Client : Hooking(c, {"event"}) /\ tx[c].payment = NoPayment => ~Waits

(* Only an event that settles in the step can be answered too soon.        *)
LEMMA AnswersKept ==
  ASSUME AnswersInv, Inv, Good,
         \A c \in Client : Hooking(c, {"event"})' /\ tx'[c].payment = NoPayment
           => ~Waits \/ (Hooking(c, {"event"}) /\ tx[c].payment = NoPayment),
         \A e \in Event : kind'[e] = kind[e],
         \A e \in Event : kind[e] = "capture" /\ result[e] = "UNSEEN"
           => result'[e] = "UNSEEN" \/ ~Waits'
  PROVE  AnswersInv'
<1>1. Waits' => Waits
  BY DEF Good, Kept
<1>2. NoCaptureLost'
  <2> SUFFICES ASSUME NEW e \in Event, kind'[e] = "capture", result'[e] # "UNSEEN", Waits'
               PROVE  FALSE
    BY DEF NoCaptureLost, Waits
  <2>1. kind[e] = "capture" /\ result[e] # "UNSEEN"
    OBVIOUS
  <2> QED
    BY <1>1, <2>1 DEF AnswersInv, NoCaptureLost, Waits
<1>3. \A c \in Client : Hooking(c, {"event"})' /\ tx'[c].payment = NoPayment => ~Waits'
  BY <1>1 DEF AnswersInv
<1> QED
  BY <1>2, <1>3 DEF AnswersInv

LEMMA AnswersStep == AnswersInv /\ Inv /\ [Next]_vars => AnswersInv'
<1> SUFFICES ASSUME AnswersInv, Inv, [Next]_vars PROVE AnswersInv'
  OBVIOUS
<1>1. Good
  BY NextStep
<1>2. kind' = kind
  BY DEF Next, vars, Webhook, Staff, HookFind, HookEvent, HookCapture, HookCommit, HookFail,
         HookFailed, ReceiveNew, ReceiveOrder, ReceivePayment, RefundOrder, CancelFound,
         CancelLocked, Advance, SweepExpire, DeadlockAbort, Restart
<1>3. /\ tx \in [Client -> Hooks \cup Receives \cup {Idle}]
      /\ result \in [Event -> {"UNSEEN", "ignored", "amount_mismatch", "captured", "failed"}]
      /\ First \in Payment /\ NoPayment \notin Payment
  BY PaymentsAssumption DEF Inv, AskedOK, AskedType
<1>4. ASSUME NEW c \in Client, NEW e \in Event, HookFind(c, e) PROVE AnswersInv'
  <2>1. /\ tx' = [tx EXCEPT ![c] =
                    [kind |-> "hook", at |-> "event", event |-> e,
                     payment |-> IF Waits THEN First ELSE NoPayment]]
        /\ result' = result
    BY <1>4 DEF HookFind, Waits
  <2>2. \A d \in Client : Hooking(d, {"event"})' /\ tx'[d].payment = NoPayment
          => ~Waits \/ (Hooking(d, {"event"}) /\ tx[d].payment = NoPayment)
    BY <1>3, <2>1 DEF Hooking
  <2> QED
    BY <1>1, <1>2, <2>1, <2>2, AnswersKept
<1>5. ASSUME NEW c \in Client, HookEvent(c) PROVE AnswersInv'
  <2> DEFINE f == tx[c].event
  <2>1. /\ Hooking(c, {"event"}) /\ UNCHANGED money
        /\ \A d \in Client : d # c => tx'[d] = tx[d]
        /\ ~Hooking(c, {"event"})'
    <3>1. \/ tx' = [tx EXCEPT ![c] = Idle]
          \/ tx' = [tx EXCEPT ![c] = [tx[c] EXCEPT !.at = "payment"]]
      BY <1>5 DEF HookEvent
    <3>2. tx[c] \in Hooks
      BY <1>5, HookIs DEF HookEvent
    <3> QED
      BY <1>3, <1>5, <3>1, <3>2 DEF HookEvent, Hooking, Hooks
  <2>2. /\ \A g \in Event : g # f => result'[g] = result[g]
        /\ result[f] = "UNSEEN" /\ kind[f] = "capture" /\ tx[c].payment # NoPayment
             => result'[f] = "UNSEEN"
    <3>1. result' = [result EXCEPT
                      ![f] = IF result[f] # "UNSEEN" THEN result[f]
                             ELSE IF tx[c].payment = NoPayment THEN "ignored"
                             ELSE IF kind[f] = "mismatch" THEN "amount_mismatch"
                             ELSE result[f]]
      BY <1>5 DEF HookEvent
    <3> QED
      BY <1>3, <3>1
  <2>3. Waits' = Waits
    BY <2>1 DEF Waits, money
  <2>4. tx[c].payment = NoPayment => ~Waits'
    BY <2>1, <2>3 DEF AnswersInv
  <2>5. \A d \in Client : Hooking(d, {"event"})' /\ tx'[d].payment = NoPayment
          => Hooking(d, {"event"}) /\ tx[d].payment = NoPayment
    BY <2>1 DEF Hooking
  <2>6. \A g \in Event : kind[g] = "capture" /\ result[g] = "UNSEEN"
          => result'[g] = "UNSEEN" \/ ~Waits'
    BY <2>2, <2>4
  <2> QED
    BY <1>1, <1>2, <2>5, <2>6, AnswersKept
<1>6. ASSUME NEW c \in Client,
             tx' = [tx EXCEPT ![c] = Idle] \/ tx'[c].at # "event",
             \A d \in Client : d # c => tx'[d] = tx[d],
             \A g \in Event : kind[g] = "capture" /\ result[g] = "UNSEEN"
               => result'[g] = "UNSEEN" \/ ~Waits'
      PROVE  AnswersInv'
  <2>1. \A d \in Client : Hooking(d, {"event"})' /\ tx'[d].payment = NoPayment
          => Hooking(d, {"event"}) /\ tx[d].payment = NoPayment
    BY <1>3, <1>6 DEF Hooking
  <2> QED
    BY <1>1, <1>2, <1>6, <2>1, AnswersKept
<1>7. ASSUME NEW c \in Client, HookCapture(c) \/ HookFail(c) PROVE AnswersInv'
  <2>1. /\ Settling(c) /\ tx[c].payment = First /\ tx[c] \in Hooks /\ UNCHANGED money
        /\ \/ tx' = [tx EXCEPT ![c] = Idle]
           \/ tx' = [tx EXCEPT ![c] = [tx[c] EXCEPT !.at = "order"]]
    BY <1>7, HookIs DEF HookCapture, HookFail
  <2>2. /\ tx' = [tx EXCEPT ![c] = Idle] \/ tx'[c].at # "event"
        /\ \A d \in Client : d # c => tx'[d] = tx[d]
    BY <1>3, <2>1 DEF Hooks
  <2>3. result' = result \/ ~Waits'
    <3>1. CASE HookFail(c)
      BY <3>1 DEF HookFail
    <3>2. CASE HookCapture(c)
      <4>1. result' = result \/ payment[First].status \in CAPTURED_STATES
        BY <2>1, <3>2 DEF HookCapture
      <4> QED
        BY <2>1, <4>1 DEF Waits, money, CAPTURED_STATES
    <3> QED
      BY <1>7, <3>1, <3>2
  <2> QED
    BY <1>6, <2>2, <2>3
<1>8. ASSUME NEW c \in Client, HookCommit(c) \/ HookFailed(c) PROVE AnswersInv'
  <2>1. /\ AtOrder(c) /\ Settling(c) /\ tx[c].payment = First
        /\ tx' = [tx EXCEPT ![c] = Idle]
    BY <1>8, HookIs DEF HookCommit, HookFailed, AtOrder
  <2>2. ~Waits'
    <3>1. payment \in PaymentTable
      BY DEF Inv, MoneyOK, MoneyType, PaymentTable
    <3>2. \/ payment' = [payment EXCEPT ![First].status = "CAPTURED"]
          \/ payment' = [payment EXCEPT ![First].status = "FAILED"]
      BY <1>8, <2>1 DEF HookCommit, HookFailed, Capture
    <3> QED
      BY <1>3, <3>1, <3>2 DEF Waits, PaymentTable, PaymentRow
  <2> QED
    BY <1>3, <1>6, <2>1, <2>2
<1>9. ASSUME result' = result, \A d \in Client : tx'[d] = tx[d] \/ tx'[d] = Idle
                                                 \/ tx'[d].kind = "receive"
      PROVE  AnswersInv'
  <2>1. \A d \in Client : Hooking(d, {"event"})' => Hooking(d, {"event"}) /\ tx'[d] = tx[d]
    BY <1>9 DEF Hooking
  <2> QED
    BY <1>1, <1>2, <1>9, <2>1, AnswersKept
<1>10. CASE Staff
  <2>1. result' = result
    BY <1>10 DEF Staff, ReceiveNew, ReceiveOrder, ReceivePayment, RefundOrder, CancelFound,
       CancelLocked, Advance
  <2>2. ASSUME NEW c \in Client, NEW method \in Method, NEW amount \in 1 .. GrandTotal,
               NEW key \in Key \cup {NoKey}, ReceiveOrder(c, method, amount, key)
        PROVE  \A d \in Client : tx'[d] = tx[d] \/ tx'[d].kind = "receive"
    BY <1>3, <2>2 DEF ReceiveOrder
  <2>3. ASSUME NEW c \in Client, ReceivePayment(c)
        PROVE  \A d \in Client : tx'[d] = tx[d] \/ tx'[d] = Idle
    BY <1>3, <2>3 DEF ReceivePayment
  <2>4. CASE tx' = tx
    BY <1>9, <2>1, <2>4
  <2> QED
    BY <1>9, <1>10, <2>1, <2>2, <2>3, <2>4
       DEF Staff, ReceiveNew, RefundOrder, CancelFound, CancelLocked, Advance
<1>11. ASSUME NEW c \in Client, DeadlockAbort(c) PROVE AnswersInv'
  BY <1>3, <1>9, <1>11 DEF DeadlockAbort
<1>12. CASE Restart
  BY <1>9, <1>12 DEF Restart
<1>13. CASE SweepExpire \/ UNCHANGED vars
  BY <1>9, <1>13 DEF SweepExpire, vars
<1> QED
  BY <1>4, <1>5, <1>7, <1>8, <1>10, <1>11, <1>12, <1>13 DEF Next, Webhook

(* An event that says the money came is never answered while the payment   *)
(* it is about still waits, whatever deadlock, restart or other event came *)
(* between: nobody would send it again.                                    *)
THEOREM CapturesNotLost == Spec => []NoCaptureLost
<1>1. Init => AnswersInv
  BY DEF Init, AnswersInv, NoCaptureLost, Hooking
<1>2. AnswersInv => NoCaptureLost
  BY DEF AnswersInv
<1> QED
  BY <1>1, <1>2, AnswersStep, Invariant, PTL DEF Spec

(* An event is settled once, and settled as captured only when the money it*)
(* speaks of is on the order.                                              *)
THEOREM SettledEventsHold == Spec => SettledEventHolds
<1>1. Inv /\ [Next]_vars =>
        [\A e \in Event :
           /\ result[e] # "UNSEEN" => result'[e] = result[e]
           /\ result'[e] = "captured" => payment'[First].status \in CAPTURED_STATES]_vars
  BY NextStep DEF Good, Settled, Inv, AskedOK, HooksInv, Taken
<1> QED
  BY <1>1, Invariant, PTL DEF Spec, SettledEventHolds

(* An order can come to hold more than its total (business-rules 5.7 says  *)
(* never), but only by checkout's own payment, and never twice over it.    *)
THEOREM OverpaidOnlyByCheckout ==
  Spec => [](/\ order.paid <= 2 * GrandTotal
             /\ order.paid > GrandTotal => payment[First].status \in CAPTURED_STATES)
<1>1. Inv => /\ order.paid <= 2 * GrandTotal
             /\ order.paid > GrandTotal => payment[First].status \in CAPTURED_STATES
  BY PaymentsAssumption DEF Inv, MoneyOK, MoneyInv, MoneyType, Taken
<1> QED
  BY <1>1, Invariant, PTL
=============================================================================
