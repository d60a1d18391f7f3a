------------------------- MODULE Aftersales_proofs -------------------------
(***************************************************************************)
(* Proofs about Aftersales, for every order, every set of parcels and      *)
(* keys, every finite set of returns, and every number of edits and voids. *)
(*                                                                         *)
(* The steps, the money and the parcels come first; a return's refund has  *)
(* no type there, for it is a sum over lines.  What the sums are is proved *)
(* last (SumsOK), from how a step changes what came back.                  *)
(***************************************************************************)
EXTENDS Aftersales, Sums

(* A row of `ret`, but for its refund.                                     *)
Row(x) ==
  /\ x = [status |-> x.status, lines |-> x.lines, refund |-> x.refund,
          typed |-> x.typed, by |-> x.by]
  /\ x.status \in ReturnStatus \cup {"NONE"}
  /\ x.lines \in Basket
  /\ x.by \in Exchange \cup {NoExchange}

RowsOK ==
  /\ ret = [r \in Return |-> ret[r]]
  /\ \A r \in Return : Row(ret[r])
  /\ rejecting \in [Return -> {"NONE", "RETURN_REQUESTED", "OTHER"}]

(* The types of all but the refunds of returns.                            *)
Typed == OrderTypeOK /\ ParcelTypeOK /\ RowsOK /\ voids \in Nat

-----------------------------------------------------------------------------
(* A basket holds natural quantities of the order's lines.                 *)
LEMMA BasketNat ==
  ASSUME NEW lines \in Basket
  PROVE  lines \in [Line -> Nat] /\ \A l \in Line : lines[l] <= Quantity[l]
<1>1. UNION {0 .. Quantity[l] : l \in Line} \subseteq Nat
  BY SoldOrderAssumption
<1> QED
  BY <1>1 DEF Basket

LEMMA NothingBasket == Nothing \in Basket
<1>1. \A l \in Line : 0 \in 0 .. Quantity[l] /\ 0 <= Quantity[l]
  BY SoldOrderAssumption
<1> QED
  BY <1>1 DEF Nothing, Basket

(* A refund entered stays within what was paid, and enters at most the row *)
(* of its key.                                                             *)
LEMMA RefundTyped ==
  ASSUME OrderTypeOK, NEW key \in RefundKey \cup {NoKey}, NEW amount,
         NEW of \in Return \cup {NoReturn}, RefundEntered(key, amount, of)
  PROVE  /\ refunded' \in refunded .. paid
         /\ refund' \in [RefundKey -> RefundRow]
<1>1. CASE UNCHANGED <<refunded, refund>>
  BY <1>1, SoldOrderAssumption DEF OrderTypeOK
<1>2. CASE /\ amount \in 1 .. Refundable
           /\ refunded' = refunded + amount
           /\ refund' = IF key = NoKey THEN refund
                        ELSE [refund EXCEPT ![key] = [amount |-> amount, of |-> of]]
  <2>1. paid \in Nat /\ refunded \in Nat /\ amount \in Nat
    BY <1>2, SoldOrderAssumption DEF OrderTypeOK, Refundable
  <2>2. refunded' \in refunded .. paid
    BY <1>2, <2>1 DEF Refundable
  <2>3. [amount |-> amount, of |-> of] \in RefundRow
    BY <2>1 DEF RefundRow
  <2> QED
    BY <1>2, <2>2, <2>3 DEF OrderTypeOK
<1> QED
  BY <1>1, <1>2 DEF RefundEntered

(* A return paid, by its own key or the caller's.                          *)
LEMMA PayTyped ==
  ASSUME OrderTypeOK, NEW key \in RefundKey \cup {NoKey}, NEW amount,
         NEW r \in Return, PayReturn(r, amount, key)
  PROVE  /\ refunded' \in refunded .. paid
         /\ refund' \in [RefundKey -> RefundRow]
<1>1. CASE UNCHANGED <<refunded, refund>>
  BY <1>1, SoldOrderAssumption DEF OrderTypeOK
<1>2. CASE RefundEntered(IF key = NoKey THEN r ELSE key, amount, r)
  BY <1>2, RefundTyped DEF RefundKey
<1> QED
  BY <1>1, <1>2 DEF PayReturn

(* Goods that arrive are counted in natural numbers, within what was sold. *)
LEMMA ArriveTyped ==
  ASSUME OrderTypeOK, NEW lines \in Basket, NEW restock, Arrive(lines, restock)
  PROVE  back' \in [Line -> Nat] /\ shelf' \in [Line -> Nat]
<1>1. lines \in [Line -> Nat]
  BY BasketNat
<1> QED
  BY <1>1 DEF Arrive, Plus, OrderTypeOK

-----------------------------------------------------------------------------
(* What staff do to the order itself.                                      *)
LEMMA OrderTyped ==
  ASSUME OrderTypeOK, OrderNext
  PROVE  OrderTypeOK'
<1> USE DEF OrderTypeOK, money, goods
<1>1. ASSUME NEW to \in Status, Advance(to) PROVE OrderTypeOK'
  BY <1>1 DEF Advance
<1>2. CASE Pack
  BY <1>2 DEF Pack, Status
<1>3. CASE Cancel
  <2>1. CASE UNCHANGED <<refunded, refund>>
    BY <1>3, <2>1 DEF Cancel, Status
  <2>2. CASE RefundEntered(NoKey, Refundable, NoReturn)
    <3>1. refunded' \in refunded .. paid /\ refund' \in [RefundKey -> RefundRow]
      BY <2>2, RefundTyped
    <3> QED
      BY <1>3, <3>1, SoldOrderAssumption DEF Cancel, Status
  <2> QED
    BY <1>3, <2>1, <2>2 DEF Cancel
<1>4. ASSUME NEW amount \in Given \cup {GrandTotal}, TakeMoney(amount)
      PROVE  OrderTypeOK'
  <2>1. amount \in Nat
    BY SoldOrderAssumption
  <2>2. paid' \in Nat /\ refunded' \in 0 .. paid'
    BY <1>4, <2>1 DEF TakeMoney
  <2> QED
    BY <1>4, <2>2 DEF TakeMoney
<1>5. CASE GatewayCaptures
  <2>1. paid' \in Nat /\ refunded' \in 0 .. paid'
    BY <1>5, SoldOrderAssumption DEF GatewayCaptures
  <2> QED
    BY <1>5, <2>1 DEF GatewayCaptures
<1>6. CASE GatewayFails
  BY <1>6 DEF GatewayFails
<1>7. ASSUME NEW amount \in Given, NEW key \in Key \cup {NoKey},
             RefundByStaff(amount, key)
      PROVE  OrderTypeOK'
  <2>1. refunded' \in refunded .. paid /\ refund' \in [RefundKey -> RefundRow]
    BY <1>7, RefundTyped DEF RefundByStaff, RefundKey
  <2> QED
    BY <1>7, <2>1, SoldOrderAssumption DEF RefundByStaff
<1> QED
  BY <1>1, <1>2, <1>3, <1>4, <1>5, <1>6, <1>7 DEF OrderNext

(* Parcels move the order's status and nothing else of it.                 *)
LEMMA ParcelTyped ==
  ASSUME OrderTypeOK, ParcelTypeOK, ParcelNext
  PROVE  OrderTypeOK' /\ ParcelTypeOK'
<1> USE DEF OrderTypeOK, ParcelTypeOK, orderVars, money, goods
<1>1. "PENDING" \in ParcelStatus /\ Event \subseteq ParcelStatus /\ MaxEdits \in Nat
  BY ShipmentsAssumption DEF ParcelStatus
<1>2. PICK p \in Parcel :
        \/ Book(p)
        \/ \E to \in Event : RecordEvent(p, to) \/ RecordEventElsewhere(p, to)
        \/ EditFind(p)
        \/ \E elsewhere \in BOOLEAN : EditSave(p, elsewhere)
        \/ Destroy(p)
  BY DEF ParcelNext
<1>3. CASE Book(p)
  BY <1>1, <1>3 DEF Book
<1>4. ASSUME NEW to \in Event, RecordEvent(p, to)
      PROVE  OrderTypeOK' /\ ParcelTypeOK'
  <2>1. status' \in Status
    BY <1>4 DEF RecordEvent, OrderInStep, Status
  <2> QED
    BY <1>1, <1>4, <2>1 DEF RecordEvent, OrderInStep
<1>5. ASSUME NEW to \in Event, RecordEventElsewhere(p, to)
      PROVE  OrderTypeOK' /\ ParcelTypeOK'
  BY <1>1, <1>5 DEF RecordEventElsewhere
<1>6. CASE EditFind(p)
  BY <1>1, <1>6 DEF EditFind, Booked
<1>7. ASSUME NEW elsewhere \in BOOLEAN, EditSave(p, elsewhere)
      PROVE  OrderTypeOK' /\ ParcelTypeOK'
  BY <1>1, <1>7 DEF EditSave
<1>8. CASE Destroy(p)
  BY <1>8 DEF Destroy
<1> QED
  BY <1>2, <1>3, <1>4, <1>5, <1>6, <1>7, <1>8

(* What a return row keeps when one of its fields is written.              *)
LEMMA RowsWritten ==
  ASSUME RowsOK, NEW r \in Return, NEW x, Row(x), ret' = [ret EXCEPT ![r] = x],
         rejecting' \in [Return -> {"NONE", "RETURN_REQUESTED", "OTHER"}]
  PROVE  RowsOK'
<1>1. \A q \in Return : ret'[q] = IF q = r THEN x ELSE ret[q]
  BY DEF RowsOK
<1>2. ret' = [q \in Return |-> ret'[q]]
  BY DEF RowsOK
<1> QED
  BY <1>1, <1>2 DEF RowsOK

LEMMA AskedRow ==
  ASSUME NEW r \in Return, NEW lines \in Basket, NEW at \in ReturnStatus,
         NEW by \in Exchange \cup {NoExchange}
  PROVE  Row(Asked(r, lines, at, by))
BY DEF Row, Asked

LEMMA StatusRow ==
  ASSUME NEW x, Row(x), NEW at \in ReturnStatus
  PROVE  Row([x EXCEPT !.status = at])
BY DEF Row

LEMMA PaidRow ==
  ASSUME NEW x, Row(x), NEW amount, NEW typed
  PROVE  Row([status |-> "COMPLETED", lines |-> x.lines, refund |-> amount,
              typed |-> typed, by |-> x.by])
BY DEF Row, ReturnStatus

LEMMA ClosedStatus ==
  ASSUME NEW s \in Status, NEW b
  PROVE  Closed(s, b) \in Status
BY DEF Closed, Status

(* A customer's return.                                                    *)
LEMMA ReturnTyped ==
  ASSUME OrderTypeOK, RowsOK, ReturnNext
  PROVE  OrderTypeOK' /\ RowsOK'
<1> USE DEF money, goods, orderVars
<1>1. PICK r \in Return :
        \/ \E lines \in Basket : Request(r, lines)
        \/ Approve(r)
        \/ \E restock \in SUBSET In(ret[r].lines) : Receive(r, restock)
        \/ \E typed \in Given \cup {0}, key \in Key \cup {NoKey} : Complete(r, typed, key)
        \/ RejectFind(r)
        \/ RejectSave(r)
  BY DEF ReturnNext
<1>2. Row(ret[r]) /\ rejecting \in [Return -> {"NONE", "RETURN_REQUESTED", "OTHER"}]
  BY DEF RowsOK
<1>3. /\ {"REQUESTED", "APPROVED", "RECEIVED", "COMPLETED", "REJECTED"} \subseteq ReturnStatus
      /\ {"DELIVERED", "RETURN_REQUESTED"} \subseteq Status
  BY DEF ReturnStatus, Status
<1>4. ASSUME NEW lines \in Basket, Request(r, lines) PROVE OrderTypeOK' /\ RowsOK'
  <2>1. Row(Asked(r, lines, "REQUESTED", NoExchange))
    BY <1>3, AskedRow
  <2>2. RowsOK'
    BY <1>2, <1>4, <2>1, RowsWritten DEF Request
  <2> QED
    BY <1>3, <1>4, <2>2 DEF Request, OrderTypeOK, Opened
<1>5. CASE Approve(r)
  <2>1. Row([ret[r] EXCEPT !.status = "APPROVED"])
    BY <1>2, <1>3, StatusRow
  <2>2. ret' = [ret EXCEPT ![r] = [ret[r] EXCEPT !.status = "APPROVED"]]
    BY <1>5 DEF Approve
  <2>3. RowsOK'
    BY <1>2, <1>5, <2>1, <2>2, RowsWritten DEF Approve
  <2> QED
    BY <1>5, <2>3 DEF Approve, OrderTypeOK
<1>6. ASSUME NEW restock \in SUBSET In(ret[r].lines), Receive(r, restock)
      PROVE  OrderTypeOK' /\ RowsOK'
  <2>1. Row([ret[r] EXCEPT !.status = "RECEIVED"])
    BY <1>2, <1>3, StatusRow
  <2>2. ret' = [ret EXCEPT ![r] = [ret[r] EXCEPT !.status = "RECEIVED"]]
    BY <1>6 DEF Receive
  <2>3. RowsOK'
    BY <1>2, <1>6, <2>1, <2>2, RowsWritten DEF Receive
  <2>4. back' \in [Line -> Nat] /\ shelf' \in [Line -> Nat]
    BY <1>2, <1>6, ArriveTyped DEF Receive, Row
  <2> QED
    BY <1>6, <2>3, <2>4 DEF Receive, OrderTypeOK
<1>7. ASSUME NEW typed \in Given \cup {0}, NEW key \in Key \cup {NoKey},
             Complete(r, typed, key)
      PROVE  OrderTypeOK' /\ RowsOK'
  <2> DEFINE amount == IF typed = 0 THEN ret[r].refund ELSE typed
             x == [status |-> "COMPLETED", lines |-> ret[r].lines,
                   refund |-> amount, typed |-> typed # 0, by |-> ret[r].by]
  <2>1. Row(x)
    BY <1>2, PaidRow
  <2>2. ret' = [ret EXCEPT ![r] = x]
    BY <1>7 DEF Complete, RowsOK
  <2>3. RowsOK'
    <3> HIDE DEF x
    <3> QED
      BY <1>2, <1>7, <2>1, <2>2, RowsWritten DEF Complete
  <2>4. refunded' \in refunded .. paid /\ refund' \in [RefundKey -> RefundRow]
    BY <1>7, PayTyped DEF Complete, RefundKey
  <2>5. status' \in Status
    BY <1>7, ClosedStatus DEF Complete, OrderTypeOK
  <2> QED
    BY <1>7, <2>3, <2>4, <2>5, SoldOrderAssumption DEF Complete, OrderTypeOK
<1>8. CASE RejectFind(r)
  <2>1. RowsOK'
    BY <1>2, <1>8 DEF RejectFind, RowsOK
  <2> QED
    BY <1>8, <2>1 DEF RejectFind, OrderTypeOK
<1>9. CASE RejectSave(r)
  <2>1. rejecting' \in [Return -> {"NONE", "RETURN_REQUESTED", "OTHER"}]
    BY <1>2, <1>9 DEF RejectSave
  <2>2. status' \in Status
    BY <1>3, <1>9 DEF RejectSave, OrderTypeOK
  <2>3. CASE UNCHANGED ret
    BY <1>9, <2>1, <2>2, <2>3 DEF RejectSave, OrderTypeOK, RowsOK
  <2>4. CASE ret' = [ret EXCEPT ![r].status = "REJECTED"]
    <3>1. Row([ret[r] EXCEPT !.status = "REJECTED"])
      BY <1>2, <1>3, StatusRow
    <3>2. ret' = [ret EXCEPT ![r] = [ret[r] EXCEPT !.status = "REJECTED"]]
      BY <2>4
    <3>3. RowsOK'
      BY <2>1, <3>1, <3>2, RowsWritten
    <3> QED
      BY <1>9, <2>2, <3>3 DEF RejectSave, OrderTypeOK
  <2> QED
    BY <1>9, <2>3, <2>4 DEF RejectSave
<1> QED
  BY <1>1, <1>4, <1>5, <1>6, <1>7, <1>8, <1>9

(* A return over the counter.                                              *)
LEMMA CounterReturnTyped ==
  ASSUME OrderTypeOK, RowsOK, NEW r \in Return, NEW lines \in Basket, NEW restock,
         NEW key \in RefundKey \cup {NoKey}, NEW by \in Exchange \cup {NoExchange},
         CounterReturned(r, lines, restock, key, by)
  PROVE  OrderTypeOK' /\ RowsOK'
<1> DEFINE row == Asked(r, lines, "COMPLETED", by)
<1>1. Row(row)
  BY AskedRow DEF ReturnStatus
<1>2. RowsOK'
  <2> HIDE DEF row
  <2>1. ret' = [ret EXCEPT ![r] = row] /\ rejecting' = rejecting
    BY DEF CounterReturned, row
  <2> QED
    BY <1>1, <2>1, RowsWritten DEF RowsOK
<1>3. back' \in [Line -> Nat] /\ shelf' \in [Line -> Nat]
  BY ArriveTyped DEF CounterReturned
<1>4. refunded' \in refunded .. paid /\ refund' \in [RefundKey -> RefundRow]
  BY PayTyped DEF CounterReturned
<1>5. status' \in Status
  <2>1. Opened \in Status
    BY DEF Opened, OrderTypeOK, Status
  <2> QED
    BY <2>1, ClosedStatus DEF CounterReturned
<1> QED
  BY <1>2, <1>3, <1>4, <1>5, SoldOrderAssumption DEF CounterReturned, OrderTypeOK

LEMMA CounterTyped ==
  ASSUME OrderTypeOK, RowsOK, voids \in Nat, CounterNext
  PROVE  OrderTypeOK' /\ RowsOK' /\ voids' \in Nat
<1>1. ASSUME NEW r \in Return, NEW lines \in Basket, NEW restock \in SUBSET In(lines),
             PosReturn(r, lines, restock)
      PROVE  OrderTypeOK' /\ RowsOK' /\ voids' \in Nat
  <2>1. CounterReturned(r, lines, restock, NoKey, NoExchange)
    BY <1>1 DEF PosReturn
  <2> QED
    BY <2>1, CounterReturnTyped DEF CounterReturned
<1>2. ASSUME NEW r \in Return, NEW lines \in Basket, NEW restock \in SUBSET In(lines),
             NEW key \in Exchange, ExchangeAt(key, r, lines, restock)
      PROVE  OrderTypeOK' /\ RowsOK' /\ voids' \in Nat
  <2>1. CounterReturned(r, lines, restock, key, key)
    BY <1>2 DEF ExchangeAt
  <2>2. key \in RefundKey
    BY DEF RefundKey
  <2> QED
    BY <2>1, <2>2, CounterReturnTyped DEF CounterReturned
<1>3. CASE VoidFind
  BY <1>3 DEF VoidFind, orderVars, money, goods, returnVars, OrderTypeOK, RowsOK
<1>4. CASE VoidLocked
  <2>1. voids' \in Nat /\ RowsOK'
    BY <1>4 DEF VoidLocked, returnVars, RowsOK
  <2>2. shelf' \in [Line -> Nat]
    <3>1. shelf' = [l \in Line |-> shelf[l] + Quantity[l]]
      BY <1>4 DEF VoidLocked, Plus
    <3>2. shelf \in [Line -> Nat] /\ \A l \in Line : Quantity[l] \in Nat
      BY SoldOrderAssumption DEF OrderTypeOK
    <3> QED
      BY <3>1, <3>2
  <2>3. refunded' \in refunded .. paid /\ refund' \in [RefundKey -> RefundRow]
    <3>1. CASE UNCHANGED <<refunded, refund>>
      BY <3>1, SoldOrderAssumption DEF OrderTypeOK
    <3>2. CASE RefundEntered(NoKey, Refundable, NoReturn)
      BY <3>2, RefundTyped
    <3> QED
      BY <1>4, <3>1, <3>2 DEF VoidLocked
  <2> QED
    <3>1. /\ status' = "CANCELLED" /\ committed' = FALSE
          /\ channel' = channel /\ paid' = paid /\ back' = back
          /\ waiting' = waiting
      BY <1>4 DEF VoidLocked
    <3>2. refunded' \in 0 .. paid'
      BY <2>3, <3>1, SoldOrderAssumption DEF OrderTypeOK
    <3> QED
      BY <2>1, <2>2, <2>3, <3>1, <3>2 DEF OrderTypeOK, Status
<1> QED
  BY <1>1, <1>2, <1>3, <1>4 DEF CounterNext

-----------------------------------------------------------------------------
LEMMA InitTyped == ASSUME Init PROVE Typed
<1>1. OrderTypeOK
  <2>1. NotRefunded \in RefundRow
    BY DEF NotRefunded, RefundRow
  <2>2. /\ channel \in {"ONLINE", "POS"}
        /\ status \in {"CONFIRMED", "DELIVERED"}
        /\ committed \in BOOLEAN /\ waiting \in BOOLEAN
        /\ paid \in {0, GrandTotal} /\ refunded = 0
        /\ refund = [k \in RefundKey |-> NotRefunded]
        /\ back = [l \in Line |-> 0] /\ shelf = [l \in Line |-> 0]
    BY DEF Init, OrderInit
  <2>3. paid \in Nat /\ refunded \in 0 .. paid
    BY <2>2, SoldOrderAssumption
  <2> QED
    BY <2>1, <2>2, <2>3 DEF OrderTypeOK, Status
<1>2. ParcelTypeOK
  BY ShipmentsAssumption DEF Init, ParcelInit, ParcelTypeOK
<1>3. RowsOK
  <2>1. Row(NoRow)
    BY NothingBasket DEF Row, NoRow
  <2> HIDE DEF Row
  <2>2. ret = [r \in Return |-> NoRow] /\ rejecting = [r \in Return |-> "NONE"]
    BY DEF Init, ReturnInit
  <2> QED
    BY <2>1, <2>2 DEF RowsOK
<1> QED
  BY <1>1, <1>2, <1>3 DEF Init, CounterInit, Typed

LEMMA StepTyped == ASSUME Typed, [Next]_vars PROVE Typed'
<1> USE DEF Typed
<1>1. CASE OrderNext /\ UNCHANGED <<parcelVars, returnVars, voids>>
  BY <1>1, OrderTyped DEF parcelVars, returnVars, ParcelTypeOK, RowsOK
<1>2. CASE ParcelNext /\ UNCHANGED <<returnVars, voids>>
  BY <1>2, ParcelTyped DEF returnVars, RowsOK
<1>3. CASE ReturnNext /\ UNCHANGED <<parcelVars, voids>>
  BY <1>3, ReturnTyped DEF parcelVars, ParcelTypeOK
<1>4. CASE CounterNext /\ UNCHANGED parcelVars
  BY <1>4, CounterTyped DEF parcelVars, ParcelTypeOK
<1>5. CASE UNCHANGED vars
  BY <1>5 DEF vars, orderVars, money, goods, parcelVars, returnVars,
              OrderTypeOK, ParcelTypeOK, RowsOK
<1> QED
  BY <1>1, <1>2, <1>3, <1>4, <1>5 DEF Next

(* Whatever happens to an order, what it shows as refunded is within what  *)
(* was paid, and its parcels and returns are in a status they can be in:   *)
(* the order row of order-writes.service.ts, order-payments.service.ts and *)
(* returns.service.ts.                                                     *)
THEOREM TypesKept == Spec => []Typed
BY InitTyped, StepTyped, PTL DEF Spec

-----------------------------------------------------------------------------
(* CancelledKeepsNothing of one step; and a payment that no longer waits   *)
(* does not wait again.                                                    *)
Kept ==
  /\ status # "CANCELLED" /\ status' = "CANCELLED" => refunded' = paid'
  /\ status = "CANCELLED" => \/ paid' - refunded' <= paid - refunded
                             \/ waiting /\ ~waiting' /\ paid' = paid + GrandTotal
  /\ waiting' => waiting

(* What is held when more is refunded, and when it is nothing.             *)
LEMMA HoldsLess ==
  ASSUME NEW p \in Int, NEW a \in Int, NEW b \in Int, a <= b
  PROVE  p - b <= p - a
OBVIOUS

LEMMA HoldsNothing ==
  ASSUME NEW p \in Int, NEW a \in Int, p - a <= 0, a <= p
  PROVE  a = p
OBVIOUS

(* A step that takes no money, whatever it refunds.                        *)
LEMMA KeptByRefund ==
  ASSUME OrderTypeOK, UNCHANGED <<paid, waiting>>, refunded' \in refunded .. paid,
         status' = "CANCELLED" => status = "CANCELLED" \/ refunded' = paid
  PROVE  Kept
<1>1. paid \in Int /\ refunded \in Int /\ refunded' \in Int
  BY SoldOrderAssumption DEF OrderTypeOK
<1>2. paid' = paid /\ refunded <= refunded'
  OBVIOUS
<1>3. status # "CANCELLED" /\ status' = "CANCELLED" => refunded' = paid'
  BY <1>2
<1>4. paid' - refunded' <= paid - refunded
  <2>1. paid - refunded' <= paid - refunded
    BY <1>1, <1>2, HoldsLess
  <2> QED
    BY <1>2, <2>1
<1>5. waiting' => waiting
  OBVIOUS
<1> QED
  BY <1>3, <1>4, <1>5 DEF Kept

(* What staff, the gateway, couriers, customers and the till do.           *)
LEMMA OrderKept ==
  ASSUME OrderTypeOK, OrderNext
  PROVE  Kept
<1> USE DEF money, goods
<1>1. paid \in Nat /\ refunded \in 0 .. paid /\ refunded \in refunded .. paid
  BY DEF OrderTypeOK
<1>2. ASSUME NEW to \in Status, Advance(to) PROVE Kept
  BY <1>1, <1>2, KeptByRefund DEF Advance
<1>3. CASE Pack
  BY <1>1, <1>3, KeptByRefund DEF Pack
<1>4. CASE Cancel
  <2>1. CASE paid = 0
    BY <1>1, <1>4, <2>1, KeptByRefund DEF Cancel
  <2>2. CASE paid # 0
    <3>1. refunded' = refunded + (paid - refunded) /\ UNCHANGED <<paid, waiting>>
      BY <1>4, <2>2 DEF Cancel, RefundEntered, Refundable
    <3>2. refunded' = paid /\ refunded' \in refunded .. paid
      BY <1>1, <3>1
    <3> QED
      BY <3>1, <3>2, KeptByRefund
  <2> QED
    BY <2>1, <2>2
<1>5. ASSUME NEW amount, TakeMoney(amount) PROVE Kept
  BY <1>5 DEF TakeMoney, OWES_NOTHING, Kept
<1>6. CASE GatewayCaptures
  BY <1>6 DEF GatewayCaptures, Kept
<1>7. CASE GatewayFails
  BY <1>1, <1>7 DEF GatewayFails, Kept
<1>8. ASSUME NEW amount \in Given, NEW key \in Key \cup {NoKey},
             RefundByStaff(amount, key)
      PROVE  Kept
  <2>1. refunded' \in refunded .. paid
    BY <1>8, RefundTyped DEF RefundByStaff, RefundKey
  <2> QED
    BY <1>8, <2>1, KeptByRefund DEF RefundByStaff
<1> QED
  BY <1>2, <1>3, <1>4, <1>5, <1>6, <1>7, <1>8 DEF OrderNext

LEMMA ParcelKept ==
  ASSUME OrderTypeOK, ParcelNext
  PROVE  Kept
<1> USE DEF orderVars, money, goods
<1>1. refunded \in refunded .. paid
  BY DEF OrderTypeOK
<1>2. ASSUME NEW p \in Parcel, NEW to \in Event, RecordEvent(p, to) PROVE Kept
  <2>1. UNCHANGED <<paid, waiting, refunded>>
    BY <1>2 DEF RecordEvent, OrderInStep
  <2>2. status' = "CANCELLED" => status = "CANCELLED"
    BY <1>2 DEF RecordEvent, OrderInStep
  <2> QED
    BY <1>1, <2>1, <2>2, KeptByRefund
<1>3. ASSUME NEW p \in Parcel,
             \/ Book(p)
             \/ \E to \in Event : RecordEventElsewhere(p, to)
             \/ EditFind(p)
             \/ \E elsewhere \in BOOLEAN : EditSave(p, elsewhere)
             \/ Destroy(p)
      PROVE  Kept
  <2>1. UNCHANGED <<paid, waiting, refunded, status>>
    BY <1>3 DEF Book, RecordEventElsewhere, EditFind, EditSave, Destroy
  <2> QED
    BY <1>1, <2>1, KeptByRefund
<1> QED
  BY <1>2, <1>3 DEF ParcelNext

LEMMA ReturnKept ==
  ASSUME OrderTypeOK, ReturnNext
  PROVE  Kept
<1> USE DEF orderVars, money, goods
<1>1. refunded \in refunded .. paid
  BY DEF OrderTypeOK
<1>2. ASSUME NEW r \in Return,
             \/ \E lines \in Basket : Request(r, lines)
             \/ Approve(r)
             \/ RejectFind(r)
             \/ \E restock \in SUBSET In(ret[r].lines) : Receive(r, restock)
             \/ RejectSave(r)
      PROVE  Kept
  <2>1. UNCHANGED <<paid, waiting, refunded>>
    BY <1>2 DEF Request, Approve, RejectFind, Receive, RejectSave
  <2>2. status' = "CANCELLED" => status = "CANCELLED"
    BY <1>2 DEF Request, Opened, Approve, RejectFind, Receive, RejectSave
  <2> QED
    BY <1>1, <2>1, <2>2, KeptByRefund
<1>3. ASSUME NEW r \in Return, NEW typed, NEW key \in Key \cup {NoKey},
             Complete(r, typed, key)
      PROVE  Kept
  <2>1. status' = "CANCELLED" => status = "CANCELLED"
    BY <1>3 DEF Complete, Closed
  <2>2. refunded' \in refunded .. paid
    BY <1>3, PayTyped DEF Complete, RefundKey
  <2> QED
    BY <1>3, <2>1, <2>2, KeptByRefund DEF Complete
<1> QED
  BY <1>2, <1>3 DEF ReturnNext

LEMMA CounterKept ==
  ASSUME OrderTypeOK, CounterNext
  PROVE  Kept
<1> USE DEF orderVars, money, goods
<1>1. paid \in Nat /\ refunded \in 0 .. paid /\ refunded \in refunded .. paid
  BY DEF OrderTypeOK
<1>2. ASSUME NEW r \in Return, NEW lines, NEW restock,
             NEW key \in RefundKey \cup {NoKey}, NEW by,
             CounterReturned(r, lines, restock, key, by)
      PROVE  Kept
  <2>1. status' = "CANCELLED" => status = "CANCELLED"
    BY <1>2 DEF CounterReturned, Closed, Opened
  <2>2. refunded' \in refunded .. paid
    BY <1>2, PayTyped DEF CounterReturned
  <2> QED
    BY <1>2, <2>1, <2>2, KeptByRefund DEF CounterReturned
<1>3. CASE VoidFind
  BY <1>1, <1>3, KeptByRefund DEF VoidFind
<1>4. CASE VoidLocked
  <2>1. refunded' = paid /\ UNCHANGED <<paid, waiting>>
    BY <1>1, <1>4 DEF VoidLocked, RefundEntered, Refundable
  <2>2. refunded' \in refunded .. paid
    BY <1>1, <2>1
  <2> QED
    BY <2>1, <2>2, KeptByRefund
<1> QED
  BY <1>2, <1>3, <1>4 DEF CounterNext, PosReturn, ExchangeAt, RefundKey

LEMMA StepKept == ASSUME Typed, [Next]_vars PROVE Kept
<1>1. OrderTypeOK
  BY DEF Typed
<1>2. CASE UNCHANGED vars
  <2>1. refunded \in refunded .. paid
    BY <1>1 DEF OrderTypeOK
  <2> QED
    BY <1>1, <1>2, <2>1, KeptByRefund DEF vars, orderVars, money
<1> QED
  BY <1>1, <1>2, OrderKept, ParcelKept, ReturnKept, CounterKept DEF Next

(* Cancelling an order or voiding a sale gives back all that is held of    *)
(* it, whoever refunds, voids, cancels or receives meanwhile (cancelFound, *)
(* void, refundOrder and receive); and once cancelled it holds no more     *)
(* than that, but for the whole of the payment that waited for the gateway *)
(* (capture).                                                              *)
THEOREM HeldNothing == Spec => CancelledKeepsNothing
<1>1. Typed /\ [Next]_vars =>
        [/\ status # "CANCELLED" /\ status' = "CANCELLED" => refunded' = paid'
         /\ status = "CANCELLED" =>
              \/ paid' - refunded' <= paid - refunded
              \/ waiting /\ ~waiting' /\ paid' = paid + GrandTotal]_orderVars
  BY StepKept DEF Kept
<1> QED
  BY <1>1, TypesKept, PTL DEF Spec, CancelledKeepsNothing

NoneHeld == ~waiting /\ (status = "CANCELLED" => refunded = paid)

(* Where no payment waits for the gateway - a sale at the counter, an      *)
(* order paid at the door or already paid - nothing is held of a cancelled *)
(* order, ever: what keeps money of one is capture's alone.                *)
THEOREM HeldNothingWithoutGateway ==
  Spec /\ ~waiting => [](status = "CANCELLED" => refunded = paid)
<1>1. Init /\ ~waiting => NoneHeld
  BY DEF Init, OrderInit, NoneHeld
<1>2. Typed /\ Typed' /\ NoneHeld /\ [Next]_vars => NoneHeld'
  <2> SUFFICES ASSUME Typed, Typed', NoneHeld, [Next]_vars
               PROVE  NoneHeld'
    OBVIOUS
  <2>1. paid \in Int /\ refunded \in Int /\ paid' \in Int /\ refunded' \in 0 .. paid'
    BY DEF Typed, OrderTypeOK
  <2>2. ~waiting /\ ~waiting' /\ (status = "CANCELLED" => refunded = paid)
    BY StepKept DEF NoneHeld, Kept
  <2>3. /\ status # "CANCELLED" /\ status' = "CANCELLED" => refunded' = paid'
        /\ status = "CANCELLED" => paid' - refunded' <= paid - refunded
    BY <2>2, StepKept DEF Kept
  <2>4. status' = "CANCELLED" => refunded' = paid'
    <3>1. CASE status = "CANCELLED"
      <4>1. refunded = paid /\ paid' - refunded' <= paid - refunded
        BY <2>2, <2>3, <3>1
      <4>2. refunded' \in Int /\ refunded' <= paid' /\ paid - refunded = 0
        BY <2>1, <4>1
      <4>3. paid' - refunded' <= 0
        BY <4>1, <4>2
      <4> QED
        BY <2>1, <4>2, <4>3, HoldsNothing
    <3> QED
      BY <2>3, <3>1
  <2> QED
    BY <2>2, <2>4 DEF NoneHeld
<1>3. NoneHeld => (status = "CANCELLED" => refunded = paid)
  BY DEF NoneHeld
<1> QED
  BY <1>1, <1>2, <1>3, TypesKept, PTL DEF Spec

-----------------------------------------------------------------------------
(* The shop has not packed the order, or has given it up.                  *)
Behind == {"PENDING", "CONFIRMED", "PROCESSING", "CANCELLED"}
Arrived == {"DELIVERED", "RETURN_REQUESTED", "RETURNED", "REFUNDED"}

(* The order is as far as a parcel in `s`.                                 *)
AsFar(s) ==
  /\ HasLeft(s) => status \notin Behind
  /\ s = "DELIVERED" => status \in Arrived

(* OrderFollowsParcels is not inductive: an edit writes back a status it   *)
(* read before, and a void cancels whatever the order has become.  But the *)
(* order cannot have gone back behind what the edit read, and only a POS   *)
(* sale is voided, which has no parcels.                                   *)
Followed ==
  /\ \A p \in Parcel \ moved : AsFar(parcel[p]) /\ AsFar(editing[p])
  /\ channel = "POS" =>
       /\ status \in Arrived \cup {"CANCELLED"}
       /\ \A p \in Parcel : parcel[p] = "NONE" /\ editing[p] = "NONE"
  /\ voids > 0 => channel = "POS"

(* A step that only takes the order further leaves it as far as its        *)
(* parcels.                                                                *)
Further ==
  /\ status \notin Behind => status' \notin Behind
  /\ status \in Arrived => status' \in Arrived
  /\ status = "CANCELLED" => status' = "CANCELLED"

LEMMA FurtherFollows ==
  ASSUME Followed, Further, UNCHANGED <<parcelVars, channel>>,
         voids' > 0 => voids > 0 \/ channel = "POS"
  PROVE  Followed'
<1>1. \A s : AsFar(s) => AsFar(s)'
  BY DEF AsFar, Further
<1>2. channel = "POS" => status' \in Arrived \cup {"CANCELLED"}
  BY DEF Followed, Further
<1>3. voids' > 0 => channel' = "POS"
  BY DEF Followed
<1>4. \A p \in Parcel \ moved : AsFar(parcel[p])' /\ AsFar(editing[p])'
  <2> SUFFICES ASSUME NEW p \in Parcel \ moved
               PROVE  AsFar(parcel[p])' /\ AsFar(editing[p])'
    OBVIOUS
  <2>1. AsFar(parcel[p]) /\ AsFar(editing[p])
    BY DEF Followed
  <2>2. parcel'[p] = parcel[p] /\ editing'[p] = editing[p]
    BY DEF parcelVars
  <2> QED
    BY <2>1, <2>2 DEF AsFar, Further
<1> QED
  BY <1>2, <1>3, <1>4 DEF Followed, parcelVars

LEMMA OrderFollowed ==
  ASSUME OrderTypeOK, Followed, OrderNext, UNCHANGED <<parcelVars, voids>>
  PROVE  Followed'
<1> USE DEF money, goods
<1>1. channel' = channel /\ Further
  <2> USE DEF Further, Behind, Arrived
  <2>1. ASSUME NEW to \in Status, Advance(to) PROVE channel' = channel /\ Further
    <3>1. status \in Status /\ to \in ALLOWED_TRANSITIONS[status] /\ status' = to
      BY <2>1 DEF Advance, CanMove, OrderTypeOK
    <3> QED
      BY <2>1, <3>1 DEF Advance, Status, ALLOWED_TRANSITIONS
  <2>2. CASE Pack
    <3>1. status \in Status /\ "PACKED" \in ALLOWED_TRANSITIONS[status]
      BY <2>2 DEF Pack, CanMove, OrderTypeOK
    <3> QED
      BY <2>2, <3>1 DEF Pack, Status, ALLOWED_TRANSITIONS
  <2>3. CASE Cancel
    <3>1. status \in Status /\ "CANCELLED" \in ALLOWED_TRANSITIONS[status]
      BY <2>3 DEF Cancel, CanMove, OrderTypeOK
    <3> QED
      BY <2>3, <3>1 DEF Cancel, Status, ALLOWED_TRANSITIONS
  <2>4. ASSUME NEW amount, TakeMoney(amount) \/ GatewayCaptures \/ GatewayFails
        PROVE  channel' = channel /\ Further
    BY <2>4 DEF TakeMoney, GatewayCaptures, GatewayFails
  <2>5. ASSUME NEW amount, NEW key, RefundByStaff(amount, key)
        PROVE  channel' = channel /\ Further
    BY <2>5 DEF RefundByStaff
  <2> QED
    BY <2>1, <2>2, <2>3, <2>4, <2>5 DEF OrderNext
<1> QED
  BY <1>1, FurtherFollows

LEMMA ReturnFollowed ==
  ASSUME Followed, ReturnNext, UNCHANGED <<parcelVars, voids>>
  PROVE  Followed'
<1> USE DEF Further, Behind, Arrived, CanMove, money, goods, orderVars
<1>1. channel' = channel /\ Further
  <2>1. ASSUME NEW r, NEW lines, Request(r, lines) PROVE channel' = channel /\ Further
    BY <2>1 DEF Request, Opened
  <2>2. ASSUME NEW r, Approve(r) \/ RejectFind(r) PROVE channel' = channel /\ Further
    BY <2>2 DEF Approve, RejectFind
  <2>3. ASSUME NEW r, NEW restock, Receive(r, restock) PROVE channel' = channel /\ Further
    BY <2>3 DEF Receive
  <2>4. ASSUME NEW r, NEW typed, NEW key, Complete(r, typed, key)
        PROVE  channel' = channel /\ Further
    BY <2>4 DEF Complete, Closed
  <2>5. ASSUME NEW r, RejectSave(r) PROVE channel' = channel /\ Further
    BY <2>5 DEF RejectSave, ALLOWED_TRANSITIONS
  <2> QED
    BY <2>1, <2>2, <2>3, <2>4, <2>5 DEF ReturnNext
<1> QED
  BY <1>1, FurtherFollows

LEMMA CounterFollowed ==
  ASSUME Followed, voids \in Nat, CounterNext, UNCHANGED parcelVars
  PROVE  Followed'
<1> USE DEF money, goods, orderVars
<1>1. ASSUME NEW r, NEW lines, NEW restock, NEW key, NEW by,
             CounterReturned(r, lines, restock, key, by)
      PROVE  Followed'
  <2>1. /\ channel' = channel /\ voids' = voids
        /\ status' = Closed(Opened, Plus(back, lines))
    BY <1>1 DEF CounterReturned
  <2>2. Further
    BY <2>1 DEF Further, Behind, Arrived, Closed, Opened
  <2> QED
    BY <2>1, <2>2, FurtherFollows
<1>2. CASE VoidFind
  <2>1. Further /\ channel' = channel /\ channel = "POS"
    BY <1>2 DEF VoidFind, Further
  <2> QED
    BY <2>1, FurtherFollows
<1>3. CASE VoidLocked
  <2>1. channel = "POS" /\ channel' = "POS" /\ status' = "CANCELLED"
    BY <1>3 DEF VoidLocked, Followed
  <2>2. \A p \in Parcel : parcel'[p] = "NONE" /\ editing'[p] = "NONE"
    BY <2>1 DEF Followed, parcelVars
  <2> QED
    BY <2>1, <2>2 DEF Followed, AsFar, HasLeft, ParcelStatus
<1> QED
  BY <1>1, <1>2, <1>3 DEF CounterNext, PosReturn, ExchangeAt

LEMMA ParcelFollowed ==
  ASSUME OrderTypeOK, ParcelTypeOK, Followed, ParcelNext, UNCHANGED voids
  PROVE  Followed'
<1> USE DEF money, goods, orderVars
<1>1. PICK p \in Parcel :
        \/ Book(p)
        \/ \E to \in Event : RecordEvent(p, to) \/ RecordEventElsewhere(p, to)
        \/ EditFind(p)
        \/ \E elsewhere \in BOOLEAN : EditSave(p, elsewhere)
        \/ Destroy(p)
  BY DEF ParcelNext
<1>2. ~HasLeft("NONE") /\ ~HasLeft("GONE") /\ ~HasLeft("PENDING")
  BY DEF HasLeft, ParcelStatus
<1>3. \/ channel' = channel /\ (\E to : RecordEvent(p, to))
      \/ UNCHANGED <<channel, status>>
  BY <1>1 DEF Book, RecordEventElsewhere, EditFind, EditSave, Destroy, RecordEvent,
              OrderInStep
<1>4. channel # "POS"
  <2>1. status \in SHIPPABLE \/ parcel[p] \in ParcelStatus \/ editing[p] # "NONE"
    BY <1>1 DEF Book, RecordEvent, MayRecord, RecordEventElsewhere, EditFind, EditSave,
                Destroy, Booked
  <2> QED
    BY <2>1 DEF Followed, SHIPPABLE, Arrived, ParcelStatus
<1>5. SUFFICES ASSUME NEW q \in Parcel \ moved'
               PROVE  AsFar(parcel[q])' /\ AsFar(editing[q])'
  BY <1>3, <1>4 DEF Followed
<1>6. Further => \A s : AsFar(s) => AsFar(s)'
  BY DEF AsFar, Further
<1>7. q \in Parcel \ moved /\ AsFar(parcel[q]) /\ AsFar(editing[q])
  BY <1>1 DEF Followed, Book, RecordEvent, RecordEventElsewhere, EditFind, EditSave,
              Destroy
<1> USE DEF ParcelTypeOK
<1>8. ASSUME NEW to \in Event, RecordEvent(p, to)
      PROVE  AsFar(parcel[q])' /\ AsFar(editing[q])'
  <2>1. Further
    BY <1>8 DEF RecordEvent, OrderInStep, Further, Behind, Arrived
  <2>2. editing' = editing /\ parcel'[q] = IF q = p THEN to ELSE parcel[q]
    BY <1>8 DEF RecordEvent
  <2>3. CASE q = p
    <3>1. to = "PENDING" \/ status \notin Behind
      BY <1>7, <1>8, <2>3 DEF RecordEvent, MayRecord, DISPATCHABLE, Behind, AsFar, HasLeft
    <3>2. AsFar(to)'
      BY <1>2, <1>8, <3>1, <2>1
         DEF RecordEvent, OrderInStep, AsFar, HasLeft, Further, OrderTypeOK, Status,
             Behind, Arrived
    <3> QED
      BY <1>6, <1>7, <2>1, <2>2, <2>3, <3>2
  <2> QED
    BY <1>6, <1>7, <2>1, <2>2, <2>3
<1>9. ASSUME UNCHANGED status,
             parcel'[q] \in {parcel[q], editing[q], "NONE", "GONE", "PENDING"},
             editing'[q] \in {parcel[q], editing[q], "NONE"}
      PROVE  AsFar(parcel[q])' /\ AsFar(editing[q])'
  <2>1. \A s : AsFar(s) => AsFar(s)'
    BY <1>9 DEF AsFar
  <2>2. AsFar("NONE") /\ AsFar("GONE") /\ AsFar("PENDING")
    BY <1>2 DEF AsFar
  <2> QED
    BY <1>7, <1>9, <2>1, <2>2
<1>10. ASSUME ~\E to \in Event : RecordEvent(p, to)
       PROVE  AsFar(parcel[q])' /\ AsFar(editing[q])'
  <2>1. CASE Book(p) \/ EditFind(p) \/ Destroy(p)
    BY <1>9, <2>1 DEF Book, EditFind, Destroy
  <2>2. ASSUME NEW elsewhere \in BOOLEAN, EditSave(p, elsewhere)
        PROVE  AsFar(parcel[q])' /\ AsFar(editing[q])'
    BY <1>9, <2>2 DEF EditSave
  <2>3. ASSUME NEW to \in Event, RecordEventElsewhere(p, to)
        PROVE  AsFar(parcel[q])' /\ AsFar(editing[q])'
    BY <1>7, <1>9, <2>3 DEF RecordEventElsewhere
  <2> QED
    BY <1>1, <1>10, <2>1, <2>2, <2>3
<1> QED
  BY <1>8, <1>10

(* No courier's event, edit or deletion, in whatever order it comes with   *)
(* what staff, customers and the till do, leaves an order behind its       *)
(* parcels (recordEvent and update).                                       *)
THEOREM ParcelsFollowed == Spec => []OrderFollowsParcels
<1>1. Init => Followed
  BY DEF Init, OrderInit, ParcelInit, CounterInit, Followed, AsFar, HasLeft,
         ParcelStatus, Arrived
<1>2. Typed /\ Followed /\ [Next]_vars => Followed'
  <2> SUFFICES ASSUME Typed, Followed, [Next]_vars PROVE Followed'
    OBVIOUS
  <2>1. OrderTypeOK /\ ParcelTypeOK /\ voids \in Nat
    BY DEF Typed
  <2>2. CASE UNCHANGED vars
    BY <2>2 DEF vars, orderVars, parcelVars, Followed, AsFar
  <2> QED
    BY <2>1, <2>2, OrderFollowed, ParcelFollowed, ReturnFollowed, CounterFollowed
       DEF Next
<1>3. Followed => OrderFollowsParcels
  BY DEF Followed, AsFar, OrderFollowsParcels, Behind, Arrived
<1> QED
  BY <1>1, <1>2, <1>3, TypesKept, PTL DEF Spec

-----------------------------------------------------------------------------
(* What a refund may write: the row of its key, not yet used.              *)
Enters(key, of, amount) ==
  \/ refund' = refund
  \/ /\ key \in RefundKey /\ refund[key].amount = 0 /\ amount > 0
     /\ refund' = [refund EXCEPT ![key] = [amount |-> amount, of |-> of]]

LEMMA RefundEnters ==
  ASSUME NEW key \in RefundKey \cup {NoKey}, NEW amount, NEW of,
         RefundEntered(key, amount, of)
  PROVE  Enters(key, of, amount)
BY DEF RefundEntered, Enters

LEMMA PayEnters ==
  ASSUME NEW key \in RefundKey \cup {NoKey}, NEW amount, NEW r \in Return,
         PayReturn(r, amount, key)
  PROVE  Enters(IF key = NoKey THEN r ELSE key, r, amount)
BY RefundEnters DEF PayReturn, Enters, RefundKey

(* ReturnPaidOnce is not inductive: a return is paid in the step that      *)
(* completes it, which must find it unpaid, and rejecting it later must    *)
(* not be possible.                                                        *)
PaidInv ==
  /\ \A r \in Return :
       rejecting[r] # "NONE" => ret[r].status \in {"REQUESTED", "APPROVED"}
  /\ \A k \in RefundKey :
       refund[k].amount > 0 /\ refund[k].of \in Return =>
         /\ ret[refund[k].of].status = "COMPLETED"
         /\ ret[refund[k].of].refund = refund[k].amount
  /\ \A j, k \in RefundKey :
       /\ refund[j].amount > 0 /\ refund[k].amount > 0
       /\ refund[j].of = refund[k].of /\ refund[k].of \in Return
       => j = k

(* Returns not yet completed that go on, and refunds of no return.         *)
LEMMA PaidKept ==
  ASSUME OrderTypeOK, PaidInv, NEW key, NEW amount, Enters(key, NoReturn, amount),
         \A r \in Return :
           /\ ret[r].status = "COMPLETED" => ret'[r] = ret[r]
           /\ rejecting'[r] # "NONE" => ret'[r].status \in {"REQUESTED", "APPROVED"}
  PROVE  PaidInv'
<1>1. \A k \in RefundKey :
        \/ refund'[k] = refund[k]
        \/ refund'[k].of \notin Return
  BY SoldOrderAssumption DEF Enters, OrderTypeOK
<1> QED
  BY <1>1 DEF PaidInv

(* A return completed in the step that pays it.                            *)
LEMMA PaidNow ==
  ASSUME OrderTypeOK, PaidInv, NEW r \in Return, NEW key, NEW amount,
         ret[r].status # "COMPLETED", Enters(key, r, amount),
         ret'[r].status = "COMPLETED", ret'[r].refund = amount,
         \A q \in Return \ {r} : ret'[q] = ret[q],
         rejecting[r] = "NONE", rejecting' = rejecting
  PROVE  PaidInv'
<1>1. \A k \in RefundKey : refund[k].amount > 0 => refund[k].of # r
  BY DEF PaidInv
<1>2. \A k \in RefundKey :
        IF refund' # refund /\ k = key
        THEN refund'[k].of = r /\ refund'[k].amount = amount
        ELSE refund'[k] = refund[k]
  BY DEF Enters, OrderTypeOK
<1>3. refund' # refund => key \in RefundKey
  BY DEF Enters
<1>4. \A q \in Return :
        rejecting'[q] # "NONE" => ret'[q].status \in {"REQUESTED", "APPROVED"}
  BY DEF PaidInv
<1>5. ASSUME NEW k \in RefundKey, refund'[k].amount > 0, refund'[k].of \in Return
      PROVE  /\ ret'[refund'[k].of].status = "COMPLETED"
             /\ ret'[refund'[k].of].refund = refund'[k].amount
  BY <1>1, <1>2, <1>5 DEF PaidInv
<1>6. ASSUME NEW j \in RefundKey, NEW k \in RefundKey,
             refund'[j].amount > 0, refund'[k].amount > 0,
             refund'[j].of = refund'[k].of, refund'[k].of \in Return
      PROVE  j = k
  BY <1>1, <1>2, <1>6 DEF PaidInv
<1> QED
  BY <1>4, <1>5, <1>6 DEF PaidInv

LEMMA OrderPaid ==
  ASSUME OrderTypeOK, PaidInv, OrderNext, UNCHANGED returnVars
  PROVE  PaidInv'
<1> USE DEF money, goods
<1>1. \E key, amount : Enters(key, NoReturn, amount)
  <2>1. ASSUME NEW amount, NEW key \in Key \cup {NoKey}, RefundByStaff(amount, key)
        PROVE  Enters(key, NoReturn, amount)
    BY <2>1, RefundEnters DEF RefundByStaff, RefundKey
  <2>2. ASSUME \/ Pack \/ GatewayCaptures \/ GatewayFails
               \/ \E to : Advance(to)
               \/ \E amount : TakeMoney(amount)
        PROVE  refund' = refund
    BY <2>2 DEF Pack, GatewayCaptures, GatewayFails, Advance, TakeMoney
  <2>3. ASSUME Cancel PROVE refund' = refund
    BY <2>3 DEF Cancel, RefundEntered
  <2> QED
    BY <2>1, <2>2, <2>3 DEF OrderNext, Enters
<1>2. \A r \in Return :
        rejecting'[r] # "NONE" => ret'[r].status \in {"REQUESTED", "APPROVED"}
  BY DEF returnVars, PaidInv
<1> QED
  BY <1>1, <1>2, PaidKept DEF returnVars

LEMMA ParcelPaid ==
  ASSUME PaidInv, ParcelNext, UNCHANGED returnVars
  PROVE  PaidInv'
<1>1. refund' = refund
  BY DEF ParcelNext, Book, RecordEvent, OrderInStep, RecordEventElsewhere, EditFind,
         EditSave, Destroy, orderVars, money, goods
<1> QED
  BY <1>1 DEF PaidInv, returnVars

LEMMA ReturnPaid ==
  ASSUME OrderTypeOK, RowsOK, PaidInv, ReturnNext
  PROVE  PaidInv'
<1> USE DEF money, goods, orderVars
<1>1. PICK r \in Return :
        \/ \E lines \in Basket : Request(r, lines)
        \/ Approve(r)
        \/ \E restock \in SUBSET In(ret[r].lines) : Receive(r, restock)
        \/ \E typed \in Given \cup {0}, key \in Key \cup {NoKey} : Complete(r, typed, key)
        \/ RejectFind(r)
        \/ RejectSave(r)
  BY DEF ReturnNext
<1>2. /\ ret = [q \in Return |-> ret[q]] /\ Row(ret[r])
      /\ rejecting \in [Return -> {"NONE", "RETURN_REQUESTED", "OTHER"}]
  BY DEF RowsOK
<1>3. \A q \in Return :
        rejecting[q] # "NONE" => ret[q].status \in {"REQUESTED", "APPROVED"}
  BY DEF PaidInv
(* The other handlers refund nothing and leave what is completed.          *)
<1>4. ASSUME NEW x, ret' = [ret EXCEPT ![r] = x] \/ ret' = ret,
             ret[r].status # "COMPLETED", refund' = refund,
             rejecting'[r] # "NONE" => ret'[r].status \in {"REQUESTED", "APPROVED"},
             \A q \in Return \ {r} : rejecting'[q] = rejecting[q]
      PROVE  PaidInv'
  <2>1. \A q \in Return \ {r} : ret'[q] = ret[q]
    BY <1>2, <1>4
  <2>2. Enters(NoKey, NoReturn, 0)
    BY <1>4 DEF Enters
  <2> QED
    BY <1>3, <1>4, <2>1, <2>2, PaidKept
<1>5. ASSUME NEW lines \in Basket, Request(r, lines) PROVE PaidInv'
  BY <1>3, <1>4, <1>5 DEF Request
<1>6. CASE Approve(r)
  <2>1. /\ ret' = [ret EXCEPT ![r] = [ret[r] EXCEPT !.status = "APPROVED"]]
        /\ ret[r].status # "COMPLETED" /\ refund' = refund /\ rejecting' = rejecting
        /\ rejecting[r] = "NONE"
    BY <1>6 DEF Approve, returnVars, Unlocked
  <2> QED
    BY <1>4, <2>1
<1>7. ASSUME NEW restock \in SUBSET In(ret[r].lines), Receive(r, restock)
      PROVE  PaidInv'
  <2>1. /\ ret' = [ret EXCEPT ![r] = [ret[r] EXCEPT !.status = "RECEIVED"]]
        /\ ret[r].status # "COMPLETED" /\ refund' = refund /\ rejecting' = rejecting
        /\ rejecting[r] = "NONE"
    BY <1>7 DEF Receive, Unlocked
  <2> QED
    BY <1>4, <2>1
<1>8. ASSUME NEW typed \in Given \cup {0}, NEW key \in Key \cup {NoKey},
             Complete(r, typed, key)
      PROVE  PaidInv'
  <2> DEFINE amount == IF typed = 0 THEN ret[r].refund ELSE typed
             k == IF key = NoKey THEN r ELSE key
  <2>1. Enters(k, r, amount)
    BY <1>8, PayEnters DEF Complete, RefundKey
  <2>2. /\ ret'[r].status = "COMPLETED" /\ ret'[r].refund = amount
        /\ \A q \in Return \ {r} : ret'[q] = ret[q]
        /\ ret[r].status # "COMPLETED"
        /\ rejecting[r] = "NONE" /\ rejecting' = rejecting
    BY <1>2, <1>8 DEF Complete, MayComplete, Unlocked
  <2> QED
    BY <2>1, <2>2, PaidNow
<1>9. CASE RejectFind(r)
  <2>1. /\ ret' = ret /\ refund' = refund
        /\ ret[r].status \in {"REQUESTED", "APPROVED"}
        /\ \A q \in Return \ {r} : rejecting'[q] = rejecting[q]
    BY <1>2, <1>9 DEF RejectFind
  <2> QED
    BY <1>4, <2>1
<1>10. CASE RejectSave(r)
  <2>1. /\ rejecting[r] # "NONE" /\ rejecting' = [rejecting EXCEPT ![r] = "NONE"]
        /\ refund' = refund
        /\ \/ ret' = ret
           \/ ret' = [ret EXCEPT ![r] = [ret[r] EXCEPT !.status = "REJECTED"]]
    BY <1>10 DEF RejectSave
  <2>2. rejecting'[r] = "NONE" /\ \A q \in Return \ {r} : rejecting'[q] = rejecting[q]
    BY <1>2, <2>1
  <2>3. ret[r].status # "COMPLETED"
    BY <1>3, <2>1
  <2> QED
    BY <1>4, <2>1, <2>2, <2>3
<1> QED
  BY <1>1, <1>5, <1>6, <1>7, <1>8, <1>9, <1>10

LEMMA CounterPaid ==
  ASSUME OrderTypeOK, RowsOK, PaidInv, CounterNext
  PROVE  PaidInv'
<1> USE DEF money, goods, orderVars
<1>1. ASSUME NEW r \in Return, NEW lines, NEW restock,
             NEW key \in RefundKey \cup {NoKey}, NEW by,
             CounterReturned(r, lines, restock, key, by)
      PROVE  PaidInv'
  <2> DEFINE row == Asked(r, lines, "COMPLETED", by)
             k == IF key = NoKey THEN r ELSE key
  <2>1. row.status = "COMPLETED"
    BY DEF Asked
  <2>2. Enters(k, r, row.refund)
    BY <1>1, PayEnters DEF CounterReturned
  <2>3. /\ ret' = [ret EXCEPT ![r] = row] /\ ret[r].status # "COMPLETED"
        /\ rejecting[r] = "NONE" /\ rejecting' = rejecting
    BY <1>1 DEF CounterReturned, Unlocked
  <2> HIDE DEF row
  <2>4. ret'[r] = row /\ \A q \in Return \ {r} : ret'[q] = ret[q]
    BY <2>3 DEF RowsOK
  <2> QED
    BY <2>1, <2>2, <2>3, <2>4, PaidNow
<1>2. ASSUME VoidFind \/ VoidLocked PROVE PaidInv'
  <2>1. refund' = refund /\ ret' = ret /\ rejecting' = rejecting
    BY <1>2 DEF VoidFind, VoidLocked, RefundEntered, returnVars
  <2> QED
    BY <2>1 DEF PaidInv
<1>3. Exchange \cup {NoKey} \subseteq RefundKey \cup {NoKey}
  BY DEF RefundKey
<1> QED
  BY <1>1, <1>2, <1>3 DEF CounterNext, PosReturn, ExchangeAt

(* In every state a refund is of a return completed for as much, one to a  *)
(* return, and only a return not yet received is being rejected.           *)
LEMMA PaidAlways == Spec => []PaidInv
<1>1. Init => PaidInv
  BY DEF Init, OrderInit, ReturnInit, PaidInv, NotRefunded
<1>2. Typed /\ PaidInv /\ [Next]_vars => PaidInv'
  <2> SUFFICES ASSUME Typed, PaidInv, [Next]_vars PROVE PaidInv'
    OBVIOUS
  <2>1. OrderTypeOK /\ RowsOK
    BY DEF Typed
  <2>2. CASE UNCHANGED vars
    BY <2>2 DEF vars, orderVars, money, returnVars, PaidInv
  <2> QED
    BY <2>1, <2>2, OrderPaid, ParcelPaid, ReturnPaid, CounterPaid DEF Next
<1> QED
  BY <1>1, <1>2, TypesKept, PTL DEF Spec

(* A return is paid in at most one refund, once completed, and of what it  *)
(* shows, with whatever keys it is retried and whoever else refunds        *)
(* (completeLocked, counterReturn and refundOrder).                        *)
THEOREM ReturnsPaidOnce == Spec => []ReturnPaidOnce
<1>1. PaidInv => ReturnPaidOnce
  <2> SUFFICES ASSUME PaidInv, NEW r \in Return
               PROVE  /\ Cardinality(Pays(r)) <= 1
                      /\ \A k \in Pays(r) : /\ ret[r].status = "COMPLETED"
                                           /\ refund[k].amount = ret[r].refund
    BY DEF ReturnPaidOnce
  <2>1. \A k \in Pays(r) : ret[r].status = "COMPLETED" /\ refund[k].amount = ret[r].refund
    BY DEF PaidInv, Pays
  <2>2. CASE Pays(r) = {}
    BY <2>1, <2>2, FS_EmptySet
  <2>3. CASE Pays(r) # {}
    <3>1. PICK k \in Pays(r) : TRUE
      BY <2>3
    <3>2. Pays(r) = {k}
      BY <3>1 DEF PaidInv, Pays
    <3>3. Cardinality(Pays(r)) = 1
      BY <3>2, FS_Singleton
    <3> QED
      BY <2>1, <3>3
  <2> QED
    BY <2>2, <2>3
<1> QED
  BY <1>1, PaidAlways, PTL

-----------------------------------------------------------------------------
(* ExchangedOnce, and what it rests on: a row not yet asked for is half of *)
(* no exchange, and keeps what it is half of.                              *)
ExchangeInv ==
  /\ \A r \in Return : ret[r].status = "NONE" => ret[r].by = NoExchange
  /\ \A q, r \in Return : ret[q].by = ret[r].by /\ ret[r].by # NoExchange => q = r
  /\ \A key \in Exchange :
       refund[key].amount > 0 =>
         refund[key].of \in Return /\ ret[refund[key].of].by = key

LEMMA ExchangesKept ==
  ASSUME ExchangeInv,
         \A r \in Return :
           /\ ret'[r].by = ret[r].by
           /\ ret'[r].status = "NONE" => ret[r].status = "NONE",
         \A key \in Exchange : refund'[key] = refund[key]
  PROVE  ExchangeInv'
BY DEF ExchangeInv

(* A refund under another key leaves the exchanges'.                       *)
LEMMA OtherKey ==
  ASSUME OrderTypeOK, NEW k, NEW of, NEW amount, k \notin Exchange, Enters(k, of, amount)
  PROVE  \A key \in Exchange : refund'[key] = refund[key]
BY DEF Enters, OrderTypeOK, RefundKey

LEMMA OrderExchanged ==
  ASSUME OrderTypeOK, ExchangeInv, OrderNext, UNCHANGED returnVars
  PROVE  ExchangeInv'
<1> USE DEF money, goods
<1>1. \A key \in Exchange : refund'[key] = refund[key]
  <2>1. ASSUME NEW amount, NEW k \in Key \cup {NoKey}, RefundByStaff(amount, k)
        PROVE  \A key \in Exchange : refund'[key] = refund[key]
    <3>1. Enters(k, NoReturn, amount)
      BY <2>1, RefundEnters DEF RefundByStaff, RefundKey
    <3>2. k \notin Exchange
      BY SoldOrderAssumption DEF RefundKey
    <3> QED
      BY <3>1, <3>2, OtherKey
  <2>2. ASSUME \/ Pack \/ GatewayCaptures \/ GatewayFails
               \/ \E to : Advance(to)
               \/ \E amount : TakeMoney(amount)
        PROVE  refund' = refund
    BY <2>2 DEF Pack, GatewayCaptures, GatewayFails, Advance, TakeMoney
  <2>3. ASSUME Cancel PROVE refund' = refund
    BY <2>3 DEF Cancel, RefundEntered
  <2> QED
    BY <2>1, <2>2, <2>3 DEF OrderNext
<1> QED
  BY <1>1, ExchangesKept DEF returnVars

LEMMA ParcelExchanged ==
  ASSUME ExchangeInv, ParcelNext, UNCHANGED returnVars
  PROVE  ExchangeInv'
<1>1. refund' = refund
  BY DEF ParcelNext, Book, RecordEvent, OrderInStep, RecordEventElsewhere, EditFind,
         EditSave, Destroy, orderVars, money, goods
<1> QED
  BY <1>1 DEF ExchangeInv, returnVars

LEMMA ReturnExchanged ==
  ASSUME OrderTypeOK, RowsOK, ExchangeInv, ReturnNext
  PROVE  ExchangeInv'
<1> USE DEF money, goods, orderVars
<1>1. PICK r \in Return :
        \/ \E lines \in Basket : Request(r, lines)
        \/ Approve(r)
        \/ \E restock \in SUBSET In(ret[r].lines) : Receive(r, restock)
        \/ \E typed \in Given \cup {0}, key \in Key \cup {NoKey} : Complete(r, typed, key)
        \/ RejectFind(r)
        \/ RejectSave(r)
  BY DEF ReturnNext
<1>2. ret = [q \in Return |-> ret[q]] /\ Row(ret[r])
  BY DEF RowsOK
(* No handler writes what a return is half of.                             *)
<1>3. ASSUME NEW x, ret' = [ret EXCEPT ![r] = x], x.by = ret[r].by, x.status # "NONE"
      PROVE  \A q \in Return :
               /\ ret'[q].by = ret[q].by
               /\ ret'[q].status = "NONE" => ret[q].status = "NONE"
  BY <1>2, <1>3
<1>4. ASSUME NEW at \in ReturnStatus, ret' = [ret EXCEPT ![r].status = at],
             refund' = refund
      PROVE  ExchangeInv'
  <2> DEFINE x == [ret[r] EXCEPT !.status = at]
  <2>1. ret' = [ret EXCEPT ![r] = x] /\ x.by = ret[r].by /\ x.status # "NONE"
    BY <1>2, <1>4 DEF Row, ReturnStatus
  <2> HIDE DEF x
  <2> QED
    BY <1>3, <1>4, <2>1, ExchangesKept
<1>5. ASSUME NEW lines \in Basket, Request(r, lines) PROVE ExchangeInv'
  <2> DEFINE x == Asked(r, lines, "REQUESTED", NoExchange)
  <2>1. ret' = [ret EXCEPT ![r] = x] /\ refund' = refund
    BY <1>5 DEF Request
  <2>2. x.by = ret[r].by /\ x.status # "NONE"
    BY <1>5 DEF Request, Asked, ExchangeInv
  <2> HIDE DEF x
  <2> QED
    BY <1>3, <2>1, <2>2, ExchangesKept
<1>6. ASSUME NEW typed \in Given \cup {0}, NEW key \in Key \cup {NoKey},
             Complete(r, typed, key)
      PROVE  ExchangeInv'
  <2> DEFINE amount == IF typed = 0 THEN ret[r].refund ELSE typed
             k == IF key = NoKey THEN r ELSE key
             x == [status |-> "COMPLETED", lines |-> ret[r].lines,
                   refund |-> amount, typed |-> typed # 0, by |-> ret[r].by]
  <2>1. Enters(k, r, amount)
    BY <1>6, PayEnters DEF Complete, RefundKey
  <2>2. k \notin Exchange
    BY SoldOrderAssumption DEF RefundKey
  <2>3. ret' = [ret EXCEPT ![r] = x]
    BY <1>2, <1>6 DEF Complete
  <2>4. x.by = ret[r].by /\ x.status # "NONE"
    OBVIOUS
  <2> HIDE DEF x, k, amount
  <2> QED
    BY <1>3, <2>1, <2>2, <2>3, <2>4, OtherKey, ExchangesKept
<1>7. CASE Approve(r)
  BY <1>4, <1>7 DEF Approve, ReturnStatus
<1>8. ASSUME NEW restock, Receive(r, restock) PROVE ExchangeInv'
  BY <1>4, <1>8 DEF Receive, ReturnStatus
<1>9. ASSUME refund' = refund, ret' = ret PROVE ExchangeInv'
  BY <1>9, ExchangesKept
<1>10. CASE RejectFind(r) \/ RejectSave(r)
  BY <1>4, <1>9, <1>10 DEF RejectFind, RejectSave, ReturnStatus
<1> QED
  BY <1>1, <1>5, <1>6, <1>7, <1>8, <1>10

LEMMA CounterExchanged ==
  ASSUME OrderTypeOK, RowsOK, ExchangeInv, CounterNext
  PROVE  ExchangeInv'
<1> USE DEF money, goods, orderVars
<1>1. ASSUME NEW r \in Return, NEW lines, NEW restock,
             NEW key \in Exchange \cup {NoKey}, NEW by,
             IF key = NoKey THEN by = NoExchange ELSE by = key /\ Fresh(key),
             CounterReturned(r, lines, restock, key, by)
      PROVE  ExchangeInv'
  <2> DEFINE row == Asked(r, lines, "COMPLETED", by)
             k == IF key = NoKey THEN r ELSE key
  <2>1. row.status = "COMPLETED" /\ row.by = by
    BY DEF Asked
  <2>2. Enters(k, r, row.refund)
    BY <1>1, PayEnters DEF CounterReturned, RefundKey
  <2>3. ret' = [ret EXCEPT ![r] = row] /\ ret[r].by = NoExchange
    BY <1>1 DEF CounterReturned, ExchangeInv
  <2> HIDE DEF row, k
  <2>4. ret'[r] = row /\ \A q \in Return \ {r} : ret'[q] = ret[q]
    BY <2>3 DEF RowsOK
  <2>5. \A q \in Return : by # NoExchange => ret[q].by # by
    BY <1>1 DEF Fresh
  <2>6. ASSUME NEW e \in Exchange, refund'[e].amount > 0
        PROVE  refund'[e].of \in Return /\ ret'[refund'[e].of].by = e
    <3>1. CASE refund'[e] = refund[e]
      <4>1. refund[e].of \in Return /\ ret[refund[e].of].by = e
        BY <2>6, <3>1 DEF ExchangeInv
      <4>2. refund[e].of # r
        BY <2>3, <4>1, ReturnsAssumption
      <4> QED
        BY <2>4, <3>1, <4>1, <4>2
    <3>2. CASE refund'[e] # refund[e]
      <4>1. e = k /\ refund'[e].of = r
        BY <2>2, <3>2 DEF Enters, OrderTypeOK, RefundKey
      <4>2. e = key /\ by = e
        BY <1>1, <4>1, SoldOrderAssumption DEF k
      <4> QED
        BY <2>1, <2>4, <4>1, <4>2
    <3> QED
      BY <3>1, <3>2
  <2>7. /\ \A q \in Return : ret'[q].status = "NONE" => ret'[q].by = NoExchange
        /\ \A p, q \in Return :
             ret'[p].by = ret'[q].by /\ ret'[q].by # NoExchange => p = q
    BY <2>1, <2>4, <2>5 DEF ExchangeInv
  <2> QED
    BY <2>6, <2>7 DEF ExchangeInv
<1>2. ASSUME NEW r \in Return, NEW lines, NEW restock, PosReturn(r, lines, restock)
      PROVE  ExchangeInv'
  BY <1>1, <1>2 DEF PosReturn
<1>3. ASSUME NEW r \in Return, NEW lines, NEW restock, NEW key \in Exchange,
             ExchangeAt(key, r, lines, restock)
      PROVE  ExchangeInv'
  <2>1. key # NoKey
    BY SoldOrderAssumption DEF RefundKey
  <2> QED
    BY <1>1, <1>3, <2>1 DEF ExchangeAt
<1>4. ASSUME VoidFind \/ VoidLocked PROVE ExchangeInv'
  <2>1. refund' = refund /\ ret' = ret
    BY <1>4 DEF VoidFind, VoidLocked, RefundEntered, returnVars
  <2> QED
    BY <2>1 DEF ExchangeInv
<1> QED
  BY <1>2, <1>3, <1>4 DEF CounterNext

(* However often a till sends an exchange, its key makes one return and    *)
(* one refund, of that return (PosExchanges.create).                       *)
THEOREM ExchangesOnce == Spec => []ExchangedOnce
<1>1. Init => ExchangeInv
  BY DEF Init, OrderInit, ReturnInit, NoRow, NotRefunded, ExchangeInv, RefundKey
<1>2. Typed /\ ExchangeInv /\ [Next]_vars => ExchangeInv'
  <2> SUFFICES ASSUME Typed, ExchangeInv, [Next]_vars PROVE ExchangeInv'
    OBVIOUS
  <2>1. OrderTypeOK /\ RowsOK
    BY DEF Typed
  <2>2. CASE UNCHANGED vars
    BY <2>2 DEF vars, orderVars, money, returnVars, ExchangeInv
  <2> QED
    BY <2>1, <2>2, OrderExchanged, ParcelExchanged, ReturnExchanged, CounterExchanged
       DEF Next
<1>3. ExchangeInv => ExchangedOnce
  <2> SUFFICES ASSUME ExchangeInv, NEW key \in Exchange
               PROVE  LET made == {r \in Return : ret[r].by = key}
                      IN  /\ Cardinality(made) <= 1
                          /\ refund[key].amount > 0 => made = {refund[key].of}
    BY DEF ExchangedOnce
  <2> DEFINE made == {r \in Return : ret[r].by = key}
  <2>1. \A q, r \in made : q = r
    BY ReturnsAssumption DEF ExchangeInv
  <2>2. refund[key].amount > 0 => made = {refund[key].of}
    BY <2>1 DEF ExchangeInv
  <2>3. Cardinality(made) <= 1
    <3>1. CASE made = {}
      BY <3>1, FS_EmptySet
    <3>2. CASE made # {}
      <4>1. PICK r \in made : TRUE
        BY <3>2
      <4>2. made = {r}
        BY <2>1, <4>1
      <4>3. Cardinality({r}) = 1
        BY FS_Singleton
      <4> HIDE DEF made
      <4> QED
        BY <4>2, <4>3
    <3> QED
      BY <3>1, <3>2
  <2> QED
    BY <2>2, <2>3
<1> QED
  BY <1>1, <1>2, <1>3, TypesKept, PTL DEF Spec

-----------------------------------------------------------------------------
(* An order that waits for returns is closed as refunded only in a step    *)
(* that leaves every unit of it back (completeLocked, counterReturn).      *)
THEOREM ClosedWhole == Spec => RefundedWhole
<1> DEFINE Whole == status = "RETURN_REQUESTED" /\ status' = "REFUNDED" => AllBack(back')
<1>1. ASSUME OrderNext PROVE Whole
  BY <1>1 DEF OrderNext, Advance, Pack, Cancel, TakeMoney, GatewayCaptures, GatewayFails,
              RefundByStaff, CanMove,
              ALLOWED_TRANSITIONS
<1>2. ASSUME ParcelNext PROVE Whole
  <2>1. ASSUME NEW p, NEW to, RecordEvent(p, to) PROVE Whole
    BY <2>1 DEF RecordEvent, OrderInStep
  <2>2. ASSUME NEW p, \/ Book(p) \/ \E to : RecordEventElsewhere(p, to)
                      \/ EditFind(p) \/ \E elsewhere : EditSave(p, elsewhere)
                      \/ Destroy(p)
        PROVE  status' = status
    BY <2>2 DEF Book, RecordEventElsewhere, EditFind, EditSave, Destroy, orderVars
  <2> QED
    BY <1>2, <2>1, <2>2 DEF ParcelNext
<1>3. ASSUME NEW r, NEW typed, NEW key, Complete(r, typed, key) PROVE Whole
  BY <1>3 DEF Complete, Closed, goods
<1>4. ASSUME NEW r, \/ \E lines : Request(r, lines) \/ Approve(r)
                    \/ \E restock : Receive(r, restock)
                    \/ RejectFind(r) \/ RejectSave(r)
      PROVE  Whole
  BY <1>4 DEF Request, Opened, Approve, Receive, RejectFind, RejectSave, orderVars
<1>5. ASSUME NEW r, NEW lines, NEW restock, NEW key, NEW by,
             CounterReturned(r, lines, restock, key, by)
      PROVE  Whole
  BY <1>5 DEF CounterReturned, Closed, Opened, Arrive
<1>6. ASSUME VoidFind \/ VoidLocked PROVE Whole
  BY <1>6 DEF VoidFind, VoidLocked, orderVars
<1>7. [Next]_vars => [Whole]_status
  BY <1>1, <1>2, <1>3, <1>4, <1>5, <1>6
     DEF Next, ReturnNext, CounterNext, PosReturn, ExchangeAt, vars, orderVars
<1> QED
  BY <1>7, PTL DEF Spec, RefundedWhole

-----------------------------------------------------------------------------
(* Of every line, no more is returned than was sold, nor put back on the   *)
(* shelf than was returned, until the order is cancelled.  (That what is   *)
(* returned is what the returns hold is BackIsWithinSold.)                 *)
ReturnedWithinSold ==
  \A l \in Line :
    /\ back[l] <= Quantity[l]
    /\ status # "CANCELLED" => shelf[l] <= back[l]

LEMMA ArriveWithin ==
  ASSUME OrderTypeOK, ReturnedWithinSold, NEW lines \in Basket, NEW restock,
         Arrive(lines, restock), status' # "CANCELLED" => status # "CANCELLED"
  PROVE  ReturnedWithinSold'
<1> SUFFICES ASSUME NEW l \in Line
             PROVE  /\ back'[l] <= Quantity[l]
                    /\ status' # "CANCELLED" => shelf'[l] <= back'[l]
  BY DEF ReturnedWithinSold
<1>1. /\ back[l] \in Nat /\ shelf[l] \in Nat /\ lines[l] \in Nat
      /\ back[l] + lines[l] <= Quantity[l]
      /\ status # "CANCELLED" => shelf[l] <= back[l]
  BY BasketNat DEF OrderTypeOK, ReturnedWithinSold, Arrive
<1>2. /\ back'[l] = back[l] + lines[l]
      /\ shelf'[l] = shelf[l] + (IF l \in restock THEN lines[l] ELSE 0)
  BY DEF Arrive, Plus
<1> QED
  BY <1>1, <1>2

LEMMA ReturnWithin ==
  ASSUME OrderTypeOK, RowsOK, ReturnedWithinSold, ReturnNext
  PROVE  ReturnedWithinSold'
<1> USE DEF money, goods, orderVars
<1>1. PICK r \in Return :
        \/ \E lines \in Basket : Request(r, lines)
        \/ Approve(r)
        \/ \E restock \in SUBSET In(ret[r].lines) : Receive(r, restock)
        \/ \E typed \in Given \cup {0}, key \in Key \cup {NoKey} : Complete(r, typed, key)
        \/ RejectFind(r)
        \/ RejectSave(r)
  BY DEF ReturnNext
<1>2. ASSUME back' = back, shelf' = shelf, status' # "CANCELLED" => status # "CANCELLED"
      PROVE  ReturnedWithinSold'
  BY <1>2 DEF ReturnedWithinSold
<1>3. ASSUME NEW lines, Request(r, lines) PROVE ReturnedWithinSold'
  BY <1>2, <1>3 DEF Request, Opened
<1>4. CASE Approve(r) \/ RejectFind(r)
  BY <1>2, <1>4 DEF Approve, RejectFind
<1>5. ASSUME NEW restock, Receive(r, restock) PROVE ReturnedWithinSold'
  <2>1. ret[r].lines \in Basket
    BY DEF RowsOK, Row
  <2> QED
    BY <1>5, <2>1, ArriveWithin DEF Receive
<1>6. ASSUME NEW typed, NEW key, Complete(r, typed, key) PROVE ReturnedWithinSold'
  BY <1>2, <1>6 DEF Complete, Closed
<1>7. CASE RejectSave(r)
  BY <1>2, <1>7 DEF RejectSave, CanMove, ALLOWED_TRANSITIONS
<1> QED
  BY <1>1, <1>3, <1>4, <1>5, <1>6, <1>7

(* The database holds what is returned to what was sold, and a return      *)
(* restocks at most what it brings (receiveLocked, counterReturn).         *)
THEOREM WithinSold == Spec => []ReturnedWithinSold
<1>1. Init => ReturnedWithinSold
  BY SoldOrderAssumption DEF Init, OrderInit, ReturnedWithinSold
<1>2. Typed /\ ReturnedWithinSold /\ [Next]_vars => ReturnedWithinSold'
  <2> SUFFICES ASSUME Typed, ReturnedWithinSold, [Next]_vars
               PROVE  ReturnedWithinSold'
    OBVIOUS
  <2>1. OrderTypeOK /\ RowsOK
    BY DEF Typed
  <2>2. ASSUME back' = back, shelf' = shelf, status' # "CANCELLED" => status # "CANCELLED"
        PROVE  ReturnedWithinSold'
    BY <2>2 DEF ReturnedWithinSold
  <2>3. CASE OrderNext
    <3>1. back' = back /\ shelf' = shelf
      BY <2>3 DEF OrderNext, Advance, Pack, Cancel, TakeMoney, GatewayCaptures, GatewayFails,
              RefundByStaff, goods
    <3>2. status' # "CANCELLED" => status # "CANCELLED"
      BY <2>3 DEF OrderNext, Advance, Pack, Cancel, TakeMoney, GatewayCaptures, GatewayFails,
              RefundByStaff,
                  CanMove, ALLOWED_TRANSITIONS
    <3> QED
      BY <2>2, <3>1, <3>2
  <2>4. CASE ParcelNext
    <3>1. back' = back /\ shelf' = shelf
      BY <2>4 DEF ParcelNext, Book, RecordEvent, OrderInStep, RecordEventElsewhere,
                  EditFind, EditSave, Destroy, orderVars, goods
    <3>2. status' # "CANCELLED" => status # "CANCELLED"
      BY <2>4 DEF ParcelNext, Book, RecordEvent, OrderInStep, RecordEventElsewhere,
                  EditFind, EditSave, Destroy, orderVars
    <3> QED
      BY <2>2, <3>1, <3>2
  <2>5. CASE ReturnNext
    BY <2>1, <2>5, ReturnWithin
  <2>6. CASE CounterNext
    <3>1. ASSUME NEW r, NEW lines \in Basket, NEW restock, NEW key, NEW by,
                 CounterReturned(r, lines, restock, key, by)
          PROVE  ReturnedWithinSold'
      BY <2>1, <3>1, ArriveWithin DEF CounterReturned, Closed, Opened
    <3>2. CASE VoidFind
      BY <2>2, <3>2 DEF VoidFind, orderVars, goods
    <3>3. CASE VoidLocked
      BY <3>3 DEF VoidLocked, ReturnedWithinSold
    <3> QED
      BY <2>6, <3>1, <3>2, <3>3 DEF CounterNext, PosReturn, ExchangeAt
  <2>7. CASE UNCHANGED vars
    BY <2>2, <2>7 DEF vars, orderVars, goods
  <2> QED
    BY <2>3, <2>4, <2>5, <2>6, <2>7 DEF Next
<1> QED
  BY <1>1, <1>2, TypesKept, PTL DEF Spec

-----------------------------------------------------------------------------
(* A figure rounded exceeds it by half at most.                            *)
LEMMA RoundedHalf ==
  ASSUME NEW n \in Nat, NEW d \in Nat \ {0}
  PROVE  /\ Rounded(n, d) \in Nat
         /\ 2 * d * Rounded(n, d) <= 2 * n + d
<1> DEFINE q == n \div d
           m == n % d
<1>1. q \in Nat /\ m \in Nat /\ m < d /\ n = d * q + m
  OBVIOUS
<1>2. Rounded(n, d) = q \/ (Rounded(n, d) = q + 1 /\ 2 * m >= d)
  <2>1. Rounded(n, d) = IF 2 * m > d \/ (2 * m = d /\ q % 2 = 1) THEN q + 1 ELSE q
    BY DEF Rounded
  <2> HIDE DEF q, m
  <2> QED
    BY <1>1, <2>1
<1> HIDE DEF q, m
<1>3. Rounded(n, d) \in Nat
  BY <1>1, <1>2
<1>4. CASE Rounded(n, d) = q
  <2>1. 2 * d * q = 2 * (d * q)
    BY <1>1
  <2>2. d * q \in Nat
    BY <1>1
  <2> QED
    BY <1>1, <1>4, <2>1, <2>2
<1>5. CASE Rounded(n, d) = q + 1 /\ 2 * m >= d
  <2>1. 2 * d * (q + 1) = 2 * (d * q) + 2 * d
    BY <1>1
  <2>2. d * q \in Nat
    BY <1>1
  <2> QED
    BY <1>1, <1>5, <2>1, <2>2
<1> QED
  BY <1>2, <1>3, <1>4, <1>5

LEMMA SubtotalNat == Subtotal \in Nat \ {0} /\ Subtotal - Discount \in Nat
<1>1. SumFunctionOnSet(LineTotal, Line) \in Nat
  <2>1. IsFiniteSet(Line) /\ \A l \in Line : LineTotal[l] \in Nat
    BY SoldOrderAssumption, ReturnsAssumption
  <2> QED
    BY <2>1, SumNat
<1>2. Subtotal = SumFunctionOnSet(LineTotal, Line)
  BY ReturnsAssumption DEF Subtotal, SumFunction
<1> QED
  BY <1>1, <1>2, ReturnsAssumption

LEMMA UnitsPositive == Units \in Nat \ {0}
<1>1. FoldFunctionOnSet(LAMBDA a, b : a * b, 1, Quantity, Line) \in Nat \ {0}
  <2>1. IsFiniteSet(Line) /\ \A l \in Line : Quantity[l] \in Nat \ {0}
    BY SoldOrderAssumption
  <2> QED
    BY <2>1, ProductPositive
<1>2. DOMAIN Quantity = Line
  BY SoldOrderAssumption
<1>3. Units = FoldFunctionOnSet(LAMBDA a, b : a * b, 1, Quantity, DOMAIN Quantity)
  BY DEF Units, FoldFunction
<1>4. Units = FoldFunctionOnSet(LAMBDA a, b : a * b, 1, Quantity, Line)
  BY <1>2, <1>3
<1> QED
  BY <1>1, <1>4

LEMMA DenominatorPositive == Denominator \in Nat \ {0}
<1>1. \A m, n \in Nat \ {0} : m * n \in Nat \ {0}
  OBVIOUS
<1> QED
  BY <1>1, SubtotalNat, UnitsPositive DEF Denominator

LEMMA UnitShareNat == UnitShare \in [Line -> Nat]
<1> SUFFICES ASSUME NEW l \in Line
             PROVE  (LineTotal[l] * (Subtotal - Discount) + TaxOnTop[l] * Subtotal)
                      * (Units \div Quantity[l]) \in Nat
  BY DEF UnitShare
<1>1. LineTotal[l] \in Nat /\ TaxOnTop[l] \in Nat
  BY ReturnsAssumption
<1>2. Units \div Quantity[l] \in Nat
  <2>1. Units \in Nat /\ Quantity[l] \in Nat \ {0}
    BY UnitsPositive, SoldOrderAssumption
  <2>2. \A m \in Nat, n \in Nat \ {0} : m \div n \in Nat
    OBVIOUS
  <2> QED
    BY <2>1, <2>2
<1>3. \A m, n \in Nat : m * n \in Nat /\ m + n \in Nat
  OBVIOUS
<1>4. LineTotal[l] * (Subtotal - Discount) \in Nat /\ TaxOnTop[l] * Subtotal \in Nat
  BY <1>1, <1>3, SubtotalNat
<1>5. LineTotal[l] * (Subtotal - Discount) + TaxOnTop[l] * Subtotal \in Nat
  BY <1>3, <1>4
<1> QED
  BY <1>2, <1>3, <1>5

(* What a basket is worth over the denominator, and that of two baskets.   *)
LEMMA ShareOver ==
  ASSUME NEW lines \in [Line -> Nat]
  PROVE  /\ Share(lines) = SumFunctionOnSet([l \in Line |-> UnitShare[l] * lines[l]], Line)
         /\ \A l \in Line : UnitShare[l] * lines[l] \in Nat
         /\ Share(lines) \in Nat
<1> DEFINE f == [l \in Line |-> UnitShare[l] * lines[l]]
<1>1. \A m, n \in Nat : m * n \in Nat
  OBVIOUS
<1>2. \A l \in Line : UnitShare[l] * lines[l] \in Nat
  BY <1>1, UnitShareNat
<1>3. DOMAIN f = Line /\ \A l \in Line : f[l] \in Nat
  BY <1>2
<1>4. Share(lines) = SumFunctionOnSet(f, DOMAIN f)
  BY DEF Share, SumFunction
<1> HIDE DEF f
<1>5. SumFunctionOnSet(f, Line) \in Nat
  BY <1>3, SoldOrderAssumption, SumNat
<1>6. Share(lines) = SumFunctionOnSet(f, Line)
  BY <1>3, <1>4
<1> QED
  BY <1>2, <1>5, <1>6 DEF f

LEMMA SharePlus ==
  ASSUME NEW f \in [Line -> Nat], NEW g \in [Line -> Nat], NEW h \in [Line -> Nat],
         \A l \in Line : h[l] = f[l] + g[l]
  PROVE  Share(h) = Share(f) + Share(g)
<1> DEFINE F == [l \in Line |-> UnitShare[l] * f[l]]
           G == [l \in Line |-> UnitShare[l] * g[l]]
           H == [l \in Line |-> UnitShare[l] * h[l]]
<1>1. /\ Share(f) = SumFunctionOnSet(F, Line)
      /\ Share(g) = SumFunctionOnSet(G, Line)
      /\ Share(h) = SumFunctionOnSet(H, Line)
  BY ShareOver
<1>2. \A l \in Line : F[l] \in Int /\ G[l] \in Int /\ H[l] = F[l] + G[l]
  <2> SUFFICES ASSUME NEW l \in Line
               PROVE  /\ UnitShare[l] * f[l] \in Int
                      /\ UnitShare[l] * g[l] \in Int
                      /\ UnitShare[l] * h[l] = UnitShare[l] * f[l] + UnitShare[l] * g[l]
    OBVIOUS
  <2>1. UnitShare[l] \in Nat /\ f[l] \in Nat /\ g[l] \in Nat /\ h[l] = f[l] + g[l]
    BY UnitShareNat
  <2>2. \A u, m, n \in Nat : /\ u * m \in Int
                             /\ u * n \in Int
                             /\ u * (m + n) = u * m + u * n
    OBVIOUS
  <2> QED
    BY <2>1, <2>2
<1> HIDE DEF F, G, H
<1>3. SumFunctionOnSet(H, Line) = SumFunctionOnSet(F, Line) + SumFunctionOnSet(G, Line)
  BY <1>2, SoldOrderAssumption, SumPlus
<1> QED
  BY <1>1, <1>3

(* The shipping a return pays back.                                        *)
ShippedBack(r) == IF r \in Fault THEN Shipping ELSE 0

(* What a return is worth, within half a paisa of its share.               *)
LEMMA WorthHalf ==
  ASSUME NEW r, NEW lines \in Basket
  PROVE  /\ Worth(r, lines) \in Nat
         /\ 2 * Denominator * (Worth(r, lines) - ShippedBack(r))
              <= 2 * Share(lines) + Denominator
<1> DEFINE R == Rounded(Share(lines), Denominator)
<1>1. Share(lines) \in Nat /\ Denominator \in Nat \ {0}
  BY BasketNat, ShareOver, DenominatorPositive
<1>2. R \in Nat /\ 2 * Denominator * R <= 2 * Share(lines) + Denominator
  BY <1>1, RoundedHalf
<1>3. GoodsWorth[lines] = R
  BY DEF GoodsWorth
<1>4. ShippedBack(r) \in Nat
  BY ReturnsAssumption DEF ShippedBack
<1>5. Worth(r, lines) = R + ShippedBack(r)
  BY <1>3 DEF Worth, ShippedBack
<1> HIDE DEF R
<1>6. Worth(r, lines) - ShippedBack(r) = R
  BY <1>2, <1>4, <1>5
<1> QED
  BY <1>2, <1>4, <1>5, <1>6

-----------------------------------------------------------------------------
(* What a row shows as its refund: no more than its lines are worth, until *)
(* staff complete it with a figure of their own.                           *)
Figured(r, x) ==
  /\ x.refund \in Nat /\ x.typed \in BOOLEAN
  /\ x.typed => x.status = "COMPLETED"
  /\ x.typed \/ x.refund <= Worth(r, x.lines)

FiguresOK == \A r \in Return : Figured(r, ret[r])

(* The sums of ReturnsAddUp, over any of the returns.                      *)
LinesOf(U) == [l \in Line |-> SumFunctionOnSet([r \in Return |-> ret[r].lines[l]], U)]
RefundOf(U) == SumFunctionOnSet([r \in Return |-> ret[r].refund], U)
AddUp(U) ==
  2 * Denominator * (RefundOf(U) - Shipping * Cardinality(U \cap Fault))
    <= 2 * Share(LinesOf(U)) + Denominator * Cardinality(U)

LEMMA LinesOfNat ==
  ASSUME RowsOK, NEW U \in SUBSET Return
  PROVE  LinesOf(U) \in [Line -> Nat]
<1> SUFFICES ASSUME NEW l \in Line
             PROVE  SumFunctionOnSet([r \in Return |-> ret[r].lines[l]], U) \in Nat
  BY DEF LinesOf
<1> DEFINE f == [r \in Return |-> ret[r].lines[l]]
<1>1. \A r \in Return : f[r] \in Nat
  BY BasketNat DEF RowsOK, Row
<1>2. IsFiniteSet(U) /\ \A r \in U : f[r] \in Nat
  BY <1>1, FiniteAssumption, FS_Subset
<1> HIDE DEF f
<1>3. SumFunctionOnSet(f, U) \in Nat
  BY <1>2, SumNat
<1> QED
  BY <1>3 DEF f

(* One return more among them.                                             *)
LEMMA LinesOfMore ==
  ASSUME RowsOK, NEW U \in SUBSET Return, NEW x \in U
  PROVE  \A l \in Line : LinesOf(U)[l] = LinesOf(U \ {x})[l] + ret[x].lines[l]
<1> SUFFICES ASSUME NEW l \in Line
             PROVE  LinesOf(U)[l] = LinesOf(U \ {x})[l] + ret[x].lines[l]
  OBVIOUS
<1> DEFINE f == [r \in Return |-> ret[r].lines[l]]
<1>1. \A r \in Return : f[r] \in Nat
  BY BasketNat DEF RowsOK, Row
<1>2. IsFiniteSet(U) /\ \A r \in U : f[r] \in Int
  BY <1>1, FiniteAssumption, FS_Subset
<1>3. f[x] = ret[x].lines[l] /\ f[x] \in Nat
  BY <1>1
<1>4. /\ LinesOf(U)[l] = SumFunctionOnSet(f, U)
      /\ LinesOf(U \ {x})[l] = SumFunctionOnSet(f, U \ {x})
  BY DEF LinesOf
<1> HIDE DEF f
<1>5. SumFunctionOnSet(f, U) = f[x] + SumFunctionOnSet(f, U \ {x})
  BY <1>2, SumRemove
<1>6. LinesOf(U \ {x})[l] \in Nat
  BY LinesOfNat
<1> QED
  BY <1>3, <1>4, <1>5, <1>6

LEMMA RefundOfMore ==
  ASSUME FiguresOK, NEW U \in SUBSET Return, NEW x \in U
  PROVE  /\ RefundOf(U \ {x}) \in Nat /\ ret[x].refund \in Nat
         /\ RefundOf(U) = RefundOf(U \ {x}) + ret[x].refund
<1> DEFINE f == [r \in Return |-> ret[r].refund]
<1>1. \A r \in Return : f[r] \in Nat
  BY DEF FiguresOK, Figured
<1>2. /\ IsFiniteSet(U) /\ IsFiniteSet(U \ {x})
      /\ \A r \in U : f[r] \in Nat /\ f[r] \in Int
  BY <1>1, FiniteAssumption, FS_Subset
<1>3. f[x] = ret[x].refund /\ f[x] \in Nat
  BY <1>1
<1>4. RefundOf(U) = SumFunctionOnSet(f, U) /\ RefundOf(U \ {x}) = SumFunctionOnSet(f, U \ {x})
  BY DEF RefundOf
<1> HIDE DEF f
<1>5. SumFunctionOnSet(f, U) = f[x] + SumFunctionOnSet(f, U \ {x})
  BY <1>2, SumRemove
<1>6. SumFunctionOnSet(f, U \ {x}) \in Nat
  BY <1>2, SumNat
<1> QED
  BY <1>3, <1>4, <1>5, <1>6

LEMMA ShippedMore ==
  ASSUME NEW U \in SUBSET Return, NEW x \in U
  PROVE  /\ Cardinality((U \ {x}) \cap Fault) \in Nat /\ Cardinality(U \ {x}) \in Nat
         /\ Cardinality(U) = Cardinality(U \ {x}) + 1
         /\ Shipping * Cardinality(U \cap Fault)
              = Shipping * Cardinality((U \ {x}) \cap Fault) + ShippedBack(x)
<1> DEFINE W == U \ {x}
           V == U \cap Fault
<1>1. IsFiniteSet(U) /\ IsFiniteSet(W) /\ IsFiniteSet(V) /\ IsFiniteSet(W \cap Fault)
  BY FiniteAssumption, FS_Subset
<1>2. Cardinality(W \cap Fault) \in Nat /\ Cardinality(W) \in Nat /\ Cardinality(U) \in Nat
      /\ Cardinality(V) \in Nat
  BY <1>1, FS_CardinalityType
<1>3. Cardinality(W) = Cardinality(U) - 1
  BY <1>1, FS_RemoveElement
<1>4. Shipping * Cardinality(V) = Shipping * Cardinality(W \cap Fault) + ShippedBack(x)
  <2>1. CASE x \in Fault
    <3>1. W \cap Fault = V \ {x} /\ x \in V
      BY <2>1
    <3> HIDE DEF V, W
    <3>2. Cardinality(W \cap Fault) = Cardinality(V) - 1
      BY <1>1, <3>1, FS_RemoveElement
    <3>3. \A s, m, n \in Nat : m = n - 1 => s * n = s * m + s
      OBVIOUS
    <3>4. ShippedBack(x) = Shipping /\ Shipping \in Nat
      BY <2>1, ReturnsAssumption DEF ShippedBack
    <3> QED
      BY <1>2, <3>2, <3>3, <3>4
  <2>2. CASE x \notin Fault
    <3>1. W \cap Fault = V
      BY <2>2
    <3>2. ShippedBack(x) = 0 /\ Shipping \in Nat
      BY <2>2, ReturnsAssumption DEF ShippedBack
    <3>3. Shipping * Cardinality(V) \in Nat
      <4>1. \A m, n \in Nat : m * n \in Nat
        OBVIOUS
      <4> HIDE DEF V
      <4> QED
        BY <1>2, <3>2, <4>1
    <3> HIDE DEF V, W
    <3> QED
      BY <3>1, <3>2, <3>3
  <2> QED
    BY <2>1, <2>2
<1> HIDE DEF V, W
<1>5. Cardinality(U) = Cardinality(W) + 1
  BY <1>2, <1>3
<1> QED
  BY <1>2, <1>4, <1>5 DEF V, W

(* However the returns are many: one of which it fails could be left out.  *)
LEMMA AllAddUp ==
  ASSUME RowsOK, FiguresOK, NEW own \in SUBSET Return,
         \A r \in own : ~ret[r].typed
  PROVE  AddUp(own)
<1> DEFINE Bad == {U \in SUBSET own : ~AddUp(U)}
<1>1. SUFFICES ASSUME Bad # {} PROVE FALSE
  BY <1>1
<1>2. PICK U \in Bad : \A V \in Bad : V \subseteq U => V = U
  <2>1. Bad \in SUBSET (SUBSET own) /\ IsFiniteSet(own)
    BY FiniteAssumption, FS_Subset
  <2> HIDE DEF Bad
  <2> QED
    BY <1>1, <2>1, SmallestSet
<1>3. U \in SUBSET own /\ U \in SUBSET Return /\ ~AddUp(U)
  BY <1>2
<1>4. Denominator \in Nat \ {0} /\ Shipping \in Nat
  BY DenominatorPositive, ReturnsAssumption
<1>5. U # {}
  <2> SUFFICES ASSUME U = {} PROVE FALSE
    OBVIOUS
  <2>1. RefundOf(U) = 0
    BY SumEmpty DEF RefundOf
  <2>2. Cardinality(U) = 0 /\ Cardinality(U \cap Fault) = 0
    BY FS_EmptySet
  <2>3. Share(LinesOf(U)) \in Nat
    BY <1>3, LinesOfNat, ShareOver
  <2>4. \A d, s \in Nat : 2 * d * (0 - s * 0) = 0 /\ d * 0 = 0
    OBVIOUS
  <2> HIDE DEF Bad
  <2> QED
    BY <1>3, <1>4, <2>1, <2>2, <2>3, <2>4 DEF AddUp
<1>6. PICK x \in U : TRUE
  BY <1>5
<1> DEFINE W == U \ {x}
<1>7. AddUp(W)
  BY <1>2, <1>3, <1>6
<1>8. x \in Return /\ ret[x].lines \in Basket /\ ret[x].lines \in [Line -> Nat]
  BY <1>3, <1>6, BasketNat DEF RowsOK, Row
<1>9. Share(LinesOf(U)) = Share(LinesOf(W)) + Share(ret[x].lines)
  <2>1. LinesOf(U) \in [Line -> Nat] /\ LinesOf(W) \in [Line -> Nat]
    BY <1>3, LinesOfNat
  <2>2. \A l \in Line : LinesOf(U)[l] = LinesOf(W)[l] + ret[x].lines[l]
    BY <1>3, <1>6, LinesOfMore
  <2> HIDE DEF Bad, W
  <2> QED
    BY <1>8, <2>1, <2>2, SharePlus
<1>10. Share(LinesOf(W)) \in Nat /\ Share(ret[x].lines) \in Nat
  BY <1>3, <1>8, LinesOfNat, ShareOver
<1>11. /\ RefundOf(W) \in Nat /\ ret[x].refund \in Nat
       /\ RefundOf(U) = RefundOf(W) + ret[x].refund
  BY <1>3, <1>6, RefundOfMore
<1>12. /\ Cardinality(W \cap Fault) \in Nat /\ Cardinality(W) \in Nat
       /\ Cardinality(U) = Cardinality(W) + 1
       /\ Shipping * Cardinality(U \cap Fault)
            = Shipping * Cardinality(W \cap Fault) + ShippedBack(x)
  BY <1>3, <1>6, ShippedMore
<1>13. ShippedBack(x) \in Nat
  BY <1>4 DEF ShippedBack
<1> HIDE DEF Bad, W
<1> DEFINE d == Denominator
           p == RefundOf(W)
           a == ret[x].refund
           s == ShippedBack(x)
           c == Shipping * Cardinality(W \cap Fault)
           n == Cardinality(W)
           w == Share(LinesOf(W))
           y == Share(ret[x].lines)
<1>14. d \in Nat /\ p \in Nat /\ a \in Nat /\ s \in Nat /\ c \in Nat /\ n \in Nat
       /\ w \in Nat /\ y \in Nat
  <2>1. \A i, j \in Nat : i * j \in Nat
    OBVIOUS
  <2> QED
    BY <1>4, <1>10, <1>11, <1>12, <1>13, <2>1
<1>15. 2 * d * (a - s) <= 2 * y + d
  <2>1. a <= Worth(x, ret[x].lines)
    BY <1>3, <1>6, <1>8 DEF FiguresOK, Figured
  <2>2. /\ Worth(x, ret[x].lines) \in Nat
        /\ 2 * d * (Worth(x, ret[x].lines) - s) <= 2 * y + d
    BY <1>8, WorthHalf
  <2>3. \A k \in Nat, i, j \in Int : i <= j => 2 * k * i <= 2 * k * j
    OBVIOUS
  <2> DEFINE v == Worth(x, ret[x].lines)
  <2>4. v \in Nat /\ a <= v /\ 2 * d * (v - s) <= 2 * y + d
    BY <2>1, <2>2
  <2> HIDE DEF d, a, s, y, v
  <2>5. a - s <= v - s /\ a - s \in Int /\ v - s \in Int
    BY <1>14, <2>4
  <2>6. 2 * d * (a - s) <= 2 * d * (v - s)
    BY <1>14, <2>3, <2>5
  <2>7. 2 * d * (a - s) \in Int /\ 2 * d * (v - s) \in Int
    BY <1>14, <2>5
  <2> QED
    BY <1>14, <2>4, <2>6, <2>7
<1>16. 2 * d * (p - c) <= 2 * w + d * n
  BY <1>7 DEF AddUp
<1>17. ~(2 * d * ((p + a) - (c + s)) <= 2 * (w + y) + d * (n + 1))
  BY <1>3, <1>9, <1>11, <1>12 DEF AddUp
<1> HIDE DEF d, p, a, s, c, n, w, y
<1>18. 2 * d * ((p + a) - (c + s)) = 2 * d * (p - c) + 2 * d * (a - s)
  BY <1>14
<1>19. d * (n + 1) = d * n + d
  BY <1>14
<1>20. d * n \in Int /\ 2 * d * (p - c) \in Int /\ 2 * d * (a - s) \in Int
  BY <1>14
<1> QED
  BY <1>14, <1>15, <1>16, <1>17, <1>18, <1>19, <1>20

LEMMA FiguresAddUp ==
  ASSUME RowsOK, FiguresOK
  PROVE  ReturnsAddUp
<1> DEFINE own == {r \in Return : ret[r].status = "COMPLETED" /\ ~ret[r].typed}
<1>1. AddUp(own)
  BY AllAddUp
<1> QED
  BY <1>1 DEF AddUp, LinesOf, RefundOf, ReturnsAddUp

-----------------------------------------------------------------------------
(* What came back of a line is what the returns that brought it hold.      *)
BackAdds == \A l \in Line : back[l] = LinesOf(CameBack)[l]

LEMMA BackKept ==
  ASSUME RowsOK, BackAdds, back' = back, CameBack' = CameBack,
         \A q \in CameBack : ret'[q].lines = ret[q].lines
  PROVE  BackAdds'
<1> SUFFICES ASSUME NEW l \in Line
             PROVE  back'[l] = SumFunctionOnSet([r \in Return |-> ret'[r].lines[l]], CameBack')
  BY DEF BackAdds, LinesOf
<1> DEFINE f == [r \in Return |-> ret[r].lines[l]]
           g == [r \in Return |-> ret'[r].lines[l]]
<1>1. IsFiniteSet(CameBack) /\ CameBack \subseteq Return
  BY FiniteAssumption, FS_Subset DEF CameBack
<1>2. \A r \in CameBack : f[r] = g[r]
  BY <1>1
<1>3. back[l] = SumFunctionOnSet(f, CameBack)
  BY DEF BackAdds, LinesOf
<1> HIDE DEF f, g
<1>4. SumFunctionOnSet(f, CameBack) = SumFunctionOnSet(g, CameBack)
  BY <1>1, <1>2, SumSame
<1> QED
  BY <1>3, <1>4 DEF g

(* One return more came back, and its goods were counted.                  *)
LEMMA BackMore ==
  ASSUME RowsOK, RowsOK', BackAdds, NEW r \in Return, r \notin CameBack,
         CameBack' = CameBack \cup {r},
         \A q \in CameBack : ret'[q].lines = ret[q].lines,
         \A l \in Line : back'[l] = back[l] + ret'[r].lines[l]
  PROVE  BackAdds'
<1> SUFFICES ASSUME NEW l \in Line
             PROVE  back'[l] = SumFunctionOnSet([q \in Return |-> ret'[q].lines[l]], CameBack')
  BY DEF BackAdds, LinesOf
<1> DEFINE f == [q \in Return |-> ret[q].lines[l]]
           g == [q \in Return |-> ret'[q].lines[l]]
<1>1. IsFiniteSet(CameBack) /\ CameBack \subseteq Return
  BY FiniteAssumption, FS_Subset DEF CameBack
<1>2. \A q \in CameBack : f[q] = g[q]
  BY <1>1
<1>3. back[l] = SumFunctionOnSet(f, CameBack)
  BY DEF BackAdds, LinesOf
<1>4. \A q \in CameBack \cup {r} : g[q] \in Int
  <2> SUFFICES ASSUME NEW q \in Return PROVE ret'[q].lines[l] \in Int
    BY <1>1
  <2>1. ret'[q].lines \in Basket
    BY DEF RowsOK, Row
  <2> QED
    BY <2>1, BasketNat
<1>5. g[r] = ret'[r].lines[l]
  OBVIOUS
<1> HIDE DEF f, g
<1>6. SumFunctionOnSet(f, CameBack) = SumFunctionOnSet(g, CameBack)
  BY <1>1, <1>2, SumSame
<1>7. SumFunctionOnSet(g, CameBack \cup {r}) = SumFunctionOnSet(g, CameBack) + g[r]
  BY <1>1, <1>4, SumAdd
<1> QED
  BY <1>3, <1>5, <1>6, <1>7 DEF g

-----------------------------------------------------------------------------
(* What the handlers write into a row keeps its figure.                    *)
LEMMA FiguresWritten ==
  ASSUME RowsOK, FiguresOK, NEW r \in Return, NEW x, Figured(r, x),
         ret' = [ret EXCEPT ![r] = x]
  PROVE  FiguresOK'
<1>1. \A q \in Return : ret'[q] = IF q = r THEN x ELSE ret[q]
  BY DEF RowsOK
<1>2. \A q \in Return : Figured(q, ret'[q])
  BY <1>1 DEF FiguresOK
<1> QED
  BY <1>2 DEF FiguresOK, Figured

LEMMA RefundableNat == ASSUME OrderTypeOK PROVE Refundable \in Nat
BY SoldOrderAssumption DEF OrderTypeOK, Refundable

LEMMA AskedFigured ==
  ASSUME OrderTypeOK, NEW r \in Return, NEW lines \in Basket, NEW at, NEW by
  PROVE  /\ Figured(r, Asked(r, lines, at, by))
         /\ Asked(r, lines, at, by).lines = lines
         /\ Asked(r, lines, at, by).status = at
<1> DEFINE m == Least(Worth(r, lines), Refundable)
<1>1. m \in Nat /\ m <= Worth(r, lines)
  BY WorthHalf, RefundableNat DEF Least
<1>2. Asked(r, lines, at, by)
        = [status |-> at, lines |-> lines, refund |-> m, typed |-> FALSE, by |-> by]
  BY DEF Asked
<1> HIDE DEF m
<1> QED
  BY <1>1, <1>2 DEF Figured

LEMMA StatusFigured ==
  ASSUME NEW r \in Return, NEW x, Row(x), Figured(r, x), x.status # "COMPLETED", NEW at
  PROVE  /\ Figured(r, [x EXCEPT !.status = at])
         /\ [x EXCEPT !.status = at].lines = x.lines
         /\ [x EXCEPT !.status = at].status = at
<1> DEFINE y == [x EXCEPT !.status = at]
<1>1. /\ y.status = at /\ y.lines = x.lines /\ y.refund = x.refund /\ y.typed = x.typed
  BY DEF Row
<1> HIDE DEF y
<1> QED
  BY <1>1 DEF Figured, y

(* What the two sums rest on.                                              *)
SumsOK == FiguresOK /\ BackAdds

LEMMA SumsKept ==
  ASSUME RowsOK, SumsOK, ret' = ret, back' = back
  PROVE  SumsOK'
<1>1. CameBack' = CameBack
  BY DEF CameBack
<1>2. FiguresOK'
  BY DEF SumsOK, FiguresOK, Figured
<1> QED
  BY <1>1, <1>2, BackKept DEF SumsOK

(* A row written that is back as it was before, or not ...                 *)
LEMMA SumsWritten ==
  ASSUME RowsOK, SumsOK, NEW r \in Return, NEW x, Figured(r, x),
         ret' = [ret EXCEPT ![r] = x], back' = back,
         \/ /\ ret[r].status \notin {"RECEIVED", "COMPLETED"}
            /\ x.status \notin {"RECEIVED", "COMPLETED"}
         \/ /\ ret[r].status \in {"RECEIVED", "COMPLETED"}
            /\ x.status \in {"RECEIVED", "COMPLETED"}
            /\ x.lines = ret[r].lines
  PROVE  SumsOK'
<1>1. \A q \in Return : ret'[q] = IF q = r THEN x ELSE ret[q]
  BY DEF RowsOK
<1>2. CameBack' = CameBack /\ \A q \in CameBack : ret'[q].lines = ret[q].lines
  BY <1>1 DEF CameBack
<1> QED
  BY <1>2, BackKept, FiguresWritten DEF SumsOK

(* ... and one that is now.                                                *)
LEMMA SumsArrive ==
  ASSUME RowsOK, RowsOK', SumsOK, NEW r \in Return, NEW x, Figured(r, x),
         ret' = [ret EXCEPT ![r] = x], ret[r].status \notin {"RECEIVED", "COMPLETED"},
         x.status \in {"RECEIVED", "COMPLETED"}, back' = Plus(back, x.lines)
  PROVE  SumsOK'
<1>1. \A q \in Return : ret'[q] = IF q = r THEN x ELSE ret[q]
  BY DEF RowsOK
<1>2. /\ r \notin CameBack /\ CameBack' = CameBack \cup {r}
      /\ \A q \in CameBack : ret'[q].lines = ret[q].lines
  BY <1>1 DEF CameBack
<1>3. \A l \in Line : back'[l] = back[l] + ret'[r].lines[l]
  BY <1>1 DEF Plus
<1> QED
  BY <1>2, <1>3, BackMore, FiguresWritten DEF SumsOK

LEMMA ReturnSums ==
  ASSUME OrderTypeOK, RowsOK, RowsOK', PaidInv, SumsOK, ReturnNext
  PROVE  SumsOK'
<1> USE DEF money, goods, orderVars
<1>1. PICK r \in Return :
        \/ \E lines \in Basket : Request(r, lines)
        \/ Approve(r)
        \/ \E restock \in SUBSET In(ret[r].lines) : Receive(r, restock)
        \/ \E typed \in Given \cup {0}, key \in Key \cup {NoKey} : Complete(r, typed, key)
        \/ RejectFind(r)
        \/ RejectSave(r)
  BY DEF ReturnNext
<1>2. Row(ret[r]) /\ Figured(r, ret[r])
  BY DEF RowsOK, SumsOK, FiguresOK
<1>3. ASSUME NEW lines \in Basket, Request(r, lines) PROVE SumsOK'
  <2> DEFINE x == Asked(r, lines, "REQUESTED", NoExchange)
  <2>1. Figured(r, x) /\ x.status = "REQUESTED"
    BY AskedFigured
  <2>2. ret' = [ret EXCEPT ![r] = x] /\ back' = back /\ ret[r].status = "NONE"
    BY <1>3 DEF Request
  <2> HIDE DEF x
  <2> QED
    BY <2>1, <2>2, SumsWritten
(* A status written, before or after the goods arrive.                     *)
<1>4. ASSUME NEW at \in {"APPROVED", "REJECTED"}, ret' = [ret EXCEPT ![r].status = at],
             back' = back, ret[r].status \in {"REQUESTED", "APPROVED"}
      PROVE  SumsOK'
  <2> DEFINE x == [ret[r] EXCEPT !.status = at]
  <2>1. Figured(r, x) /\ x.status = at
    BY <1>2, <1>4, StatusFigured
  <2>2. ret' = [ret EXCEPT ![r] = x]
    BY <1>4
  <2> HIDE DEF x
  <2> QED
    BY <1>4, <2>1, <2>2, SumsWritten
<1>5. CASE Approve(r)
  BY <1>4, <1>5 DEF Approve
<1>6. ASSUME NEW restock, Receive(r, restock) PROVE SumsOK'
  <2> DEFINE x == [ret[r] EXCEPT !.status = "RECEIVED"]
  <2>1. /\ ret[r].status = "APPROVED" /\ ret' = [ret EXCEPT ![r] = x]
        /\ back' = Plus(back, ret[r].lines)
    BY <1>6 DEF Receive, Arrive
  <2>2. Figured(r, x) /\ x.status = "RECEIVED" /\ x.lines = ret[r].lines
    BY <1>2, <2>1, StatusFigured
  <2> HIDE DEF x
  <2> QED
    BY <2>1, <2>2, SumsArrive
<1>7. ASSUME NEW typed \in Given \cup {0}, NEW key, Complete(r, typed, key)
      PROVE  SumsOK'
  <2> DEFINE amount == IF typed = 0 THEN ret[r].refund ELSE typed
             t == typed # 0
             x == [status |-> "COMPLETED", lines |-> ret[r].lines,
                   refund |-> amount, typed |-> t, by |-> ret[r].by]
  <2>1. /\ ret[r].status = "RECEIVED" /\ ret' = [ret EXCEPT ![r] = x] /\ back' = back
    BY <1>7 DEF Complete, MayComplete, RowsOK
  <2>2. amount \in Nat /\ t \in BOOLEAN /\ (t \/ amount <= Worth(r, ret[r].lines))
    BY <1>2, <2>1, SoldOrderAssumption DEF Figured
  <2> HIDE DEF amount, t
  <2>3. Figured(r, x) /\ x.status = "COMPLETED" /\ x.lines = ret[r].lines
    BY <2>2 DEF Figured
  <2> HIDE DEF x
  <2> QED
    BY <2>1, <2>3, SumsWritten
<1>8. CASE RejectFind(r)
  BY <1>8, SumsKept DEF RejectFind
<1>9. CASE RejectSave(r)
  <2>1. ret[r].status \in {"REQUESTED", "APPROVED"}
    BY <1>9 DEF RejectSave, PaidInv
  <2> QED
    BY <1>4, <1>9, <2>1, SumsKept DEF RejectSave
<1> QED
  BY <1>1, <1>3, <1>5, <1>6, <1>7, <1>8, <1>9

LEMMA CounterSums ==
  ASSUME OrderTypeOK, RowsOK, RowsOK', SumsOK, CounterNext
  PROVE  SumsOK'
<1> USE DEF money, goods, orderVars
<1>1. ASSUME NEW r \in Return, NEW lines \in Basket, NEW restock, NEW key, NEW by,
             CounterReturned(r, lines, restock, key, by)
      PROVE  SumsOK'
  <2> DEFINE row == Asked(r, lines, "COMPLETED", by)
  <2>1. Figured(r, row) /\ row.status = "COMPLETED" /\ row.lines = lines
    BY AskedFigured
  <2>2. /\ ret[r].status = "NONE" /\ ret' = [ret EXCEPT ![r] = row]
        /\ back' = Plus(back, lines)
    BY <1>1 DEF CounterReturned, Arrive
  <2> HIDE DEF row
  <2> QED
    BY <2>1, <2>2, SumsArrive
<1>2. CASE VoidFind \/ VoidLocked
  BY <1>2, SumsKept DEF VoidFind, VoidLocked, returnVars
<1> QED
  BY <1>1, <1>2 DEF CounterNext, PosReturn, ExchangeAt

LEMMA StepSums ==
  ASSUME Typed, Typed', PaidInv, SumsOK, [Next]_vars
  PROVE  SumsOK'
<1>1. OrderTypeOK /\ RowsOK /\ RowsOK'
  BY DEF Typed
<1>2. CASE OrderNext /\ UNCHANGED <<parcelVars, returnVars, voids>>
  <2>1. ret' = ret /\ back' = back
    BY <1>2 DEF OrderNext, Advance, Pack, Cancel, TakeMoney, GatewayCaptures, GatewayFails,
              RefundByStaff, goods,
                returnVars
  <2> QED
    BY <1>1, <2>1, SumsKept
<1>3. CASE ParcelNext /\ UNCHANGED <<returnVars, voids>>
  <2>1. ret' = ret /\ back' = back
    BY <1>3 DEF ParcelNext, Book, RecordEvent, OrderInStep, RecordEventElsewhere,
                EditFind, EditSave, Destroy, orderVars, goods, returnVars
  <2> QED
    BY <1>1, <2>1, SumsKept
<1>4. CASE UNCHANGED vars
  BY <1>1, <1>4, SumsKept DEF vars, orderVars, goods, returnVars
<1> QED
  BY <1>1, <1>2, <1>3, <1>4, ReturnSums, CounterSums DEF Next

LEMMA InitSums == ASSUME Init PROVE SumsOK
<1>1. RowsOK
  BY InitTyped DEF Typed
<1>2. ret = [r \in Return |-> NoRow] /\ back = [l \in Line |-> 0]
  BY DEF Init, OrderInit, ReturnInit
<1>3. FiguresOK
  <2>1. \A r \in Return : Worth(r, Nothing) \in Nat
    BY WorthHalf, NothingBasket
  <2>2. /\ NoRow.refund = 0 /\ NoRow.typed \in BOOLEAN /\ ~NoRow.typed
        /\ NoRow.lines = Nothing
    BY DEF NoRow
  <2>3. ASSUME NEW r \in Return PROVE Figured(r, NoRow)
    <3>1. Worth(r, NoRow.lines) \in Nat
      BY <2>1, <2>2
    <3> DEFINE v == Worth(r, NoRow.lines)
    <3>2. NoRow.refund <= v
      <4>1. v \in Nat
        BY <3>1
      <4> HIDE DEF v
      <4> QED
        BY <2>2, <4>1
    <3> QED
      BY <2>2, <3>2 DEF Figured
  <2> HIDE DEF NoRow
  <2> QED
    BY <1>2, <2>3 DEF FiguresOK
<1>4. CameBack = {}
  BY <1>2 DEF CameBack, NoRow
<1>5. BackAdds
  BY <1>2, <1>4, SumEmpty DEF BackAdds, LinesOf
<1> QED
  BY <1>3, <1>5 DEF SumsOK

(* In every state each return's figure is within its worth, unless staff   *)
(* typed it, and what the order counts as returned is what its returns     *)
(* brought: the invariant the three theorems below follow from.            *)
THEOREM SumsAlways == Spec => []SumsOK
BY InitSums, StepSums, TypesKept, PaidAlways, PTL DEF Spec

(* However returns of one unit race, what the order calls returned is what *)
(* the received returns hold, within what was sold, and the shelf got no   *)
(* more than that until a void (receiveLocked, counterReturn, void).       *)
THEOREM BackIsWithinSold == Spec => []BackWithinSold
<1>1. SumsOK /\ ReturnedWithinSold => BackWithinSold
  BY DEF SumsOK, BackAdds, LinesOf, ReturnedWithinSold, BackWithinSold
<1> QED
  BY <1>1, SumsAlways, WithinSold, PTL

(* However an order is split into returns, what they refund of their own   *)
(* figures is what came back is worth, but for the rounding of each and    *)
(* the shipping of those that were the shop's fault (returnShares,         *)
(* requestReturn and completeLocked).                                      *)
THEOREM RefundsAddUp == Spec => []ReturnsAddUp
<1>1. Typed /\ SumsOK => ReturnsAddUp
  BY FiguresAddUp DEF Typed, SumsOK
<1> QED
  BY <1>1, TypesKept, SumsAlways, PTL

VoidsOK == voids \in 0 .. MaxVoids

(* The types of everything, the figures of returns among them: orders,     *)
(* parcels, returns and voids under way, whatever their handlers do.       *)
THEOREM TypeCorrect == Spec => []TypeOK
<1>1. Init => VoidsOK
  BY CounterAssumption DEF Init, CounterInit, VoidsOK
<1>2. VoidsOK /\ [Next]_vars => VoidsOK'
  <2> SUFFICES ASSUME VoidsOK, [Next]_vars PROVE VoidsOK'
    OBVIOUS
  <2>1. voids' = voids \/ VoidFind \/ VoidLocked
    BY DEF Next, CounterNext, PosReturn, ExchangeAt, CounterReturned, vars
  <2> QED
    BY <2>1, CounterAssumption DEF VoidsOK, VoidFind, VoidLocked
<1>3. Typed /\ SumsOK /\ VoidsOK => TypeOK
  <2> SUFFICES ASSUME Typed, SumsOK, VoidsOK PROVE TypeOK
    OBVIOUS
  <2>1. ASSUME NEW r \in Return PROVE ret[r] \in ReturnRow
    <3>1. Row(ret[r]) /\ Figured(r, ret[r])
      BY DEF Typed, RowsOK, SumsOK, FiguresOK
    <3> QED
      BY <3>1 DEF Row, Figured, ReturnRow
  <2>2. ReturnTypeOK
    BY <2>1 DEF Typed, RowsOK, ReturnTypeOK
  <2> QED
    BY <2>2 DEF Typed, TypeOK, CounterTypeOK, VoidsOK
<1> QED
  BY <1>1, <1>2, <1>3, TypesKept, SumsAlways, PTL DEF Spec
=============================================================================
