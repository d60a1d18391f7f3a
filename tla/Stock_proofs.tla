--------------------------- MODULE Stock_proofs ---------------------------
(***************************************************************************)
(* Proofs about Stock, for every finite set of branches and orders, every  *)
(* set of variants and keys and both settings of the oversell flag.        *)
(*                                                                         *)
(* Every step leaves a row alone or posts entries to it, so the proofs go  *)
(* by row: RowInv says what a row keeps, PostRow that one posting keeps    *)
(* it, and one lemma for each way a method posts to a row.                 *)
(***************************************************************************)
EXTENDS Stock, Sums

RaisedWhereReceived(s) ==
  \A i \in DOMAIN s.entries :
    /\ s.entries[i].type = "ADJUSTMENT"
    /\ s.entries[i].quantity > 0
    => \E j \in 1 .. (i - 1) :
         s.entries[j].type \in {"PURCHASE", "TRANSFER_IN"}

(* What one row keeps, whatever is posted to it.                           *)
RowInv(s) ==
  /\ s \in Shelf
  /\ Replays(s)
  /\ ~AllowOversell => s.onHand >= 0
  /\ RaisedWhereReceived(s)

(* The inductive invariant: the types of the other variables, and RowInv   *)
(* of every row.                                                           *)
IInv ==
  /\ order \in [Order -> OrderState]
  /\ request \in [Client -> Requests \cup {NoRequest}]
  /\ transfers \subseteq Transfer
  /\ counterSellsReserved \in BOOLEAN
  /\ shelf = [r \in Row |-> shelf[r]]
  /\ \A r \in Row : RowInv(shelf[r])

-----------------------------------------------------------------------------
(* A row is a pair of a branch and a variant.                              *)
LEMMA RowPair ==
  ASSUME NEW r \in Row
  PROVE  r[1] \in Branch /\ r[2] \in Variant /\ r = <<r[1], r[2]>>
BY DEF Row

(* What one posting leaves on a row.                                       *)
LEMMA PostFields ==
  ASSUME NEW s \in Shelf, NEW type \in TransactionType, NEW d \in Int,
         NEW o \in Order \cup {NoOrder}, NEW key \in Key \cup {NoKey}
  PROVE  LET t == Post(s, type, d, o, key)
         IN  /\ t.onHand = s.onHand + (IF type \in Reserving THEN 0 ELSE d)
             /\ t.reserved = s.reserved + (IF type \in Reserving THEN d ELSE 0)
             /\ Len(t.entries) = Len(s.entries) + 1
             /\ DOMAIN t.entries = 1 .. (Len(s.entries) + 1)
             /\ DOMAIN s.entries = 1 .. Len(s.entries)
             /\ \A i \in 1 .. Len(s.entries) : t.entries[i] = s.entries[i]
             /\ t.entries[Len(s.entries) + 1] =
                  [type |-> type, quantity |-> d, onHandAfter |-> t.onHand,
                   reservedAfter |-> t.reserved, order |-> o, key |-> key]
BY DEF Post, Shelf

(* One posting keeps RowInv: the reserved figure stays natural, a movement *)
(* of stock stays within the shelf, and a raise follows a receipt.         *)
LEMMA PostRow ==
  ASSUME NEW s, RowInv(s), NEW type \in TransactionType, NEW d \in Int,
         NEW o \in Order \cup {NoOrder}, NEW key \in Key \cup {NoKey},
         type \in Reserving => s.reserved + d >= 0,
         ~AllowOversell /\ type \notin Reserving => s.onHand + d >= 0,
         type = "ADJUSTMENT" /\ d > 0 => Received(s)
  PROVE  RowInv(Post(s, type, d, o, key))
<1> DEFINE t == Post(s, type, d, o, key)
           n == Len(s.entries)
<1>1. s \in Shelf /\ n \in Nat
  BY DEF RowInv, Shelf
<1>2. /\ t.onHand = s.onHand + (IF type \in Reserving THEN 0 ELSE d)
      /\ t.reserved = s.reserved + (IF type \in Reserving THEN d ELSE 0)
      /\ Len(t.entries) = n + 1
      /\ DOMAIN t.entries = 1 .. (n + 1)
      /\ DOMAIN s.entries = 1 .. n
      /\ \A i \in 1 .. n : t.entries[i] = s.entries[i]
      /\ t.entries[n + 1] =
           [type |-> type, quantity |-> d, onHandAfter |-> t.onHand,
            reservedAfter |-> t.reserved, order |-> o, key |-> key]
  BY <1>1, PostFields, SMTT(40)
<1>3. s.onHand \in Int /\ s.reserved \in Nat
  BY <1>1 DEF Shelf
<1>4. t \in Shelf
  <2>1. t.onHand \in Int /\ t.reserved \in Nat
    BY <1>2, <1>3
  <2>2. [type |-> type, quantity |-> d, onHandAfter |-> t.onHand,
         reservedAfter |-> t.reserved, order |-> o, key |-> key] \in Entry
    BY <2>1 DEF Entry
  <2> QED
    BY <1>1, <2>1, <2>2 DEF Shelf, Post
<1>5. Replays(t)
  <2>1. Replays(s)
    BY DEF RowInv
  <2>2. \A i \in 1 .. (n + 1) :
          /\ OnHandBefore(t, i) = OnHandBefore(s, i)
          /\ ReservedBefore(t, i) = ReservedBefore(s, i)
    BY <1>1, <1>2 DEF OnHandBefore, ReservedBefore
  <2>3. /\ s.onHand = OnHandBefore(s, n + 1)
        /\ s.reserved = ReservedBefore(s, n + 1)
    BY <2>1 DEF Replays
  <2>4. ASSUME NEW i \in 1 .. n
        PROVE  IF t.entries[i].type \in Reserving
               THEN /\ t.entries[i].onHandAfter = OnHandBefore(t, i)
                    /\ t.entries[i].reservedAfter =
                         ReservedBefore(t, i) + t.entries[i].quantity
               ELSE /\ t.entries[i].onHandAfter =
                         OnHandBefore(t, i) + t.entries[i].quantity
                    /\ t.entries[i].reservedAfter = ReservedBefore(t, i)
    <3>1. t.entries[i] = s.entries[i] /\ i \in DOMAIN s.entries /\ i \in 1 .. (n + 1)
      BY <1>1, <1>2
    <3> QED
      BY <2>1, <2>2, <3>1 DEF Replays
  <2>5. IF t.entries[n + 1].type \in Reserving
        THEN /\ t.entries[n + 1].onHandAfter = OnHandBefore(t, n + 1)
             /\ t.entries[n + 1].reservedAfter =
                  ReservedBefore(t, n + 1) + t.entries[n + 1].quantity
        ELSE /\ t.entries[n + 1].onHandAfter =
                  OnHandBefore(t, n + 1) + t.entries[n + 1].quantity
             /\ t.entries[n + 1].reservedAfter = ReservedBefore(t, n + 1)
    BY <1>1, <1>2, <1>3, <2>2, <2>3
  <2>6. /\ t.onHand = OnHandBefore(t, Len(t.entries) + 1)
        /\ t.reserved = ReservedBefore(t, Len(t.entries) + 1)
    BY <1>1, <1>2 DEF OnHandBefore, ReservedBefore
  <2>7. ASSUME NEW i \in DOMAIN t.entries
        PROVE  IF t.entries[i].type \in Reserving
               THEN /\ t.entries[i].onHandAfter = OnHandBefore(t, i)
                    /\ t.entries[i].reservedAfter =
                         ReservedBefore(t, i) + t.entries[i].quantity
               ELSE /\ t.entries[i].onHandAfter =
                         OnHandBefore(t, i) + t.entries[i].quantity
                    /\ t.entries[i].reservedAfter = ReservedBefore(t, i)
    <3>1. i \in 1 .. n \/ i = n + 1
      BY <1>1, <1>2
    <3> HIDE DEF t
    <3> QED
      BY <2>4, <2>5, <3>1
  <2> HIDE DEF t
  <2> QED
    BY <2>6, <2>7 DEF Replays
<1>6. ~AllowOversell => t.onHand >= 0
  BY <1>2, <1>3 DEF RowInv
<1>7. RaisedWhereReceived(t)
  <2> SUFFICES ASSUME NEW i \in DOMAIN t.entries,
                      t.entries[i].type = "ADJUSTMENT",
                      t.entries[i].quantity > 0
               PROVE  \E j \in 1 .. (i - 1) :
                        t.entries[j].type \in {"PURCHASE", "TRANSFER_IN"}
    BY DEF RaisedWhereReceived
  <2>1. CASE i = n + 1
    <3>1. Received(s)
      BY <1>2, <2>1
    <3> QED
      BY <1>1, <1>2, <2>1, <3>1 DEF Received
  <2>2. CASE i \in 1 .. n
    <3>1. \A j \in 1 .. n : t.entries[j] = s.entries[j]
      BY <1>2
    <3>2. i \in DOMAIN s.entries /\ t.entries[i] = s.entries[i]
      BY <1>2, <2>2
    <3>3. PICK j \in 1 .. (i - 1) :
                 s.entries[j].type \in {"PURCHASE", "TRANSFER_IN"}
      BY <3>2 DEF RowInv, RaisedWhereReceived
    <3>4. j \in 1 .. n
      BY <1>1, <2>2
    <3> HIDE DEF t
    <3> QED
      BY <3>1, <3>3, <3>4
  <2> QED
    BY <1>1, <1>2, <2>1, <2>2
<1> QED
  BY <1>4, <1>5, <1>6, <1>7 DEF RowInv

-----------------------------------------------------------------------------
(* The ways a method posts to one row.                                     *)

(* A sale's lines, checked together, leave the shelf covered.              *)
LEMMA SaleRow ==
  ASSUME NEW s, RowInv(s), NEW pair \in (0 .. MaxQty) \X (0 .. MaxQty),
         CanReduce(s, Asked(pair))
  PROVE  RowInv(PostEach(s, "SALE", -1, pair))
<1> DEFINE first == IF pair[1] = 0 THEN s
                    ELSE Post(s, "SALE", -1 * pair[1], NoOrder, NoKey)
<1> USE StockAssumption
<1>1. pair[1] \in Nat /\ pair[2] \in Nat /\ s \in Shelf /\ s.onHand \in Int
  BY DEF RowInv, Shelf
<1>2. "SALE" \in TransactionType /\ "SALE" \notin Reserving
  BY DEF TransactionType, Reserving
<1>3. ~AllowOversell => s.onHand >= pair[1] + pair[2]
  BY DEF CanReduce, Asked
<1>4. RowInv(Post(s, "SALE", -1 * pair[1], NoOrder, NoKey))
  BY <1>1, <1>2, <1>3, PostRow
<1>5. RowInv(first) /\ first.onHand = s.onHand - pair[1]
  <2>1. -1 * pair[1] \in Int
    BY <1>1
  <2>2. Post(s, "SALE", -1 * pair[1], NoOrder, NoKey).onHand
          = s.onHand + (-1 * pair[1])
    BY <1>2 DEF Post
  <2> QED
    BY <1>1, <1>4, <2>2
<1> HIDE DEF first
<1>6. RowInv(Post(first, "SALE", -1 * pair[2], NoOrder, NoKey))
  BY <1>1, <1>2, <1>3, <1>5, PostRow
<1> QED
  BY <1>5, <1>6 DEF PostEach, first

(* Goods brought back go on the shelf.                                     *)
LEMMA ReturnRow ==
  ASSUME NEW s, RowInv(s), NEW pair \in (0 .. MaxQty) \X (0 .. MaxQty)
  PROVE  RowInv(PostEach(s, "RETURN", 1, pair))
<1> DEFINE first == IF pair[1] = 0 THEN s
                    ELSE Post(s, "RETURN", 1 * pair[1], NoOrder, NoKey)
<1> USE StockAssumption
<1>1. pair[1] \in Nat /\ pair[2] \in Nat /\ s.onHand \in Int
  BY DEF RowInv, Shelf
<1>2. "RETURN" \in TransactionType /\ "RETURN" \notin Reserving
  BY DEF TransactionType, Reserving
<1>3. RowInv(Post(s, "RETURN", 1 * pair[1], NoOrder, NoKey))
  BY <1>1, <1>2, PostRow DEF RowInv
<1>4. RowInv(first) /\ first.onHand \in Int
  BY <1>3 DEF RowInv, Shelf
<1> HIDE DEF first
<1>5. RowInv(Post(first, "RETURN", 1 * pair[2], NoOrder, NoKey))
  BY <1>1, <1>2, <1>4, PostRow DEF RowInv
<1> QED
  BY <1>4, <1>5 DEF PostEach, first

(* A counted figure, raised only where the branch has received the variant.*)
LEMMA AdjustedRow ==
  ASSUME NEW s, RowInv(s), NEW n \in 0 .. MaxQty, CanRaise(s, n - s.onHand)
  PROVE  RowInv(Adjusted(s, n))
<1> USE StockAssumption
<1>1. n \in Nat /\ s.onHand \in Int /\ n - s.onHand \in Int
  BY DEF RowInv, Shelf
<1>2. "ADJUSTMENT" \in TransactionType /\ "ADJUSTMENT" \notin Reserving
  BY DEF TransactionType, Reserving
<1>3. RowInv(Post(s, "ADJUSTMENT", n - s.onHand, NoOrder, NoKey))
  BY <1>1, <1>2, PostRow DEF CanRaise
<1> QED
  BY <1>3 DEF Adjusted

(* A release is clamped at what the row holds, and moves no stock.         *)
LEMMA ReleasedRow ==
  ASSUME NEW s, RowInv(s), NEW q \in Nat, NEW o \in Order
  PROVE  RowInv(Released(s, q, o)) /\ Released(s, q, o).onHand = s.onHand
<1> DEFINE d == Lesser(q, s.reserved)
<1>1. s \in Shelf /\ s.onHand \in Int /\ s.reserved \in Nat
  BY DEF RowInv, Shelf
<1>2. d \in Nat /\ -d \in Int /\ s.reserved + (-d) >= 0
  BY <1>1 DEF Lesser
<1>3. "RESERVATION_RELEASE" \in TransactionType
      /\ "RESERVATION_RELEASE" \in Reserving
  BY DEF TransactionType, Reserving
<1> HIDE DEF d
<1>4. RowInv(Post(s, "RESERVATION_RELEASE", -d, o, NoKey))
  BY <1>2, <1>3, PostRow
<1>5. Post(s, "RESERVATION_RELEASE", -d, o, NoKey).onHand = s.onHand + 0
  BY <1>3 DEF Post
<1> QED
  BY <1>1, <1>4, <1>5 DEF Released, d

(* Packing: the reservation let go, then the goods taken.                  *)
LEMMA ConsumedRow ==
  ASSUME NEW s, RowInv(s), NEW q \in Nat, NEW o \in Order, CanReduce(s, q)
  PROVE  RowInv(Post(Released(s, q, o), "SALE", -q, o, NoKey))
<1>1. s.onHand \in Int
  BY DEF RowInv, Shelf
<1>2. "SALE" \in TransactionType /\ "SALE" \notin Reserving
  BY DEF TransactionType, Reserving
<1>3. ~AllowOversell => s.onHand + (-q) >= 0
  BY <1>1 DEF CanReduce
<1> QED
  BY <1>1, <1>2, <1>3, ReleasedRow, PostRow

(* A line of a transfer, at either of its branches or at another.          *)
LEMMA MovedByRow ==
  ASSUME NEW s, RowInv(s), NEW r \in Row, NEW t \in Requests,
         t.kind = "transfer",
         r[1] = t.source => CanReduce(s, t.lines[r[2]])
  PROVE  RowInv(MovedBy(s, r, t))
<1> DEFINE q == t.lines[r[2]]
<1> USE StockAssumption
<1>1. q \in Nat /\ -q \in Int
  BY RowPair DEF Requests, WriteOff, Transfer, Lines
<1>2. s.onHand \in Int
  BY DEF RowInv, Shelf
<1>3. {"TRANSFER_OUT", "TRANSFER_IN"} \subseteq TransactionType \ Reserving
  BY DEF TransactionType, Reserving
<1> HIDE DEF q
<1>4. r[1] = t.source => RowInv(Post(s, "TRANSFER_OUT", -q, NoOrder, NoKey))
  BY <1>1, <1>2, <1>3, PostRow DEF CanReduce, q
<1>5. RowInv(Post(s, "TRANSFER_IN", q, NoOrder, NoKey))
  BY <1>1, <1>2, <1>3, PostRow DEF RowInv
<1> QED
  BY <1>4, <1>5 DEF MovedBy, q

-----------------------------------------------------------------------------
(* The initial state and each step.                                        *)

LEMMA InitIInv == Init => IInv
<1> SUFFICES ASSUME Init PROVE IInv
  OBVIOUS
<1> USE DEF Init
<1>1. ASSUME NEW r \in Row PROVE RowInv(shelf[r])
  <2>1. shelf[r] = [onHand |-> 0, reserved |-> 0, entries |-> <<>>]
    OBVIOUS
  <2> QED
    BY <2>1 DEF RowInv, Shelf, Replays, OnHandBefore, ReservedBefore,
                RaisedWhereReceived
<1>2. order \in [Order -> OrderState]
  BY StockAssumption DEF OrderState, Lines
<1> QED
  BY <1>1, <1>2 DEF IInv

LEMMA MoveStockIInv == IInv /\ MoveStock => IInv'
<1> SUFFICES ASSUME IInv, MoveStock PROVE IInv'
  OBVIOUS
<1> USE StockAssumption
<1>1. \A r \in Row : RowInv(shelf[r]) /\ shelf[r].onHand \in Int
  BY DEF IInv, RowInv, Shelf
<1>2. CASE \E r \in Row, q \in 1 .. MaxDelivery : Receive(r, q)
  <2> PICK r \in Row, q \in 1 .. MaxDelivery : Receive(r, q)
    BY <1>2
  <2>1. "PURCHASE" \in TransactionType /\ "PURCHASE" \notin Reserving
    BY DEF TransactionType, Reserving
  <2>2. RowInv(Post(shelf[r], "PURCHASE", q, NoOrder, NoKey))
    BY <1>1, <2>1, PostRow DEF RowInv
  <2> QED
    BY <1>1, <2>2 DEF Receive, IInv
<1>3. CASE \E r \in Row, q \in 1 .. MaxQty : ReturnToSupplier(r, q)
  <2> PICK r \in Row, q \in 1 .. MaxQty : ReturnToSupplier(r, q)
    BY <1>3
  <2>1. "PURCHASE_RETURN" \in TransactionType /\ "PURCHASE_RETURN" \notin Reserving
    BY DEF TransactionType, Reserving
  <2>2. shelf[r].onHand + (-q) >= 0 /\ -q \in Int
    BY <1>1 DEF ReturnToSupplier
  <2>3. RowInv(Post(shelf[r], "PURCHASE_RETURN", -q, NoOrder, NoKey))
    BY <1>1, <2>1, <2>2, PostRow
  <2> QED
    BY <1>1, <2>3 DEF ReturnToSupplier, IInv
<1>4. CASE \E b \in Branch, basket \in Basket : Sell(b, basket)
  <2> PICK b \in Branch, basket \in Basket : Sell(b, basket)
    BY <1>4
  <2>1. ASSUME NEW r \in Row, r[1] = b
        PROVE  RowInv(PostEach(shelf[r], "SALE", -1, basket[r[2]]))
    <3>1. CanReduce(shelf[r], Asked(basket[r[2]]))
      BY <2>1, RowPair DEF Sell
    <3>2. basket[r[2]] \in (0 .. MaxQty) \X (0 .. MaxQty)
      BY RowPair DEF Basket
    <3> QED
      BY <1>1, <3>1, <3>2, SaleRow
  <2> QED
    BY <1>1, <2>1 DEF Sell, IInv
<1>5. CASE \E b \in Branch, basket \in Basket : RestockReturn(b, basket)
  <2> PICK b \in Branch, basket \in Basket : RestockReturn(b, basket)
    BY <1>5
  <2>1. ASSUME NEW r \in Row
        PROVE  RowInv(PostEach(shelf[r], "RETURN", 1, basket[r[2]]))
    <3>1. basket[r[2]] \in (0 .. MaxQty) \X (0 .. MaxQty)
      BY RowPair DEF Basket
    <3> QED
      BY <1>1, <3>1, ReturnRow
  <2> QED
    BY <1>1, <2>1 DEF RestockReturn, IInv
<1>6. CASE \E r \in Row, n \in 0 .. MaxQty : Adjust(r, n)
  <2> PICK r \in Row, n \in 0 .. MaxQty : Adjust(r, n)
    BY <1>6
  <2>1. RowInv(Adjusted(shelf[r], n))
    BY <1>1, AdjustedRow DEF Adjust
  <2> QED
    BY <1>1, <2>1 DEF Adjust, IInv
<1>7. CASE \E b \in Branch, V \in SUBSET Variant :
             \E counted \in [V -> 0 .. MaxQty] : ApplyStockCount(b, counted)
  <2> PICK b \in Branch, V \in SUBSET Variant :
             \E counted \in [V -> 0 .. MaxQty] : ApplyStockCount(b, counted)
    BY <1>7
  <2> PICK counted \in [V -> 0 .. MaxQty] : ApplyStockCount(b, counted)
    OBVIOUS
  <2>1. ASSUME NEW r \in Row, r[1] = b, r[2] \in DOMAIN counted
        PROVE  RowInv(Adjusted(shelf[r], counted[r[2]]))
    <3>1. CanRaise(shelf[r], counted[r[2]] - shelf[r].onHand)
      BY <2>1, RowPair DEF ApplyStockCount
    <3>2. counted[r[2]] \in 0 .. MaxQty
      BY <2>1
    <3> QED
      BY <1>1, <3>1, <3>2, AdjustedRow
  <2> QED
    BY <1>1, <2>1 DEF ApplyStockCount, IInv
<1> QED
  BY <1>2, <1>3, <1>4, <1>5, <1>6, <1>7 DEF MoveStock

LEMMA KeyedRequestIInv == IInv /\ KeyedRequest => IInv'
<1> SUFFICES ASSUME IInv, KeyedRequest PROVE IInv'
  OBVIOUS
<1> USE StockAssumption
<1>1. \A r \in Row : RowInv(shelf[r]) /\ shelf[r].onHand \in Int
  BY DEF IInv, RowInv, Shelf
<1>2. CASE \E c \in Client, r \in Row, q \in 1 .. MaxQty, key \in Key :
             WriteOffLookup(c, r, q, key)
  BY <1>2 DEF WriteOffLookup, IInv, Requests, WriteOff, Transfer
<1>3. CASE \E c \in Client : WriteOffLocked(c)
  <2> PICK c \in Client : WriteOffLocked(c)
    BY <1>3
  <2> DEFINE w == request[c]
  <2>1. w \in Requests /\ w.kind = "write_off"
    BY DEF WriteOffLocked, IInv
  <2>2. w.row \in Row /\ w.quantity \in Nat /\ w.key \in Key
    BY <2>1 DEF Requests, WriteOff, Transfer
  <2>3. "DAMAGE" \in TransactionType /\ "DAMAGE" \notin Reserving
    BY DEF TransactionType, Reserving
  <2> HIDE DEF w
  <2>4. CanReduce(shelf[w.row], w.quantity) =>
          RowInv(Post(shelf[w.row], "DAMAGE", -w.quantity, NoOrder, w.key))
    <3> SUFFICES ASSUME CanReduce(shelf[w.row], w.quantity)
                 PROVE  RowInv(Post(shelf[w.row], "DAMAGE", -w.quantity,
                                    NoOrder, w.key))
      OBVIOUS
    <3>1. -w.quantity \in Int
      BY <2>2
    <3>2. ~AllowOversell => shelf[w.row].onHand + (-w.quantity) >= 0
      BY <1>1, <2>2 DEF CanReduce
    <3> QED
      BY <1>1, <2>2, <2>3, <3>1, <3>2, PostRow
  <2>5. \/ shelf' = shelf
        \/ /\ CanReduce(shelf[w.row], w.quantity)
           /\ shelf' = [shelf EXCEPT ![w.row] =
                          Post(@, "DAMAGE", -w.quantity, NoOrder, w.key)]
    BY DEF WriteOffLocked, w
  <2>6. \A r \in Row : RowInv(shelf'[r])
    BY <1>1, <2>2, <2>4, <2>5 DEF IInv
  <2>7. shelf' = [r \in Row |-> shelf'[r]]
    BY <2>5 DEF IInv
  <2> QED
    BY <2>6, <2>7 DEF WriteOffLocked, IInv
<1>4. CASE \E c \in Client, b1, b2 \in Branch, lines \in Lines, key \in Key :
             TransferLookup(c, b1, b2, lines, key)
  BY <1>4 DEF TransferLookup, IInv, Requests, WriteOff, Transfer
<1>5. CASE \E c \in Client : TransferLocked(c)
  <2> PICK c \in Client : TransferLocked(c)
    BY <1>5
  <2> DEFINE t == request[c]
  <2>1. t \in Requests /\ t.kind = "transfer" /\ t.key \in Key
    BY DEF TransferLocked, IInv, Requests, WriteOff, Transfer
  <2>2. \/ shelf' = shelf
        \/ /\ \A v \in Variant : CanReduce(shelf[<<t.source, v>>], t.lines[v])
           /\ shelf' = [r \in Row |-> MovedBy(shelf[r], r, t)]
    BY DEF TransferLocked
  <2> HIDE DEF t
  <2>3. ASSUME NEW r \in Row,
               \A v \in Variant : CanReduce(shelf[<<t.source, v>>], t.lines[v])
        PROVE  RowInv(MovedBy(shelf[r], r, t))
    <3>1. r[1] = t.source => CanReduce(shelf[r], t.lines[r[2]])
      BY <2>3, RowPair
    <3> QED
      BY <1>1, <2>1, <3>1, MovedByRow
  <2>4. \A r \in Row : RowInv(shelf'[r])
    BY <1>1, <2>2, <2>3
  <2>5. shelf' = [r \in Row |-> shelf'[r]]
    BY <2>2 DEF IInv
  <2>6. transfers' \subseteq Transfer
    BY <2>1 DEF TransferLocked, IInv, t, Requests, WriteOff, Transfer
  <2> QED
    BY <2>4, <2>5, <2>6 DEF TransferLocked, IInv
<1> QED
  BY <1>2, <1>3, <1>4, <1>5 DEF KeyedRequest

LEMMA ForOrderIInv == IInv /\ ForOrder => IInv'
<1> SUFFICES ASSUME IInv, ForOrder PROVE IInv'
  OBVIOUS
<1> USE StockAssumption
<1>1. \A r \in Row : RowInv(shelf[r]) /\ shelf[r].reserved \in Nat
  BY DEF IInv, RowInv, Shelf
<1>2. CASE \E o \in Order, b \in Branch, lines \in Lines : Reserve(o, b, lines)
  <2> PICK o \in Order, b \in Branch, lines \in Lines : Reserve(o, b, lines)
    BY <1>2
  <2>1. "RESERVATION" \in TransactionType /\ "RESERVATION" \in Reserving
    BY DEF TransactionType, Reserving
  <2>2. ASSUME NEW r \in Row
        PROVE  RowInv(Post(shelf[r], "RESERVATION", lines[r[2]], o, NoKey))
    <3>1. lines[r[2]] \in Nat
      BY RowPair DEF Lines
    <3> QED
      BY <1>1, <2>1, <3>1, PostRow
  <2>3. order' \in [Order -> OrderState]
    BY DEF Reserve, IInv, OrderState
  <2> QED
    BY <1>1, <2>2, <2>3 DEF Reserve, IInv
<1>3. ASSUME NEW o \in Order
      PROVE  \A r \in Row : order[o].lines[r[2]] \in Nat
  BY RowPair DEF IInv, OrderState, Lines
<1>4. CASE \E o \in Order : ReleaseReservation(o)
  <2> PICK o \in Order : ReleaseReservation(o)
    BY <1>4
  <2>1. \A r \in Row : RowInv(Released(shelf[r], order[o].lines[r[2]], o))
    BY <1>1, <1>3, ReleasedRow
  <2>2. order' \in [Order -> OrderState]
    BY DEF ReleaseReservation, IInv, OrderState
  <2> QED
    BY <1>1, <2>1, <2>2 DEF ReleaseReservation, IInv
<1>5. CASE \E o \in Order : ConsumeReservation(o)
  <2> PICK o \in Order : ConsumeReservation(o)
    BY <1>5
  <2>1. ASSUME NEW r \in Pending(o)
        PROVE  RowInv(Post(Released(shelf[r], order[o].lines[r[2]], o), "SALE",
                           -order[o].lines[r[2]], o, NoKey))
    <3>1. r \in Row /\ CanReduce(shelf[r], order[o].lines[r[2]])
      BY DEF Pending, ConsumeReservation
    <3> QED
      BY <1>1, <1>3, <3>1, ConsumedRow
  <2>2. order' \in [Order -> OrderState]
    BY DEF ConsumeReservation, IInv, OrderState
  <2> QED
    BY <1>1, <2>1, <2>2 DEF ConsumeReservation, IInv
<1> QED
  BY <1>2, <1>4, <1>5 DEF ForOrder

LEMMA NextIInv == IInv /\ [Next]_vars => IInv'
<1>1. IInv /\ SetCounterSellsReserved => IInv'
  BY DEF IInv, SetCounterSellsReserved
<1>2. IInv /\ UNCHANGED vars => IInv'
  BY DEF IInv, vars
<1> QED
  BY <1>1, <1>2, MoveStockIInv, KeyedRequestIInv, ForOrderIInv DEF Next

(* The inductive invariant, of every row and every request under way.      *)
THEOREM Invariance == Spec => []IInv
BY InitIInv, NextIInv, PTL DEF Spec

(* Every variable keeps its type in every reachable state.                 *)
THEOREM TypeCorrect == Spec => []TypeOK
<1>1. IInv => TypeOK
  BY DEF IInv, TypeOK, RowInv
<1> QED
  BY <1>1, Invariance, PTL

(* The integrity of the stock ledger: whatever interleaving of sales,      *)
(* receipts, counts, transfers, reservations and packings ran, every row's *)
(* cache is what replaying its entries gives.                              *)
THEOREM LedgerAlwaysReplays == Spec => []LedgerReplays
<1>1. IInv => LedgerReplays
  BY DEF IInv, LedgerReplays, RowInv
<1> QED
  BY <1>1, Invariance, PTL

(* Unless overselling was configured, no shelf ever goes below zero.       *)
THEOREM ShelfAlwaysCovers == Spec => []ShelfCovers
<1>1. IInv => ShelfCovers
  BY DEF IInv, ShelfCovers, RowInv
<1> QED
  BY <1>1, Invariance, PTL

(* Nobody counts stock in where the branch never received any.             *)
THEOREM AlwaysRaisedWhereReceived == Spec => []RaisedOnlyWhereReceived
<1>1. IInv => RaisedOnlyWhereReceived
  BY DEF IInv, RaisedOnlyWhereReceived, RowInv, RaisedWhereReceived
<1> QED
  BY <1>1, Invariance, PTL

-----------------------------------------------------------------------------
(* One ledger row for a key.                                               *)

(* Nothing but entries without a key is added to a row.                    *)
Quiet(s, t) ==
  /\ Len(s.entries) <= Len(t.entries)
  /\ \A i \in DOMAIN t.entries :
       \/ i \in DOMAIN s.entries /\ t.entries[i] = s.entries[i]
       \/ t.entries[i].key = NoKey

LEMMA QuietPost ==
  ASSUME NEW s \in Shelf, NEW type, NEW d, NEW o
  PROVE  Quiet(s, Post(s, type, d, o, NoKey))
BY DEF Quiet, Post, Shelf

LEMMA QuietTwice ==
  ASSUME NEW s \in Shelf, NEW t \in Shelf, Quiet(s, t), NEW type, NEW d, NEW o
  PROVE  Quiet(s, Post(t, type, d, o, NoKey))
BY DEF Quiet, Post, Shelf

(* Rows that change quietly keep every key where it was.                   *)
LEMMA QuietKeepsKeys ==
  ASSUME KeyWrittenOnce, \A r \in Row : Quiet(shelf[r], shelf'[r])
  PROVE  KeyWrittenOnce'
<1> SUFFICES ASSUME NEW r1 \in Row, NEW r2 \in Row,
                    NEW i \in DOMAIN shelf'[r1].entries,
                    NEW j \in DOMAIN shelf'[r2].entries,
                    shelf'[r1].entries[i].key # NoKey,
                    shelf'[r1].entries[i].key = shelf'[r2].entries[j].key
             PROVE  r1 = r2 /\ i = j
  BY DEF KeyWrittenOnce
<1>1. i \in DOMAIN shelf[r1].entries /\ shelf'[r1].entries[i] = shelf[r1].entries[i]
  BY DEF Quiet
<1>2. j \in DOMAIN shelf[r2].entries /\ shelf'[r2].entries[j] = shelf[r2].entries[j]
  BY DEF Quiet
<1> QED
  BY <1>1, <1>2 DEF KeyWrittenOnce

LEMMA QuietSame ==
  ASSUME NEW s \in Shelf
  PROVE  Quiet(s, s)
BY DEF Quiet, Shelf

LEMMA QuietSale ==
  ASSUME NEW s, RowInv(s), NEW pair \in (0 .. MaxQty) \X (0 .. MaxQty),
         CanReduce(s, Asked(pair))
  PROVE  Quiet(s, PostEach(s, "SALE", -1, pair))
<1> DEFINE one == <<pair[1], 0>>
           first == IF pair[1] = 0 THEN s
                    ELSE Post(s, "SALE", -1 * pair[1], NoOrder, NoKey)
<1> USE StockAssumption
<1>1. one \in (0 .. MaxQty) \X (0 .. MaxQty) /\ CanReduce(s, Asked(one))
  BY DEF CanReduce, Asked, RowInv, Shelf
<1>2. PostEach(s, "SALE", -1, one) = first
  BY DEF PostEach
<1>3. first \in Shelf /\ s \in Shelf
  BY <1>1, <1>2, SaleRow DEF RowInv
<1>4. Quiet(s, first)
  BY <1>3, QuietPost, QuietSame
<1> HIDE DEF first
<1> QED
  BY <1>3, <1>4, QuietTwice DEF PostEach, first

LEMMA QuietReturn ==
  ASSUME NEW s, RowInv(s), NEW pair \in (0 .. MaxQty) \X (0 .. MaxQty)
  PROVE  Quiet(s, PostEach(s, "RETURN", 1, pair))
<1> DEFINE one == <<pair[1], 0>>
           first == IF pair[1] = 0 THEN s
                    ELSE Post(s, "RETURN", 1 * pair[1], NoOrder, NoKey)
<1> USE StockAssumption
<1>1. one \in (0 .. MaxQty) \X (0 .. MaxQty)
  OBVIOUS
<1>2. PostEach(s, "RETURN", 1, one) = first
  BY DEF PostEach
<1>3. first \in Shelf /\ s \in Shelf
  BY <1>1, <1>2, ReturnRow DEF RowInv
<1>4. Quiet(s, first)
  BY <1>3, QuietPost, QuietSame
<1> HIDE DEF first
<1> QED
  BY <1>3, <1>4, QuietTwice DEF PostEach, first

LEMMA QuietConsumed ==
  ASSUME NEW s, RowInv(s), NEW q \in Nat, NEW o \in Order
  PROVE  /\ Quiet(s, Released(s, q, o))
         /\ Quiet(s, Post(Released(s, q, o), "SALE", -q, o, NoKey))
<1>1. s \in Shelf /\ Released(s, q, o) \in Shelf
  BY ReleasedRow DEF RowInv
<1>2. Quiet(s, Released(s, q, o))
  BY <1>1, QuietPost, QuietSame DEF Released
<1> QED
  BY <1>1, <1>2, QuietTwice

(* Only a write-off carries its key into the ledger, and it looks the key  *)
(* up again under the lock of the row it writes.                           *)
LEMMA KeyStep ==
  ASSUME IInv, KeyWrittenOnce, Next
  PROVE  KeyWrittenOnce'
<1> USE StockAssumption
<1>1. \A r \in Row : RowInv(shelf[r]) /\ shelf[r] \in Shelf
  BY DEF IInv, RowInv
<1>2. CASE MoveStock
  <2>1. CASE \/ \E r \in Row, q \in 1 .. MaxDelivery : Receive(r, q)
             \/ \E r \in Row, q \in 1 .. MaxQty : ReturnToSupplier(r, q)
    <3>1. \A r \in Row : Quiet(shelf[r], shelf'[r])
      BY <1>1, <2>1, QuietPost, QuietSame DEF Receive, ReturnToSupplier, IInv
    <3> QED
      BY <3>1, QuietKeepsKeys
  <2>2. CASE \E b \in Branch, basket \in Basket : Sell(b, basket)
    <3> PICK b \in Branch, basket \in Basket : Sell(b, basket)
      BY <2>2
    <3>1. ASSUME NEW r \in Row PROVE Quiet(shelf[r], shelf'[r])
      <4>1. basket[r[2]] \in (0 .. MaxQty) \X (0 .. MaxQty)
        BY RowPair DEF Basket
      <4>2. r[1] = b => CanReduce(shelf[r], Asked(basket[r[2]]))
        BY RowPair DEF Sell
      <4>3. r[1] = b => Quiet(shelf[r], PostEach(shelf[r], "SALE", -1, basket[r[2]]))
        BY <1>1, <4>1, <4>2, QuietSale
      <4> QED
        BY <1>1, <4>3, QuietSame DEF Sell
    <3> QED
      BY <3>1, QuietKeepsKeys
  <2>3. CASE \E b \in Branch, basket \in Basket : RestockReturn(b, basket)
    <3> PICK b \in Branch, basket \in Basket : RestockReturn(b, basket)
      BY <2>3
    <3>1. ASSUME NEW r \in Row PROVE Quiet(shelf[r], shelf'[r])
      <4>1. basket[r[2]] \in (0 .. MaxQty) \X (0 .. MaxQty)
        BY RowPair DEF Basket
      <4>2. Quiet(shelf[r], PostEach(shelf[r], "RETURN", 1, basket[r[2]]))
        BY <1>1, <4>1, QuietReturn
      <4> QED
        BY <1>1, <4>2, QuietSame DEF RestockReturn
    <3> QED
      BY <3>1, QuietKeepsKeys
  <2>4. \A r \in Row : \A n : Quiet(shelf[r], Adjusted(shelf[r], n))
    BY <1>1, QuietPost, QuietSame DEF Adjusted
  <2>5. CASE \E r \in Row, n \in 0 .. MaxQty : Adjust(r, n)
    <3>1. \A r \in Row : Quiet(shelf[r], shelf'[r])
      BY <1>1, <2>4, <2>5, QuietSame DEF Adjust, IInv
    <3> QED
      BY <3>1, QuietKeepsKeys
  <2>6. CASE \E b \in Branch, V \in SUBSET Variant :
               \E counted \in [V -> 0 .. MaxQty] : ApplyStockCount(b, counted)
    <3>1. \A r \in Row : Quiet(shelf[r], shelf'[r])
      BY <1>1, <2>4, <2>6, QuietSame DEF ApplyStockCount
    <3> QED
      BY <3>1, QuietKeepsKeys
  <2> QED
    BY <1>2, <2>1, <2>2, <2>3, <2>5, <2>6 DEF MoveStock
<1>3. CASE KeyedRequest
  <2>1. CASE \E c \in Client : WriteOffLocked(c)
    <3> PICK c \in Client : WriteOffLocked(c)
      BY <2>1
    <3> DEFINE w == request[c]
    <3>1. w \in Requests /\ w.kind = "write_off"
      BY DEF WriteOffLocked, IInv
    <3>2. w.row \in Row /\ w.key \in Key
      BY <3>1 DEF Requests, WriteOff, Transfer
    <3>3. \/ shelf' = shelf
          \/ /\ ~Claimed(w.key)
             /\ shelf' = [shelf EXCEPT ![w.row] =
                            Post(@, "DAMAGE", -w.quantity, NoOrder, w.key)]
      BY DEF WriteOffLocked
    <3> HIDE DEF w
    <3>4. CASE shelf' = shelf
      BY <3>4 DEF KeyWrittenOnce
    <3>5. CASE /\ ~Claimed(w.key)
               /\ shelf' = [shelf EXCEPT ![w.row] =
                              Post(@, "DAMAGE", -w.quantity, NoOrder, w.key)]
      <4>1. \A r \in Row \ {w.row} : shelf'[r] = shelf[r]
        BY <3>5 DEF IInv
      <4>2. shelf'[w.row].entries = Append(shelf[w.row].entries,
              [type |-> "DAMAGE", quantity |-> -w.quantity,
               onHandAfter |-> shelf'[w.row].onHand,
               reservedAfter |-> shelf'[w.row].reserved,
               order |-> NoOrder, key |-> w.key])
        BY <3>2, <3>5 DEF Post, IInv
      <4>3. \A r \in Row : \A i \in DOMAIN shelf'[r].entries :
              \/ i \in DOMAIN shelf[r].entries
                 /\ shelf'[r].entries[i] = shelf[r].entries[i]
              \/ /\ r = w.row
                 /\ i = Len(shelf[r].entries) + 1
                 /\ shelf'[r].entries[i].key = w.key
        <5> TAKE r \in Row
        <5>1. CASE r # w.row
          BY <1>1, <4>1, <5>1 DEF Shelf
        <5>2. CASE r = w.row
          <6> DEFINE old == shelf[r].entries
                     e == [type |-> "DAMAGE", quantity |-> -w.quantity,
                           onHandAfter |-> shelf'[w.row].onHand,
                           reservedAfter |-> shelf'[w.row].reserved,
                           order |-> NoOrder, key |-> w.key]
          <6>1. shelf'[r].entries = Append(old, e)
            BY <4>2, <5>2
          <6>2. e.key = w.key
            OBVIOUS
          <6>3. old \in Seq(Entry)
            BY <1>1 DEF Shelf
          <6> HIDE DEF old, e
          <6>4. \A i \in DOMAIN Append(old, e) :
                  \/ i \in DOMAIN old /\ Append(old, e)[i] = old[i]
                  \/ i = Len(old) + 1 /\ Append(old, e)[i] = e
            BY <6>3
          <6>5. \A i \in DOMAIN shelf'[r].entries :
                  \/ i \in DOMAIN old /\ shelf'[r].entries[i] = old[i]
                  \/ i = Len(old) + 1 /\ shelf'[r].entries[i].key = w.key
            BY <6>1, <6>2, <6>4
          <6> QED
            BY <5>2, <6>5 DEF old
        <5> QED
          BY <5>1, <5>2
      <4>4. \A r \in Row : \A i \in DOMAIN shelf[r].entries :
              shelf[r].entries[i].key # w.key
        BY <3>5 DEF Claimed
      <4>5. w.key # NoKey
        BY <3>2
      <4> QED
        BY <4>3, <4>4, <4>5 DEF KeyWrittenOnce
    <3> QED
      BY <3>3, <3>4, <3>5
  <2>2. CASE \E c \in Client : TransferLocked(c)
    <3> PICK c \in Client : TransferLocked(c)
      BY <2>2
    <3>1. \A r \in Row : Quiet(shelf[r], MovedBy(shelf[r], r, request[c]))
      BY <1>1, QuietPost, QuietSame DEF MovedBy
    <3>2. \A r \in Row : Quiet(shelf[r], shelf'[r])
      BY <1>1, <3>1, QuietSame DEF TransferLocked
    <3> QED
      BY <3>2, QuietKeepsKeys
  <2>3. ASSUME UNCHANGED shelf PROVE KeyWrittenOnce'
    BY <2>3 DEF KeyWrittenOnce
  <2> QED
    BY <1>3, <2>1, <2>2, <2>3 DEF KeyedRequest, WriteOffLookup, TransferLookup
<1>4. CASE ForOrder
  <2>0. ASSUME NEW o \in Order, NEW r \in Row
        PROVE  order[o].lines[r[2]] \in Nat
    BY RowPair DEF IInv, OrderState, Lines
  <2>1. CASE \E o \in Order, b \in Branch, lines \in Lines : Reserve(o, b, lines)
    <3>1. \A r \in Row : Quiet(shelf[r], shelf'[r])
      BY <1>1, <2>1, QuietPost, QuietSame DEF Reserve
    <3> QED
      BY <3>1, QuietKeepsKeys
  <2>2. CASE \E o \in Order : ReleaseReservation(o)
    <3>1. \A r \in Row : Quiet(shelf[r], shelf'[r])
      BY <1>1, <2>0, <2>2, QuietConsumed, QuietSame DEF ReleaseReservation
    <3> QED
      BY <3>1, QuietKeepsKeys
  <2>3. CASE \E o \in Order : ConsumeReservation(o)
    <3>1. \A r \in Row : Quiet(shelf[r], shelf'[r])
      BY <1>1, <2>0, <2>3, QuietConsumed, QuietSame DEF ConsumeReservation
    <3> QED
      BY <3>1, QuietKeepsKeys
  <2> QED
    BY <1>4, <2>1, <2>2, <2>3 DEF ForOrder
<1>5. CASE SetCounterSellsReserved
  BY <1>5 DEF SetCounterSellsReserved, KeyWrittenOnce
<1> QED
  BY <1>2, <1>3, <1>4, <1>5 DEF Next

(* A retried write-off, whichever step its twin had reached, leaves one    *)
(* entry in the ledger.                                                    *)
THEOREM KeysAlwaysWrittenOnce == Spec => []KeyWrittenOnce
<1>1. Init => KeyWrittenOnce
  BY DEF Init, KeyWrittenOnce
<1>2. IInv /\ KeyWrittenOnce /\ [Next]_vars => KeyWrittenOnce'
  <2>1. KeyWrittenOnce /\ UNCHANGED vars => KeyWrittenOnce'
    BY DEF vars, KeyWrittenOnce
  <2> QED
    BY <2>1, KeyStep
<1> QED
  BY <1>1, <1>2, Invariance, PTL DEF Spec

-----------------------------------------------------------------------------
(* Units promised to an online order.                                      *)

(* What PromisedUnitsKept asks of one row's step.                          *)
Kept(s, t) ==
  \/ Available(t) >= 0
  \/ Available(t) >= Available(s)
  \/ t.entries[Len(t.entries)].type \in ShelfOnly

LEMMA KeptSame ==
  ASSUME NEW s, RowInv(s)
  PROVE  Kept(s, s)
BY DEF Kept, Available, RowInv, Shelf

LEMMA KeptShelfOnly ==
  ASSUME NEW s, RowInv(s), NEW type \in ShelfOnly, NEW d, NEW o, NEW key
  PROVE  Kept(s, Post(s, type, d, o, key))
BY DEF Kept, Post, RowInv, Shelf

LEMMA KeptRise ==
  ASSUME NEW s, RowInv(s), NEW type \in TransactionType \ Reserving,
         NEW d \in Nat, NEW o, NEW key
  PROVE  Kept(s, Post(s, type, d, o, key))
BY DEF Kept, Available, Post, RowInv, Shelf

(* A basket takes at the counter what nobody holds, its lines together.    *)
LEMMA KeptSale ==
  ASSUME NEW s, RowInv(s), NEW pair \in (0 .. MaxQty) \X (0 .. MaxQty),
         CounterCanTake(s, Asked(pair)), ~AllowOversell, ~counterSellsReserved
  PROVE  Kept(s, PostEach(s, "SALE", -1, pair))
<1> DEFINE t == PostEach(s, "SALE", -1, pair)
<1> USE StockAssumption
<1>1. pair[1] \in Nat /\ pair[2] \in Nat /\ s.onHand \in Int /\ s.reserved \in Nat
  BY DEF RowInv, Shelf
<1>2. "SALE" \notin Reserving
  BY DEF Reserving
<1>3. t.onHand = s.onHand - (pair[1] + pair[2]) /\ t.reserved = s.reserved
  BY <1>1, <1>2 DEF PostEach, Post
<1> HIDE DEF t
<1>4. pair[1] + pair[2] <= 0 \/ s.onHand - s.reserved >= pair[1] + pair[2]
  BY DEF CounterCanTake, Available, Asked
<1> QED
  BY <1>1, <1>3, <1>4 DEF Kept, Available, t

LEMMA KeptReturn ==
  ASSUME NEW s, RowInv(s), NEW pair \in (0 .. MaxQty) \X (0 .. MaxQty)
  PROVE  Kept(s, PostEach(s, "RETURN", 1, pair))
<1> DEFINE t == PostEach(s, "RETURN", 1, pair)
<1> USE StockAssumption
<1>1. pair[1] \in Nat /\ pair[2] \in Nat /\ s.onHand \in Int /\ s.reserved \in Nat
  BY DEF RowInv, Shelf
<1>2. "RETURN" \notin Reserving
  BY DEF Reserving
<1>3. t.onHand = s.onHand + (pair[1] + pair[2]) /\ t.reserved = s.reserved
  BY <1>1, <1>2 DEF PostEach, Post
<1> HIDE DEF t
<1> QED
  BY <1>1, <1>3 DEF Kept, Available, t

LEMMA KeptRelease ==
  ASSUME NEW s, RowInv(s), NEW q \in Nat, NEW o \in Order
  PROVE  Kept(s, Released(s, q, o))
BY DEF Kept, Available, Released, Lesser, Post, Reserving, RowInv, Shelf

(* Packing takes what it lets go; where the row held less, what is left on *)
(* the row is held by nobody.                                              *)
LEMMA KeptConsume ==
  ASSUME NEW s, RowInv(s), NEW q \in Nat, NEW o \in Order,
         CanReduce(s, q), ~AllowOversell
  PROVE  Kept(s, Post(Released(s, q, o), "SALE", -q, o, NoKey))
<1> DEFINE u == Released(s, q, o)
           t == Post(u, "SALE", -q, o, NoKey)
<1>1. s.onHand \in Int /\ s.reserved \in Nat /\ s.onHand >= q
  BY DEF RowInv, Shelf, CanReduce
<1>2. Released(s, q, o).reserved = s.reserved - Lesser(q, s.reserved)
  BY <1>1 DEF Released, Post, Reserving, Lesser
<1>3. t.onHand = s.onHand - q /\ t.reserved = s.reserved - Lesser(q, s.reserved)
  <2>1. /\ u.onHand = s.onHand
        /\ u.reserved = s.reserved - Lesser(q, s.reserved)
        /\ Lesser(q, s.reserved) \in Int
    BY <1>1, <1>2, ReleasedRow DEF Lesser
  <2> HIDE DEF u
  <2>2. t.onHand = u.onHand + (-q) /\ t.reserved = u.reserved + 0
    BY DEF Post, Reserving
  <2> QED
    BY <1>1, <2>1, <2>2
<1> HIDE DEF t
<1>4. /\ Available(s) = s.onHand - s.reserved
      /\ Available(t) = (s.onHand - q) - (s.reserved - Lesser(q, s.reserved))
  BY <1>3 DEF Available
<1>5. Available(t) >= 0 \/ Available(t) >= Available(s)
  <2>1. CASE q < s.reserved
    BY <1>1, <1>4, <2>1 DEF Lesser
  <2>2. CASE ~(q < s.reserved)
    BY <1>1, <1>4, <2>2 DEF Lesser
  <2> QED
    BY <2>1, <2>2
<1> QED
  BY <1>5 DEF Kept, t

LEMMA KeptStep ==
  ASSUME IInv, Next, ~AllowOversell, ~counterSellsReserved, NEW r \in Row
  PROVE  Kept(shelf[r], shelf'[r])
<1> USE StockAssumption
<1>1. RowInv(shelf[r])
  BY DEF IInv
<1>2. CASE MoveStock
  <2>1. {"PURCHASE", "RETURN"} \subseteq TransactionType \ Reserving
    BY DEF TransactionType, Reserving
  <2>2. CASE \E x \in Row, q \in 1 .. MaxDelivery : Receive(x, q)
    BY <1>1, <2>1, <2>2, KeptRise, KeptSame DEF Receive, IInv
  <2>3. CASE \E x \in Row, q \in 1 .. MaxQty : ReturnToSupplier(x, q)
    BY <1>1, <2>3, KeptShelfOnly, KeptSame DEF ReturnToSupplier, IInv, ShelfOnly
  <2>4. CASE \E b \in Branch, basket \in Basket : Sell(b, basket)
    <3> PICK b \in Branch, basket \in Basket : Sell(b, basket)
      BY <2>4
    <3>1. basket[r[2]] \in (0 .. MaxQty) \X (0 .. MaxQty)
      BY RowPair DEF Basket
    <3>2. r[1] = b => CounterCanTake(shelf[r], Asked(basket[r[2]]))
      BY RowPair DEF Sell
    <3>3. r[1] = b => Kept(shelf[r], PostEach(shelf[r], "SALE", -1, basket[r[2]]))
      BY <1>1, <3>1, <3>2, KeptSale
    <3> QED
      BY <1>1, <3>3, KeptSame DEF Sell
  <2>5. CASE \E b \in Branch, basket \in Basket : RestockReturn(b, basket)
    <3> PICK b \in Branch, basket \in Basket : RestockReturn(b, basket)
      BY <2>5
    <3>1. basket[r[2]] \in (0 .. MaxQty) \X (0 .. MaxQty)
      BY RowPair DEF Basket
    <3>2. Kept(shelf[r], PostEach(shelf[r], "RETURN", 1, basket[r[2]]))
      BY <1>1, <3>1, KeptReturn
    <3> QED
      BY <1>1, <3>2, KeptSame DEF RestockReturn
  <2>6. \A n : Kept(shelf[r], Adjusted(shelf[r], n))
    BY <1>1, KeptSame, KeptShelfOnly DEF Adjusted, ShelfOnly
  <2>7. CASE \E x \in Row, n \in 0 .. MaxQty : Adjust(x, n)
    BY <1>1, <2>6, <2>7, KeptSame DEF Adjust, IInv
  <2>8. CASE \E b \in Branch, V \in SUBSET Variant :
               \E counted \in [V -> 0 .. MaxQty] : ApplyStockCount(b, counted)
    BY <1>1, <2>6, <2>8, KeptSame DEF ApplyStockCount
  <2> QED
    BY <1>2, <2>2, <2>3, <2>4, <2>5, <2>7, <2>8 DEF MoveStock
<1>3. CASE KeyedRequest
  <2>1. CASE \E c \in Client : WriteOffLocked(c)
    BY <1>1, <2>1, KeptSame, KeptShelfOnly DEF WriteOffLocked, IInv, ShelfOnly
  <2>2. CASE \E c \in Client : TransferLocked(c)
    <3> PICK c \in Client : TransferLocked(c)
      BY <2>2
    <3>1. request[c] \in Requests /\ request[c].kind = "transfer"
      BY DEF TransferLocked, IInv
    <3>2. request[c].lines[r[2]] \in Nat
      BY <3>1, RowPair DEF Requests, WriteOff, Transfer, Lines
    <3>3. "TRANSFER_IN" \in TransactionType \ Reserving /\ "TRANSFER_OUT" \in ShelfOnly
      BY DEF TransactionType, Reserving, ShelfOnly
    <3>4. Kept(shelf[r], MovedBy(shelf[r], r, request[c]))
      BY <1>1, <3>2, <3>3, KeptSame, KeptRise, KeptShelfOnly DEF MovedBy
    <3> QED
      BY <1>1, <3>4, KeptSame DEF TransferLocked
  <2>3. ASSUME UNCHANGED shelf PROVE Kept(shelf[r], shelf'[r])
    BY <1>1, <2>3, KeptSame
  <2> QED
    BY <1>3, <2>1, <2>2, <2>3 DEF KeyedRequest, WriteOffLookup, TransferLookup
<1>4. CASE ForOrder
  <2>1. CASE \E o \in Order, b \in Branch, lines \in Lines : Reserve(o, b, lines)
    <3> PICK o \in Order, b \in Branch, lines \in Lines : Reserve(o, b, lines)
      BY <2>1
    <3>1. lines[r[2]] \in Nat
      BY RowPair DEF Lines
    <3>2. r[1] = b => lines[r[2]] = 0 \/ Available(shelf[r]) >= lines[r[2]]
      BY RowPair DEF Reserve
    <3>3. r[1] = b /\ lines[r[2]] > 0 =>
            Available(Post(shelf[r], "RESERVATION", lines[r[2]], o, NoKey)) >= 0
      BY <1>1, <3>1, <3>2 DEF Available, Post, Reserving, RowInv, Shelf
    <3> QED
      BY <1>1, <3>3, KeptSame DEF Reserve, Kept
  <2>2. ASSUME NEW o \in Order
        PROVE  order[o].lines[r[2]] \in Nat
    BY RowPair DEF IInv, OrderState, Lines
  <2>3. CASE \E o \in Order : ReleaseReservation(o)
    BY <1>1, <2>2, <2>3, KeptRelease, KeptSame DEF ReleaseReservation
  <2>4. CASE \E o \in Order : ConsumeReservation(o)
    <3> PICK o \in Order : ConsumeReservation(o)
      BY <2>4
    <3>1. r \in Pending(o) => CanReduce(shelf[r], order[o].lines[r[2]])
      BY DEF ConsumeReservation
    <3> QED
      BY <1>1, <2>2, <3>1, KeptConsume, KeptSame DEF ConsumeReservation
  <2> QED
    BY <1>4, <2>1, <2>3, <2>4 DEF ForOrder
<1>5. CASE SetCounterSellsReserved
  BY <1>1, <1>5, KeptSame DEF SetCounterSellsReserved
<1> QED
  BY <1>2, <1>3, <1>4, <1>5 DEF Next

(* With both switches off, no checkout and no counter sale takes a unit an *)
(* online order was promised.                                              *)
THEOREM PromisesAlwaysKept == Spec => PromisedUnitsKept
<1> DEFINE A == ~AllowOversell /\ ~counterSellsReserved =>
                  \A r \in Row :
                    \/ Available(shelf'[r]) >= 0
                    \/ Available(shelf'[r]) >= Available(shelf[r])
                    \/ shelf'[r].entries[Len(shelf'[r].entries)].type \in ShelfOnly
<1>1. IInv /\ [Next]_vars => [A]_vars
  BY KeptStep DEF Kept
<1> QED
  BY <1>1, Invariance, PTL DEF Spec, PromisedUnitsKept

-----------------------------------------------------------------------------
(* What one posting adds to a sum over a row's entries.                    *)

Amounts(s) == [i \in DOMAIN s.entries |-> s.entries[i].quantity]

HeldEntries(o, s) ==
  {i \in DOMAIN s.entries : /\ s.entries[i].type \in Reserving
                            /\ s.entries[i].order = o}

TypedEntries(s, types) == {i \in DOMAIN s.entries : s.entries[i].type \in types}

(* t is s with one more entry.                                             *)
OneMore(s, t, type, d, o) ==
  /\ DOMAIN t.entries = 1 .. (Len(s.entries) + 1)
  /\ \A i \in 1 .. Len(s.entries) : t.entries[i] = s.entries[i]
  /\ t.entries[Len(s.entries) + 1].type = type
  /\ t.entries[Len(s.entries) + 1].order = o
  /\ t.entries[Len(s.entries) + 1].quantity = d

LEMMA PostedEntries ==
  ASSUME NEW s \in Shelf, NEW type \in TransactionType, NEW d \in Int,
         NEW o \in Order \cup {NoOrder}, NEW key \in Key \cup {NoKey}
  PROVE  OneMore(s, Post(s, type, d, o, key), type, d, o)
<1>1. Len(s.entries) \in Nat
  BY DEF Shelf
<1> DEFINE t == Post(s, type, d, o, key)
           k == Len(s.entries) + 1
<1>2. /\ DOMAIN t.entries = 1 .. k
      /\ \A i \in 1 .. Len(s.entries) : t.entries[i] = s.entries[i]
      /\ t.entries[k] =
           [type |-> type, quantity |-> d, onHandAfter |-> t.onHand,
            reservedAfter |-> t.reserved, order |-> o, key |-> key]
  BY PostFields
<1>3. t.entries[k].type = type /\ t.entries[k].order = o /\ t.entries[k].quantity = d
  BY <1>2
<1> QED
  BY <1>2, <1>3 DEF OneMore

LEMMA RowEntries ==
  ASSUME NEW s \in Shelf
  PROVE  /\ Len(s.entries) \in Nat
         /\ DOMAIN s.entries = 1 .. Len(s.entries)
         /\ \A i \in 1 .. Len(s.entries) : s.entries[i].quantity \in Int
<1> DEFINE e == s.entries
<1>1. e \in Seq(Entry)
  BY DEF Shelf
<1>2. \A x \in Entry : x.quantity \in Int
  BY DEF Entry
<1> HIDE DEF e
<1>3. /\ Len(e) \in Nat
      /\ DOMAIN e = 1 .. Len(e)
      /\ \A i \in 1 .. Len(e) : e[i] \in Entry
  BY <1>1
<1>4. \A i \in 1 .. Len(e) : e[i].quantity \in Int
  BY <1>2, <1>3
<1> QED
  BY <1>3, <1>4 DEF e

LEMMA RowSums ==
  ASSUME NEW s \in Shelf, NEW o, NEW types
  PROVE  /\ HeldBy(o, s) = SumFunctionOnSet(Amounts(s), HeldEntries(o, s))
         /\ Total(s, types) = SumFunctionOnSet(Amounts(s), TypedEntries(s, types))
         /\ HeldEntries(o, s) \subseteq 1 .. Len(s.entries)
         /\ TypedEntries(s, types) \subseteq 1 .. Len(s.entries)
         /\ HeldBy(o, s) \in Int
         /\ Total(s, types) \in Int
<1>1. DOMAIN s.entries = 1 .. Len(s.entries) /\ Len(s.entries) \in Nat
  BY RowEntries
<1>2. /\ HeldBy(o, s) = SumFunctionOnSet(Amounts(s), HeldEntries(o, s))
      /\ Total(s, types) = SumFunctionOnSet(Amounts(s), TypedEntries(s, types))
  BY DEF HeldBy, Total, Amounts, HeldEntries, TypedEntries
<1>3. /\ HeldEntries(o, s) \subseteq 1 .. Len(s.entries)
      /\ TypedEntries(s, types) \subseteq 1 .. Len(s.entries)
  BY <1>1 DEF HeldEntries, TypedEntries
<1>4. IsFiniteSet(HeldEntries(o, s)) /\ IsFiniteSet(TypedEntries(s, types))
  <2> DEFINE D == 1 .. Len(s.entries)
  <2>1. IsFiniteSet(D)
    BY <1>1, FS_Interval
  <2>2. HeldEntries(o, s) \subseteq D /\ TypedEntries(s, types) \subseteq D
    BY <1>3
  <2> HIDE DEF D
  <2> QED
    BY <2>1, <2>2, FS_Subset
<1>5. \A i \in 1 .. Len(s.entries) : Amounts(s)[i] \in Int
  BY <1>1, RowEntries DEF Amounts
<1>6. /\ \A i \in HeldEntries(o, s) : Amounts(s)[i] \in Int
      /\ \A i \in TypedEntries(s, types) : Amounts(s)[i] \in Int
  BY <1>3, <1>5
<1>7. /\ SumFunctionOnSet(Amounts(s), HeldEntries(o, s)) \in Int
      /\ SumFunctionOnSet(Amounts(s), TypedEntries(s, types)) \in Int
  BY <1>4, <1>6, SumInt
<1> QED
  BY <1>2, <1>3, <1>7

(* Places in the ledger of s.                                              *)
Earlier(I, s) == I \subseteq 1 .. Len(s.entries)

Raised(s, t, I, d) ==
  /\ SumFunctionOnSet(Amounts(t), I) = SumFunctionOnSet(Amounts(s), I)
  /\ SumFunctionOnSet(Amounts(t), I \cup {Len(s.entries) + 1})
       = SumFunctionOnSet(Amounts(s), I) + d

(* A sum over earlier entries is what it was, and one that takes in the    *)
(* new entry is more by its quantity.                                      *)
LEMMA PostedAmounts ==
  ASSUME NEW s \in Shelf, NEW type \in TransactionType, NEW d \in Int,
         NEW o \in Order \cup {NoOrder}, NEW key \in Key \cup {NoKey},
         NEW I, Earlier(I, s)
  PROVE  Raised(s, Post(s, type, d, o, key), I, d)
<1> DEFINE t == Post(s, type, d, o, key)
           n == Len(s.entries)
           m == n + 1
           f == Amounts(t)
           g == Amounts(s)
<1>0. OneMore(s, t, type, d, o)
  BY PostedEntries
<1>1. /\ DOMAIN t.entries = 1 .. m
      /\ DOMAIN s.entries = 1 .. n
      /\ n \in Nat
      /\ \A i \in 1 .. n : t.entries[i] = s.entries[i]
      /\ t.entries[m].quantity = d
  <2> HIDE DEF t
  <2> QED
    BY <1>0, RowEntries DEF OneMore
<1>2. \A i \in 1 .. n : s.entries[i].quantity \in Int
  BY RowEntries
<1>3. \A i \in 1 .. n : f[i] = g[i] /\ g[i] \in Int
  <2> HIDE DEF t, n
  <2> QED
    BY <1>1, <1>2 DEF Amounts
<1>4. f[m] = d
  <2> HIDE DEF t, n
  <2> QED
    BY <1>1 DEF Amounts
<1>5. IsFiniteSet(I) /\ m \notin I
  <2> DEFINE D == 1 .. n
  <2>1. IsFiniteSet(D)
    BY <1>1, FS_Interval
  <2>2. m \notin D /\ I \subseteq D
    BY <1>1 DEF Earlier
  <2> HIDE DEF D, m
  <2> QED
    BY <2>1, <2>2, FS_Subset
<1>6. \A i \in I \cup {m} : f[i] \in Int
  <2> HIDE DEF f, g, n, m
  <2> QED
    BY <1>3, <1>4 DEF n, Earlier
<1>7. \A i \in I : f[i] = g[i]
  <2> HIDE DEF f, g, n, m
  <2> QED
    BY <1>3 DEF n, Earlier
<1> HIDE DEF f, g, m, t, n
<1>8. SumFunctionOnSet(f, I) = SumFunctionOnSet(g, I)
  BY <1>5, <1>7, SumSame
<1>9. SumFunctionOnSet(f, I \cup {m}) = SumFunctionOnSet(f, I) + f[m]
  BY <1>5, <1>6, SumAdd
<1> QED
  BY <1>4, <1>8, <1>9 DEF f, g, m, t, n, Raised

Gains(s, t, types, d) == Total(t, types) = Total(s, types) + d

LEMMA PostedTotal ==
  ASSUME NEW s \in Shelf, NEW type \in TransactionType, NEW d \in Int,
         NEW o \in Order \cup {NoOrder}, NEW key \in Key \cup {NoKey}, NEW types
  PROVE  /\ type \in types => Gains(s, Post(s, type, d, o, key), types, d)
         /\ type \notin types => Gains(s, Post(s, type, d, o, key), types, 0)
<1> DEFINE t == Post(s, type, d, o, key)
           n == Len(s.entries)
<1>0. OneMore(s, t, type, d, o)
  BY PostedEntries
<1>1. /\ DOMAIN t.entries = 1 .. (n + 1)
      /\ DOMAIN s.entries = 1 .. n
      /\ n \in Nat
      /\ \A i \in 1 .. n : t.entries[i] = s.entries[i]
      /\ t.entries[n + 1].type = type
  <2> HIDE DEF t
  <2> QED
    BY <1>0, RowEntries DEF OneMore
<1>2. Total(t, types) = SumFunctionOnSet(Amounts(t), TypedEntries(t, types))
  BY DEF Total, Amounts, TypedEntries
<1>3. TypedEntries(t, types)
        = IF type \in types THEN TypedEntries(s, types) \cup {n + 1}
          ELSE TypedEntries(s, types)
  <2> HIDE DEF t, n
  <2> QED
    BY <1>1 DEF TypedEntries
<1>4. /\ TypedEntries(s, types) \in SUBSET (1 .. n)
      /\ Total(s, types) = SumFunctionOnSet(Amounts(s), TypedEntries(s, types))
      /\ Total(s, types) \in Int
  BY RowSums
<1>5. /\ SumFunctionOnSet(Amounts(t), TypedEntries(s, types)) = Total(s, types)
      /\ SumFunctionOnSet(Amounts(t), TypedEntries(s, types) \cup {n + 1})
           = Total(s, types) + d
  <2> DEFINE I == TypedEntries(s, types)
  <2>1. Earlier(I, s)
    BY <1>4 DEF Earlier
  <2> HIDE DEF I
  <2>2. Raised(s, t, I, d)
    BY <2>1, PostedAmounts
  <2> QED
    BY <1>4, <2>2 DEF I, Raised
<1> HIDE DEF t, n
<1>6. /\ type \in types => Total(t, types) = Total(s, types) + d
      /\ type \notin types => Total(t, types) = Total(s, types) + 0
  BY <1>2, <1>3, <1>4, <1>5
<1> QED
  BY <1>6 DEF t, Gains

LEMMA PostedHeld ==
  ASSUME NEW s \in Shelf, NEW type \in TransactionType, NEW d \in Int,
         NEW o \in Order \cup {NoOrder}, NEW key \in Key \cup {NoKey}, NEW p
  PROVE  /\ HeldBy(p, Post(s, type, d, o, key))
              = HeldBy(p, s) + (IF type \in Reserving /\ o = p THEN d ELSE 0)
         /\ Sold(Post(s, type, d, o, key), p)
              <=> Sold(s, p) \/ (type = "SALE" /\ o = p)
<1> DEFINE t == Post(s, type, d, o, key)
           n == Len(s.entries)
<1>0. OneMore(s, t, type, d, o)
  BY PostedEntries
<1>1. /\ DOMAIN t.entries = 1 .. (n + 1)
      /\ DOMAIN s.entries = 1 .. n
      /\ n \in Nat
      /\ \A i \in 1 .. n : t.entries[i] = s.entries[i]
      /\ t.entries[n + 1].type = type
      /\ t.entries[n + 1].order = o
  <2> HIDE DEF t
  <2> QED
    BY <1>0, RowEntries DEF OneMore
<1>2. HeldBy(p, t) = SumFunctionOnSet(Amounts(t), HeldEntries(p, t))
  BY DEF HeldBy, Amounts, HeldEntries
<1>3. HeldEntries(p, t)
        = IF type \in Reserving /\ o = p THEN HeldEntries(p, s) \cup {n + 1}
          ELSE HeldEntries(p, s)
  <2> HIDE DEF t, n
  <2> QED
    BY <1>1 DEF HeldEntries
<1>4. /\ HeldEntries(p, s) \in SUBSET (1 .. n)
      /\ HeldBy(p, s) = SumFunctionOnSet(Amounts(s), HeldEntries(p, s))
      /\ HeldBy(p, s) \in Int
  BY RowSums
<1>5. /\ SumFunctionOnSet(Amounts(t), HeldEntries(p, s)) = HeldBy(p, s)
      /\ SumFunctionOnSet(Amounts(t), HeldEntries(p, s) \cup {n + 1})
           = HeldBy(p, s) + d
  <2> DEFINE I == HeldEntries(p, s)
  <2>1. Earlier(I, s)
    BY <1>4 DEF Earlier
  <2> HIDE DEF I
  <2>2. Raised(s, t, I, d)
    BY <2>1, PostedAmounts
  <2> QED
    BY <1>4, <2>2 DEF I, Raised
<1> HIDE DEF t, n
<1>6. HeldBy(p, t) = HeldBy(p, s) + (IF type \in Reserving /\ o = p THEN d ELSE 0)
  BY <1>2, <1>3, <1>4, <1>5
<1>7. Sold(t, p) <=> Sold(s, p) \/ (type = "SALE" /\ o = p)
  BY <1>1 DEF Sold
<1> QED
  BY <1>6, <1>7 DEF t

-----------------------------------------------------------------------------
(* Steps that touch nothing an order holds.                                *)

Transfers == {"TRANSFER_IN", "TRANSFER_OUT"}

(* Nothing of what orders hold on a row, or have bought from it, changes.  *)
Apart(s, t) ==
  /\ t.reserved = s.reserved
  /\ \A p \in Order : HeldBy(p, t) = HeldBy(p, s) /\ (Sold(t, p) => Sold(s, p))

(* Nothing of what transfers brought or took changes.                      *)
Level(s, t) == \A k \in Transfers : Total(t, {k}) = Total(s, {k})

LEMMA ShelfPost ==
  ASSUME NEW s \in Shelf, NEW type \in TransactionType \ Reserving, NEW d \in Int,
         NEW o \in Order \cup {NoOrder}, NEW key \in Key \cup {NoKey}
  PROVE  Post(s, type, d, o, key) \in Shelf
<1> DEFINE t == Post(s, type, d, o, key)
           e == [type |-> type, quantity |-> d, onHandAfter |-> s.onHand + d,
                 reservedAfter |-> s.reserved + 0, order |-> o, key |-> key]
<1>1. s.onHand \in Int /\ s.reserved \in Nat /\ s.entries \in Seq(Entry)
  BY DEF Shelf
<1>2. s.onHand + d \in Int /\ s.reserved + 0 \in Nat
  BY <1>1
<1>3. e \in Entry
  BY <1>2 DEF Entry
<1>4. t = [onHand |-> s.onHand + d, reserved |-> s.reserved + 0,
           entries |-> Append(s.entries, e)]
  BY DEF Post
<1> HIDE DEF e, t
<1>5. Append(s.entries, e) \in Seq(Entry)
  BY <1>1, <1>3
<1>6. t \in Shelf
  BY <1>2, <1>4, <1>5 DEF Shelf
<1> QED
  BY <1>6 DEF t

LEMMA ApartPost ==
  ASSUME NEW s \in Shelf, NEW type \in TransactionType \ Reserving, NEW d \in Int,
         NEW key \in Key \cup {NoKey}
  PROVE  Apart(s, Post(s, type, d, NoOrder, key))
<1> USE StockAssumption
<1> DEFINE t == Post(s, type, d, NoOrder, key)
<1>1. t.reserved = s.reserved
  BY DEF Post, Shelf
<1>2. ASSUME NEW p \in Order
      PROVE  HeldBy(p, t) = HeldBy(p, s) /\ (Sold(t, p) => Sold(s, p))
  <2>1. p # NoOrder /\ HeldBy(p, s) \in Int /\ type \in TransactionType
    BY RowSums
  <2>2. /\ HeldBy(p, t) = HeldBy(p, s)
                            + (IF type \in Reserving /\ NoOrder = p THEN d ELSE 0)
        /\ Sold(t, p) <=> Sold(s, p) \/ (type = "SALE" /\ NoOrder = p)
    BY <2>1, PostedHeld
  <2> HIDE DEF t
  <2> QED
    BY <2>1, <2>2
<1> HIDE DEF t
<1>3. Apart(s, t)
  BY <1>1, <1>2 DEF Apart
<1> QED
  BY <1>3 DEF t

LEMMA LevelPost ==
  ASSUME NEW s \in Shelf, NEW type \in TransactionType \ Transfers, NEW d \in Int,
         NEW o \in Order \cup {NoOrder}, NEW key \in Key \cup {NoKey}
  PROVE  Level(s, Post(s, type, d, o, key))
<1>1. ASSUME NEW k \in Transfers
      PROVE  Total(Post(s, type, d, o, key), {k}) = Total(s, {k})
  <2>1. type \in TransactionType /\ type \notin {k} /\ Total(s, {k}) \in Int
    BY RowSums
  <2>2. Gains(s, Post(s, type, d, o, key), {k}, 0)
    BY <2>1, PostedTotal
  <2> QED
    BY <2>1, <2>2 DEF Gains
<1> QED
  BY <1>1 DEF Level

Plain(s, t) == Apart(s, t) /\ Level(s, t)

LEMMA PlainSame ==
  ASSUME NEW s
  PROVE  Plain(s, s)
BY DEF Plain, Apart, Level

LEMMA PlainPost ==
  ASSUME NEW s \in Shelf, NEW type \in TransactionType \ (Reserving \cup Transfers),
         NEW d \in Int, NEW key \in Key \cup {NoKey}
  PROVE  Plain(s, Post(s, type, d, NoOrder, key))
<1>1. type \in TransactionType \ Reserving /\ type \in TransactionType \ Transfers
  OBVIOUS
<1> QED
  BY <1>1, ApartPost, LevelPost DEF Plain

LEMMA PlainTwice ==
  ASSUME NEW s, NEW t, NEW u, Plain(s, t), Plain(t, u)
  PROVE  Plain(s, u)
BY DEF Plain, Apart, Level

(* The lines of a basket, sold or brought back over the counter.           *)
LEMMA PlainEach ==
  ASSUME NEW s \in Shelf, NEW type \in {"SALE", "RETURN"}, NEW sign \in {-1, 1},
         NEW pair \in (0 .. MaxQty) \X (0 .. MaxQty)
  PROVE  Plain(s, PostEach(s, type, sign, pair))
<1> USE StockAssumption
<1> DEFINE d1 == sign * pair[1]
           d2 == sign * pair[2]
           first == IF pair[1] = 0 THEN s ELSE Post(s, type, d1, NoOrder, NoKey)
<1>1. d1 \in Int /\ d2 \in Int
  OBVIOUS
<1>2. /\ type \in TransactionType \ (Reserving \cup Transfers)
      /\ type \in TransactionType \ Reserving
  BY DEF TransactionType, Reserving, Transfers
<1>3. PostEach(s, type, sign, pair)
        = IF pair[2] = 0 THEN first ELSE Post(first, type, d2, NoOrder, NoKey)
  BY DEF PostEach
<1> HIDE DEF d1, d2
<1>4. first \in Shelf /\ Plain(s, first)
  BY <1>1, <1>2, ShelfPost, PlainPost, PlainSame
<1> HIDE DEF first
<1>5. Plain(first, Post(first, type, d2, NoOrder, NoKey))
  BY <1>1, <1>2, <1>4, PlainPost
<1> QED
  BY <1>3, <1>4, <1>5, PlainTwice

LEMMA MoveStockPlain ==
  ASSUME IInv, MoveStock, NEW r \in Row
  PROVE  Plain(shelf[r], shelf'[r])
<1> USE StockAssumption
<1>1. \A x \in Row : shelf[x] \in Shelf /\ shelf[x].onHand \in Int
  BY DEF IInv, RowInv, Shelf
<1>2. {"PURCHASE", "PURCHASE_RETURN", "ADJUSTMENT"}
        \subseteq TransactionType \ (Reserving \cup Transfers)
  BY DEF TransactionType, Reserving, Transfers
<1>3. ASSUME NEW x \in Row, NEW q \in 1 .. MaxDelivery, Receive(x, q)
      PROVE  Plain(shelf[r], shelf'[r])
  <2>1. Plain(shelf[x], Post(shelf[x], "PURCHASE", q, NoOrder, NoKey))
    BY <1>1, <1>2, PlainPost
  <2> QED
    BY <1>3, <2>1, PlainSame DEF Receive, IInv
<1>4. ASSUME NEW x \in Row, NEW q \in 1 .. MaxQty, ReturnToSupplier(x, q)
      PROVE  Plain(shelf[r], shelf'[r])
  <2>1. -q \in Int
    OBVIOUS
  <2>2. Plain(shelf[x], Post(shelf[x], "PURCHASE_RETURN", -q, NoOrder, NoKey))
    BY <1>1, <1>2, <2>1, PlainPost
  <2> QED
    BY <1>4, <2>2, PlainSame DEF ReturnToSupplier, IInv
<1>5. ASSUME NEW b \in Branch, NEW basket \in Basket,
             Sell(b, basket) \/ RestockReturn(b, basket)
      PROVE  Plain(shelf[r], shelf'[r])
  <2>1. basket[r[2]] \in (0 .. MaxQty) \X (0 .. MaxQty)
    BY RowPair DEF Basket
  <2>2. /\ Plain(shelf[r], PostEach(shelf[r], "SALE", -1, basket[r[2]]))
        /\ Plain(shelf[r], PostEach(shelf[r], "RETURN", 1, basket[r[2]]))
    BY <1>1, <2>1, PlainEach
  <2> QED
    BY <1>5, <2>2, PlainSame DEF Sell, RestockReturn
<1>6. ASSUME NEW x \in Row, NEW n \in 0 .. MaxQty
      PROVE  Plain(shelf[x], Adjusted(shelf[x], n))
  <2>1. n - shelf[x].onHand \in Int
    BY <1>1
  <2>2. Plain(shelf[x], Post(shelf[x], "ADJUSTMENT", n - shelf[x].onHand, NoOrder, NoKey))
    BY <1>1, <1>2, <2>1, PlainPost
  <2> QED
    BY <2>2, PlainSame DEF Adjusted
<1>7. ASSUME NEW x \in Row, NEW n \in 0 .. MaxQty, Adjust(x, n)
      PROVE  Plain(shelf[r], shelf'[r])
  BY <1>6, <1>7, PlainSame DEF Adjust, IInv
<1>8. ASSUME NEW b \in Branch, NEW V \in SUBSET Variant,
             NEW counted \in [V -> 0 .. MaxQty], ApplyStockCount(b, counted)
      PROVE  Plain(shelf[r], shelf'[r])
  BY <1>6, <1>8, PlainSame DEF ApplyStockCount
<1> QED
  BY <1>3, <1>4, <1>5, <1>7, <1>8 DEF MoveStock

LEMMA WriteOffPlain ==
  ASSUME IInv, NEW c \in Client, WriteOffLocked(c), NEW r \in Row
  PROVE  Plain(shelf[r], shelf'[r])
<1> DEFINE w == request[c]
<1>1. w \in Requests /\ w.kind = "write_off"
  BY DEF WriteOffLocked, IInv
<1>2. w.row \in Row /\ w.key \in Key /\ w.quantity \in Int
  BY <1>1, StockAssumption DEF Requests, WriteOff, Transfer
<1>3. \A x \in Row : shelf[x] \in Shelf
  BY DEF IInv, RowInv
<1>4. "DAMAGE" \in TransactionType \ (Reserving \cup Transfers)
  BY DEF TransactionType, Reserving, Transfers
<1>5. \/ shelf' = shelf
      \/ shelf' = [shelf EXCEPT ![w.row] =
                     Post(@, "DAMAGE", -w.quantity, NoOrder, w.key)]
  BY DEF WriteOffLocked
<1> HIDE DEF w
<1>6. Plain(shelf[w.row], Post(shelf[w.row], "DAMAGE", -w.quantity, NoOrder, w.key))
  <2>1. -w.quantity \in Int
    BY <1>2
  <2> QED
    BY <1>2, <1>3, <1>4, <2>1, PlainPost
<1> QED
  BY <1>2, <1>5, <1>6, PlainSame DEF IInv

-----------------------------------------------------------------------------
(* What an order holds.                                                    *)

(* What an order's row says it holds on a shelf's row.                     *)
HoldOf(ord, r) ==
  IF ord.state = "open" /\ r[1] = ord.branch THEN ord.lines[r[2]] ELSE 0

HoldsOn(r) == [o \in Order |-> HoldOf(order[o], r)]

(* The inductive invariant of the reservations: the ledger has of each     *)
(* order what it holds; a row's reserved figure is what its orders hold    *)
(* together, so no clamp bites; and an order not yet packed bought nothing *)
(* anywhere, so packing takes every line of it.                            *)
HeldInv ==
  /\ \A o \in Order, r \in Row : HeldBy(o, shelf[r]) = HoldOf(order[o], r)
  /\ \A r \in Row : shelf[r].reserved = SumFunctionOnSet(HoldsOn(r), Order)
  /\ \A o \in Order, r \in Row :
       order[o].state \in {"new", "open"} => ~Sold(shelf[r], o)

LEMMA HoldType ==
  ASSUME NEW ord \in OrderState, NEW r \in Row
  PROVE  HoldOf(ord, r) \in Nat
<1>1. ord.lines[r[2]] \in Nat
  BY RowPair, StockAssumption DEF OrderState, Lines
<1> QED
  BY <1>1 DEF HoldOf

(* No order holds more on a row than the row has reserved.                 *)
LEMMA HoldWithinReserved ==
  ASSUME IInv, HeldInv, NEW o \in Order, NEW r \in Row
  PROVE  HoldOf(order[o], r) <= shelf[r].reserved
<1> DEFINE f == HoldsOn(r)
<1>1. \A p \in Order : f[p] = HoldOf(order[p], r) /\ HoldOf(order[p], r) \in Nat
  BY HoldType DEF HoldsOn, IInv
<1>2. shelf[r].reserved = SumFunctionOnSet(f, Order)
  BY DEF HeldInv
<1> HIDE DEF f
<1>3. f[o] <= SumFunctionOnSet(f, Order)
  BY <1>1, FiniteAssumption, SumPart
<1> QED
  BY <1>1, <1>2, <1>3

(* The order o holds d more on the row, and no other order more or less.   *)
Shifted(s, t, o, d) ==
  /\ t.reserved = s.reserved + d
  /\ \A p \in Order : HeldBy(p, t) = HeldBy(p, s) + (IF p = o THEN d ELSE 0)

LEMMA ShiftedPost ==
  ASSUME NEW s \in Shelf, NEW type \in Reserving, NEW d \in Int, NEW o \in Order
  PROVE  /\ Shifted(s, Post(s, type, d, o, NoKey), o, d)
         /\ Level(s, Post(s, type, d, o, NoKey))
         /\ \A p \in Order : Sold(Post(s, type, d, o, NoKey), p) => Sold(s, p)
<1> DEFINE t == Post(s, type, d, o, NoKey)
<1>1. /\ type \in TransactionType /\ type # "SALE" /\ s.reserved \in Nat
      /\ type \in TransactionType \ Transfers
  BY DEF TransactionType, Reserving, Transfers, Shelf
<1>2. t.reserved = s.reserved + d
  BY DEF Post
<1>3. ASSUME NEW p \in Order
      PROVE  /\ HeldBy(p, t) = HeldBy(p, s) + (IF p = o THEN d ELSE 0)
             /\ Sold(t, p) => Sold(s, p)
  <2>1. /\ HeldBy(p, t) = HeldBy(p, s) + (IF type \in Reserving /\ o = p THEN d ELSE 0)
        /\ Sold(t, p) <=> Sold(s, p) \/ (type = "SALE" /\ o = p)
    BY <1>1, PostedHeld
  <2> HIDE DEF t
  <2> QED
    BY <1>1, <2>1
<1>4. Level(s, t)
  BY <1>1, LevelPost
<1> HIDE DEF t
<1>5. Shifted(s, t, o, d)
  BY <1>2, <1>3 DEF Shifted
<1> QED
  BY <1>3, <1>4, <1>5 DEF t

LEMMA ShiftedSame ==
  ASSUME NEW s \in Shelf, NEW o
  PROVE  Shifted(s, s, o, 0)
<1>1. s.reserved \in Int /\ \A p \in Order : HeldBy(p, s) \in Int
  BY RowSums DEF Shelf
<1> QED
  BY <1>1 DEF Shifted

(* What is let go is what was asked, where the row has as much reserved.   *)
LEMMA ReleasedShifts ==
  ASSUME NEW s, RowInv(s), NEW q \in Nat, NEW o \in Order, q <= s.reserved
  PROVE  /\ Shifted(s, Released(s, q, o), o, -q)
         /\ Level(s, Released(s, q, o))
         /\ \A p \in Order : Sold(Released(s, q, o), p) => Sold(s, p)
<1>1. s \in Shelf /\ s.reserved \in Nat /\ Lesser(q, s.reserved) = q
  BY DEF RowInv, Shelf, Lesser
<1>2. CASE q = 0
  <2>1. Released(s, q, o) = s
    <3>1. Lesser(q, s.reserved) = 0
      BY <1>1, <1>2
    <3> QED
      BY <3>1 DEF Released
  <2> DEFINE d == -q
  <2>2. q # 0 \/ d = 0
    OBVIOUS
  <2> HIDE DEF d
  <2>3. Shifted(s, s, o, 0)
    BY <1>1, ShiftedSame
  <2>4. Shifted(s, s, o, d)
    BY <1>2, <2>2, <2>3
  <2> QED
    BY <2>1, <2>4 DEF Level, d
<1>3. CASE q # 0
  <2> DEFINE d == -q
  <2>1. Released(s, q, o) = Post(s, "RESERVATION_RELEASE", d, o, NoKey)
    BY <1>1, <1>3 DEF Released
  <2>2. d \in Int /\ "RESERVATION_RELEASE" \in Reserving
    BY DEF Reserving
  <2> HIDE DEF d
  <2>3. /\ Shifted(s, Released(s, q, o), o, d)
        /\ Level(s, Released(s, q, o))
        /\ \A p \in Order : Sold(Released(s, q, o), p) => Sold(s, p)
    BY <1>1, <2>1, <2>2, ShiftedPost
  <2> QED
    BY <2>3 DEF d
<1> QED
  BY <1>2, <1>3

LEMMA ConsumedShifts ==
  ASSUME NEW s, RowInv(s), NEW q \in Nat, NEW o \in Order, q <= s.reserved
  PROVE  LET t == Post(Released(s, q, o), "SALE", -q, o, NoKey)
         IN  /\ Shifted(s, t, o, -q)
             /\ Level(s, t)
             /\ \A p \in Order : Sold(t, p) => Sold(s, p) \/ p = o
<1> DEFINE u == Released(s, q, o)
           d == -q
           t == Post(u, "SALE", d, o, NoKey)
<1>1. u \in Shelf /\ u.reserved \in Nat
  BY ReleasedRow DEF RowInv, Shelf
<1>2. /\ Shifted(s, u, o, d)
      /\ Level(s, u)
      /\ \A p \in Order : Sold(u, p) => Sold(s, p)
  BY ReleasedShifts
<1>3. /\ d \in Int
      /\ "SALE" \in TransactionType
      /\ "SALE" \in TransactionType \ Transfers
      /\ "SALE" \notin Reserving
  BY DEF TransactionType, Transfers, Reserving
<1> HIDE DEF d, u
<1>4. t.reserved = u.reserved
  BY <1>1, <1>3 DEF Post
<1>5. Level(u, t)
  BY <1>1, <1>3, LevelPost
<1>6. ASSUME NEW p \in Order
      PROVE  HeldBy(p, t) = HeldBy(p, u) /\ (Sold(t, p) => Sold(u, p) \/ p = o)
  <2>1. /\ HeldBy(p, t) = HeldBy(p, u)
                            + (IF "SALE" \in Reserving /\ o = p THEN d ELSE 0)
        /\ Sold(t, p) <=> Sold(u, p) \/ ("SALE" = "SALE" /\ o = p)
    BY <1>1, <1>3, PostedHeld
  <2>2. HeldBy(p, u) \in Int
    BY <1>1, RowSums
  <2> HIDE DEF t
  <2> QED
    BY <1>3, <2>1, <2>2
<1> HIDE DEF t
<1>7. Shifted(s, t, o, d) /\ Level(s, t) /\ \A p \in Order : Sold(t, p) => Sold(s, p) \/ p = o
  BY <1>2, <1>4, <1>5, <1>6 DEF Shifted, Level
<1> QED
  BY <1>7 DEF t, d, u

LEMMA HeldApart ==
  ASSUME HeldInv, order' = order, \A r \in Row : Apart(shelf[r], shelf'[r])
  PROVE  HeldInv'
<1>1. \A o \in Order, r \in Row : HeldBy(o, shelf'[r]) = HoldOf(order'[o], r)
  BY DEF HeldInv, Apart
<1>2. \A r \in Row : shelf'[r].reserved = SumFunctionOnSet(HoldsOn(r)', Order)
  BY DEF HeldInv, Apart, HoldsOn
<1>3. \A o \in Order, r \in Row :
        order'[o].state \in {"new", "open"} => ~Sold(shelf'[r], o)
  BY DEF HeldInv, Apart
<1> QED
  BY <1>1, <1>2, <1>3 DEF HeldInv

(* An order's row and what the ledger has of it change together.           *)
LEMMA HeldStep ==
  ASSUME IInv, HeldInv, NEW o \in Order, NEW new \in OrderState,
         order' = [order EXCEPT ![o] = new],
         \A r \in Row : Shifted(shelf[r], shelf'[r], o,
                                HoldOf(new, r) - HoldOf(order[o], r)),
         \A r \in Row, p \in Order :
           Sold(shelf'[r], p) => Sold(shelf[r], p) \/ (p = o /\ new.state = "packed"),
         new.state = "open" => order[o].state = "new",
         new.state # "new"
  PROVE  HeldInv'
<1>1. order \in [Order -> OrderState] /\ order'[o] = new
  BY DEF IInv
<1>2. \A p \in Order \ {o} : order'[p] = order[p]
  BY <1>1
<1>3. \A r \in Row, p \in Order :
        HoldOf(order[p], r) \in Nat /\ HoldOf(new, r) \in Nat
  BY <1>1, HoldType
<1>4. ASSUME NEW p \in Order, NEW r \in Row
      PROVE  HeldBy(p, shelf'[r]) = HoldOf(order'[p], r)
  <2>1. HeldBy(p, shelf[r]) = HoldOf(order[p], r)
    BY DEF HeldInv
  <2>2. HeldBy(p, shelf'[r])
          = HeldBy(p, shelf[r])
            + (IF p = o THEN HoldOf(new, r) - HoldOf(order[o], r) ELSE 0)
    BY DEF Shifted
  <2> QED
    BY <1>1, <1>2, <1>3, <2>1, <2>2
<1>5. ASSUME NEW r \in Row
      PROVE  shelf'[r].reserved = SumFunctionOnSet(HoldsOn(r)', Order)
  <2> DEFINE f == HoldsOn(r)
             g == [p \in Order |-> HoldOf(order'[p], r)]
  <2>1. shelf[r].reserved = SumFunctionOnSet(f, Order)
    BY DEF HeldInv
  <2>2. shelf'[r].reserved = shelf[r].reserved + (HoldOf(new, r) - HoldOf(order[o], r))
    BY DEF Shifted
  <2>3. \A p \in Order : f[p] = HoldOf(order[p], r) /\ g[p] = HoldOf(order'[p], r)
    BY DEF HoldsOn
  <2>4. g = HoldsOn(r)'
    BY DEF HoldsOn
  <2> HIDE DEF f, g
  <2>5. /\ \A p \in Order : f[p] \in Int /\ g[p] \in Int
        /\ \A p \in Order \ {o} : g[p] = f[p]
        /\ f[o] = HoldOf(order[o], r) /\ g[o] = HoldOf(new, r)
    BY <1>1, <1>2, <1>3, <2>3
  <2>6. SumFunctionOnSet(g, Order) = SumFunctionOnSet(f, Order) - f[o] + g[o]
    BY <2>5, FiniteAssumption, SumUpdate
  <2>7. SumFunctionOnSet(f, Order) \in Int
    BY <2>5, FiniteAssumption, SumInt
  <2>8. shelf'[r].reserved = SumFunctionOnSet(g, Order)
    BY <2>1, <2>2, <2>5, <2>6, <2>7
  <2> QED
    BY <2>4, <2>8
<1>6. ASSUME NEW p \in Order, NEW r \in Row, order'[p].state \in {"new", "open"}
      PROVE  ~Sold(shelf'[r], p)
  <2>1. order[p].state \in {"new", "open"}
    BY <1>1, <1>2, <1>6
  <2>2. ~(p = o /\ new.state = "packed")
    BY <1>1, <1>6
  <2> QED
    BY <2>1, <2>2 DEF HeldInv
<1> QED
  BY <1>4, <1>5, <1>6 DEF HeldInv

LEMMA ReserveHeld ==
  ASSUME IInv, HeldInv, NEW o \in Order, NEW b \in Branch, NEW lines \in Lines,
         Reserve(o, b, lines)
  PROVE  HeldInv' /\ \A r \in Row : Level(shelf[r], shelf'[r])
<1> DEFINE new == [state |-> "open", branch |-> b, lines |-> lines]
<1>1. new \in OrderState
  BY DEF OrderState
<1>2. order' = [order EXCEPT ![o] = new] /\ order[o].state = "new"
  BY DEF Reserve
<1>3. new.state = "open" /\ new.branch = b /\ new.lines = lines
  OBVIOUS
<1> HIDE DEF new
<1>4. ASSUME NEW r \in Row
      PROVE  /\ Shifted(shelf[r], shelf'[r], o, HoldOf(new, r) - HoldOf(order[o], r))
             /\ Level(shelf[r], shelf'[r])
             /\ \A p \in Order : Sold(shelf'[r], p) => Sold(shelf[r], p)
  <2>1. shelf[r] \in Shelf
    BY DEF IInv, RowInv
  <2>2. lines[r[2]] \in Nat
    BY RowPair, StockAssumption DEF Lines
  <2>3. HoldOf(order[o], r) = 0 /\ HoldOf(new, r) = IF r[1] = b THEN lines[r[2]] ELSE 0
    BY <1>2, <1>3 DEF HoldOf
  <2>4. shelf'[r] = IF r[1] = b /\ lines[r[2]] > 0
                    THEN Post(shelf[r], "RESERVATION", lines[r[2]], o, NoKey)
                    ELSE shelf[r]
    BY DEF Reserve
  <2> DEFINE q == lines[r[2]]
             d == HoldOf(new, r) - HoldOf(order[o], r)
  <2>5. CASE r[1] = b /\ q > 0
    <3>1. d = q /\ shelf'[r] = Post(shelf[r], "RESERVATION", q, o, NoKey)
      BY <2>2, <2>3, <2>4, <2>5
    <3>2. q \in Int /\ "RESERVATION" \in Reserving
      BY <2>2 DEF Reserving
    <3> HIDE DEF q, d
    <3>3. /\ Shifted(shelf[r], shelf'[r], o, d)
          /\ Level(shelf[r], shelf'[r])
          /\ \A p \in Order : Sold(shelf'[r], p) => Sold(shelf[r], p)
      BY <2>1, <3>1, <3>2, ShiftedPost
    <3> QED
      BY <3>3 DEF d
  <2>6. CASE ~(r[1] = b /\ q > 0)
    <3>1. d = 0 /\ shelf'[r] = shelf[r]
      BY <2>2, <2>3, <2>4, <2>6
    <3> HIDE DEF d
    <3>2. Shifted(shelf[r], shelf'[r], o, d)
      BY <2>1, <3>1, ShiftedSame
    <3> QED
      BY <3>1, <3>2 DEF d, Level
  <2> QED
    BY <2>5, <2>6
<1>5. HeldInv'
  BY <1>1, <1>2, <1>3, <1>4, HeldStep
<1> QED
  BY <1>4, <1>5

LEMMA ReleaseHeld ==
  ASSUME IInv, HeldInv, NEW o \in Order, ReleaseReservation(o)
  PROVE  HeldInv' /\ \A r \in Row : Level(shelf[r], shelf'[r])
<1> DEFINE new == [order[o] EXCEPT !.state = "released"]
<1>1. order[o] \in OrderState /\ order[o].state = "open"
  BY DEF ReleaseReservation, IInv
<1>2. new \in OrderState /\ new.state = "released"
  BY <1>1 DEF OrderState
<1>3. order' = [order EXCEPT ![o] = new]
  BY DEF ReleaseReservation
<1> HIDE DEF new
<1>4. ASSUME NEW r \in Row
      PROVE  /\ Shifted(shelf[r], shelf'[r], o, HoldOf(new, r) - HoldOf(order[o], r))
             /\ Level(shelf[r], shelf'[r])
             /\ \A p \in Order : Sold(shelf'[r], p) => Sold(shelf[r], p)
  <2> DEFINE q == order[o].lines[r[2]]
             d == HoldOf(new, r) - HoldOf(order[o], r)
  <2>1. RowInv(shelf[r]) /\ shelf[r] \in Shelf
    BY DEF IInv, RowInv
  <2>2. q \in Nat
    BY <1>1, RowPair, StockAssumption DEF Lines, OrderState
  <2>3. HoldOf(new, r) = 0 /\ HoldOf(order[o], r) = IF r[1] = order[o].branch THEN q ELSE 0
    BY <1>1, <1>2 DEF HoldOf
  <2>4. shelf'[r] = IF r[1] = order[o].branch THEN Released(shelf[r], q, o) ELSE shelf[r]
    BY DEF ReleaseReservation
  <2>5. HoldOf(order[o], r) <= shelf[r].reserved
    BY HoldWithinReserved
  <2> HIDE DEF q
  <2>6. CASE r[1] = order[o].branch
    <3>1. d = -q /\ shelf'[r] = Released(shelf[r], q, o) /\ q <= shelf[r].reserved
      BY <2>2, <2>3, <2>4, <2>5, <2>6
    <3> HIDE DEF d
    <3>2. /\ Shifted(shelf[r], shelf'[r], o, d)
          /\ Level(shelf[r], shelf'[r])
          /\ \A p \in Order : Sold(shelf'[r], p) => Sold(shelf[r], p)
      BY <2>1, <2>2, <3>1, ReleasedShifts
    <3> QED
      BY <3>2 DEF d
  <2>7. CASE r[1] # order[o].branch
    <3>1. d = 0 /\ shelf'[r] = shelf[r]
      BY <2>3, <2>4, <2>7
    <3> HIDE DEF d
    <3>2. Shifted(shelf[r], shelf'[r], o, d)
      BY <2>1, <3>1, ShiftedSame
    <3> QED
      BY <3>1, <3>2 DEF d, Level
  <2> QED
    BY <2>6, <2>7
<1>5. HeldInv'
  BY <1>2, <1>3, <1>4, HeldStep
<1> QED
  BY <1>4, <1>5

(* Nothing of an open order was sold yet, so packing takes its every line. *)
LEMMA ConsumeHeld ==
  ASSUME IInv, HeldInv, NEW o \in Order, ConsumeReservation(o)
  PROVE  HeldInv' /\ \A r \in Row : Level(shelf[r], shelf'[r])
<1> DEFINE new == [order[o] EXCEPT !.state = "packed"]
<1>1. order[o] \in OrderState /\ order[o].state = "open"
  BY DEF ConsumeReservation, IInv
<1>2. new \in OrderState /\ new.state = "packed"
  BY <1>1 DEF OrderState
<1>3. order' = [order EXCEPT ![o] = new]
  BY DEF ConsumeReservation
<1> HIDE DEF new
<1>4. ASSUME NEW r \in Row
      PROVE  /\ Shifted(shelf[r], shelf'[r], o, HoldOf(new, r) - HoldOf(order[o], r))
             /\ Level(shelf[r], shelf'[r])
             /\ \A p \in Order : Sold(shelf'[r], p) => Sold(shelf[r], p) \/ p = o
  <2> DEFINE q == order[o].lines[r[2]]
             d == HoldOf(new, r) - HoldOf(order[o], r)
  <2>1. RowInv(shelf[r]) /\ shelf[r] \in Shelf
    BY DEF IInv, RowInv
  <2>2. q \in Nat
    BY <1>1, RowPair, StockAssumption DEF Lines, OrderState
  <2>3. HoldOf(new, r) = 0 /\ HoldOf(order[o], r) = IF r[1] = order[o].branch THEN q ELSE 0
    BY <1>1, <1>2 DEF HoldOf
  <2>4. r \in Pending(o) <=> r[1] = order[o].branch /\ q > 0
    BY <1>1 DEF Pending, HeldInv
  <2>5. shelf'[r] = IF r \in Pending(o)
                    THEN Post(Released(shelf[r], q, o), "SALE", -q, o, NoKey)
                    ELSE shelf[r]
    BY DEF ConsumeReservation
  <2>6. HoldOf(order[o], r) <= shelf[r].reserved
    BY HoldWithinReserved
  <2> HIDE DEF q
  <2>7. CASE r \in Pending(o)
    <3>1. /\ d = -q /\ q <= shelf[r].reserved
          /\ shelf'[r] = Post(Released(shelf[r], q, o), "SALE", -q, o, NoKey)
      BY <2>2, <2>3, <2>4, <2>5, <2>6, <2>7
    <3> HIDE DEF d
    <3>2. /\ Shifted(shelf[r], shelf'[r], o, d)
          /\ Level(shelf[r], shelf'[r])
          /\ \A p \in Order : Sold(shelf'[r], p) => Sold(shelf[r], p) \/ p = o
      BY <2>1, <2>2, <3>1, ConsumedShifts
    <3> QED
      BY <3>2 DEF d
  <2>8. CASE r \notin Pending(o)
    <3>1. shelf'[r] = shelf[r]
      BY <2>5, <2>8
    <3>2. ~(r[1] = order[o].branch /\ q > 0)
      BY <2>4, <2>8
    <3>3. d = 0
      <4>1. HoldOf(order[o], r) = 0
        BY <2>2, <2>3, <3>2
      <4> QED
        BY <2>3, <4>1
    <3> HIDE DEF d
    <3>4. Shifted(shelf[r], shelf'[r], o, d)
      BY <2>1, <3>1, <3>3, ShiftedSame
    <3> QED
      BY <3>1, <3>4 DEF d, Level
  <2> QED
    BY <2>7, <2>8
<1>5. HeldInv'
  BY <1>2, <1>3, <1>4, HeldStep
<1> QED
  BY <1>4, <1>5

LEMMA InitHeld ==
  ASSUME Init
  PROVE  HeldInv
<1>1. \A r \in Row : shelf[r] = [onHand |-> 0, reserved |-> 0, entries |-> <<>>]
  BY DEF Init
<1>2. \A o \in Order : order[o].state = "new"
  BY DEF Init
<1>3. ASSUME NEW o \in Order, NEW r \in Row
      PROVE  HeldBy(o, shelf[r]) = 0 /\ ~Sold(shelf[r], o)
  <2>1. shelf[r].entries = <<>> /\ DOMAIN shelf[r].entries = {}
    BY <1>1
  <2>2. shelf[r] \in Shelf
    BY InitIInv DEF IInv, RowInv
  <2>3. HeldEntries(o, shelf[r]) = {}
    BY <2>1 DEF HeldEntries
  <2>4. HeldBy(o, shelf[r]) = SumFunctionOnSet(Amounts(shelf[r]), {})
    BY <2>2, <2>3, RowSums
  <2> QED
    BY <2>1, <2>4, SumEmpty DEF Sold
<1>4. \A o \in Order, r \in Row : HoldOf(order[o], r) = 0
  BY <1>2 DEF HoldOf
<1>5. ASSUME NEW r \in Row
      PROVE  shelf[r].reserved = SumFunctionOnSet(HoldsOn(r), Order)
  <2> DEFINE f == HoldsOn(r)
  <2>1. \A o \in Order : f[o] = 0
    BY <1>4 DEF HoldsOn
  <2> HIDE DEF f
  <2>2. SumFunctionOnSet(f, Order) = 0
    BY <2>1, FiniteAssumption, SumZero
  <2> QED
    BY <1>1, <2>2 DEF f
<1> QED
  BY <1>3, <1>4, <1>5 DEF HeldInv

(* A transfer posts what no order's figure counts.                         *)
LEMMA TransferApart ==
  ASSUME IInv, NEW c \in Client, TransferLocked(c), NEW r \in Row
  PROVE  Apart(shelf[r], shelf'[r])
<1> DEFINE t == request[c]
           q == t.lines[r[2]]
           d == -q
<1>1. shelf[r] \in Shelf /\ t \in Requests /\ t.kind = "transfer"
  BY DEF IInv, RowInv, TransferLocked
<1>2. q \in Int /\ d \in Int
  BY <1>1, RowPair, StockAssumption DEF Requests, WriteOff, Transfer, Lines
<1>3. {"TRANSFER_OUT", "TRANSFER_IN"} \subseteq TransactionType \ Reserving
  BY DEF TransactionType, Reserving
<1>4. \/ shelf'[r] = shelf[r]
      \/ shelf'[r] = Post(shelf[r], "TRANSFER_OUT", d, NoOrder, NoKey)
      \/ shelf'[r] = Post(shelf[r], "TRANSFER_IN", q, NoOrder, NoKey)
  <2>1. shelf'[r] = shelf[r] \/ shelf'[r] = MovedBy(shelf[r], r, t)
    BY DEF TransferLocked
  <2> QED
    BY <2>1 DEF MovedBy
<1> HIDE DEF d, q
<1>5. /\ Apart(shelf[r], Post(shelf[r], "TRANSFER_OUT", d, NoOrder, NoKey))
      /\ Apart(shelf[r], Post(shelf[r], "TRANSFER_IN", q, NoOrder, NoKey))
  BY <1>1, <1>2, <1>3, ApartPost
<1> QED
  BY <1>4, <1>5, PlainSame DEF Plain

LEMMA HeldNext ==
  ASSUME IInv, HeldInv, [Next]_vars
  PROVE  HeldInv'
<1>1. CASE MoveStock
  <2>1. order' = order
    BY <1>1 DEF MoveStock, Receive, ReturnToSupplier, Sell, RestockReturn, Adjust,
                ApplyStockCount
  <2>2. \A r \in Row : Apart(shelf[r], shelf'[r])
    BY <1>1, MoveStockPlain DEF Plain
  <2> QED
    BY <2>1, <2>2, HeldApart
<1>2. CASE KeyedRequest
  <2>1. order' = order
    BY <1>2 DEF KeyedRequest, WriteOffLookup, WriteOffLocked, TransferLookup,
                TransferLocked
  <2>2. ASSUME NEW r \in Row
        PROVE  Apart(shelf[r], shelf'[r])
    <3>1. ASSUME UNCHANGED shelf PROVE Apart(shelf[r], shelf'[r])
      BY <3>1, PlainSame DEF Plain
    <3> QED
      BY <1>2, <3>1, WriteOffPlain, TransferApart
      DEF KeyedRequest, WriteOffLookup, TransferLookup, Plain
  <2> QED
    BY <2>1, <2>2, HeldApart
<1>3. CASE ForOrder
  BY <1>3, ReserveHeld, ReleaseHeld, ConsumeHeld DEF ForOrder
<1>4. CASE SetCounterSellsReserved \/ UNCHANGED vars
  <2>1. order' = order /\ shelf' = shelf
    BY <1>4 DEF SetCounterSellsReserved, vars
  <2>2. \A r \in Row : Apart(shelf[r], shelf'[r])
    BY <2>1, PlainSame DEF Plain
  <2> QED
    BY <2>1, <2>2, HeldApart
<1> QED
  BY <1>1, <1>2, <1>3, <1>4 DEF Next

LEMMA HeldInvariance == Spec => [](IInv /\ HeldInv)
<1>1. IInv /\ HeldInv /\ [Next]_vars => HeldInv'
  BY HeldNext
<1> QED
  BY <1>1, InitHeld, Invariance, PTL DEF Spec

(* In the ledger an order holds exactly its lines while it is open and     *)
(* nothing after, whatever else was sold, counted or released on the row.  *)
THEOREM OrdersAlwaysHoldTheirOwn == Spec => []OrderHoldsItsOwn
<1>1. HeldInv => OrderHoldsItsOwn
  BY DEF HeldInv, OrderHoldsItsOwn, HoldOf
<1> QED
  BY <1>1, HeldInvariance, PTL

(* A row has reserved whatever an open order at its branch is to let go.   *)
ClampNeverBites ==
  \A o \in Order, r \in Row :
    order[o].state = "open" /\ r[1] = order[o].branch
    => order[o].lines[r[2]] <= shelf[r].reserved

(* The clamp of releaseReservation and consumeReservation never bites: a   *)
(* row always has reserved what an order is about to let go.               *)
THEOREM ReservedCoversEveryOrder == Spec => []ClampNeverBites
<1>1. IInv /\ HeldInv => ClampNeverBites
  <2> SUFFICES ASSUME IInv, HeldInv, NEW o \in Order, NEW r \in Row,
                      order[o].state = "open", r[1] = order[o].branch
               PROVE  order[o].lines[r[2]] <= shelf[r].reserved
    BY DEF ClampNeverBites
  <2>1. HoldOf(order[o], r) <= shelf[r].reserved
    BY HoldWithinReserved
  <2> QED
    BY <2>1 DEF HoldOf
<1> QED
  BY <1>1, HeldInvariance, PTL

-----------------------------------------------------------------------------
(* Transfers.                                                              *)

(* A transfer waiting for its locks goes from one branch to another.       *)
TransfersMove ==
  \A c \in Client :
    request[c] # NoRequest /\ request[c].kind = "transfer"
    => request[c].source # request[c].target

TransferInv ==
  /\ TransfersMove
  /\ IsFiniteSet(transfers)
  /\ TransfersMatchDocuments

LEMMA TransferRows ==
  ASSUME IInv, NEW v \in Variant, NEW b \in Branch
  PROVE  <<b, v>> \in Row /\ shelf[<<b, v>>] \in Shelf
BY DEF IInv, RowInv, Row

(* Rows that transfers moved no more than they had, and the same documents.*)
LEMMA LevelKeepsDocuments ==
  ASSUME TransferInv, \A r \in Row : Level(shelf[r], shelf'[r]),
         UNCHANGED transfers, TransfersMove'
  PROVE  TransferInv'
<1>1. ASSUME NEW b \in Branch, NEW v \in Variant
      PROVE  /\ Total(shelf'[<<b, v>>], {"TRANSFER_OUT"})
                  = Total(shelf[<<b, v>>], {"TRANSFER_OUT"})
             /\ Total(shelf'[<<b, v>>], {"TRANSFER_IN"})
                  = Total(shelf[<<b, v>>], {"TRANSFER_IN"})
  BY DEF Level, Row, Transfers
<1>2. \A v, docs : Moved(v, docs)' = Moved(v, docs)
  BY DEF Moved
<1> QED
  BY <1>1, <1>2 DEF TransferInv, TransfersMatchDocuments

(* What a transfer posts at a branch: each type only at its own end.       *)
LEMMA MovedTotals ==
  ASSUME NEW s \in Shelf, NEW r \in Row, NEW t, t.lines[r[2]] \in Nat,
         t.source # t.target
  PROVE  /\ Total(MovedBy(s, r, t), {"TRANSFER_OUT"})
              = Total(s, {"TRANSFER_OUT"})
                - (IF r[1] = t.source THEN t.lines[r[2]] ELSE 0)
         /\ Total(MovedBy(s, r, t), {"TRANSFER_IN"})
              = Total(s, {"TRANSFER_IN"})
                + (IF r[1] = t.target THEN t.lines[r[2]] ELSE 0)
<1> DEFINE q == t.lines[r[2]]
           d == -q
           out == Post(s, "TRANSFER_OUT", d, NoOrder, NoKey)
           in == Post(s, "TRANSFER_IN", q, NoOrder, NoKey)
<1>1. /\ q \in Int /\ d \in Int
      /\ Total(s, {"TRANSFER_OUT"}) \in Int /\ Total(s, {"TRANSFER_IN"}) \in Int
  BY RowSums
<1>2. /\ "TRANSFER_OUT" \in TransactionType /\ "TRANSFER_IN" \in TransactionType
      /\ NoOrder \in Order \cup {NoOrder} /\ NoKey \in Key \cup {NoKey}
  BY DEF TransactionType
<1>3. d = -q
  OBVIOUS
<1>4. MovedBy(s, r, t) = IF q = 0 THEN s
                         ELSE IF r[1] = t.source THEN out
                         ELSE IF r[1] = t.target THEN in
                         ELSE s
  BY DEF MovedBy
<1> HIDE DEF d, q
<1>5. /\ Gains(s, out, {"TRANSFER_OUT"}, d) /\ Gains(s, out, {"TRANSFER_IN"}, 0)
      /\ Gains(s, in, {"TRANSFER_IN"}, q) /\ Gains(s, in, {"TRANSFER_OUT"}, 0)
  BY <1>1, <1>2, PostedTotal
<1> HIDE DEF out, in
<1> QED
  BY <1>1, <1>3, <1>4, <1>5 DEF Gains, q

(* A new document adds its own lines to what documents move, and changes   *)
(* nothing of what the others do.                                          *)
LineOf(docs, v) == [t \in docs |-> t.lines[v]]

LEMMA DocumentAdds ==
  ASSUME NEW docs \in SUBSET Transfer, NEW t \in Transfer, t \notin docs,
         NEW S \in SUBSET docs, IsFiniteSet(docs), NEW v \in Variant
  PROVE  /\ SumFunctionOnSet(LineOf(docs \cup {t}, v), S)
              = SumFunctionOnSet(LineOf(docs, v), S)
         /\ SumFunctionOnSet(LineOf(docs \cup {t}, v), S \cup {t})
              = SumFunctionOnSet(LineOf(docs, v), S) + t.lines[v]
         /\ SumFunctionOnSet(LineOf(docs, v), S) \in Int
<1> DEFINE f == LineOf(docs, v)
           g == LineOf(docs \cup {t}, v)
<1>1. \A x \in Transfer : x.lines[v] \in Int
  BY StockAssumption DEF Transfer, Lines
<1>2. /\ \A x \in S : f[x] = g[x] /\ f[x] \in Int
      /\ g[t] = t.lines[v] /\ g[t] \in Int
  BY <1>1 DEF LineOf
<1>3. IsFiniteSet(S) /\ t \notin S
  BY FS_Subset
<1> HIDE DEF f, g
<1>4. SumFunctionOnSet(f, S) = SumFunctionOnSet(g, S)
  BY <1>2, <1>3, SumSame
<1>5. SumFunctionOnSet(g, S \cup {t}) = SumFunctionOnSet(f, S) + g[t]
  BY <1>2, <1>3, SumMore
<1>6. SumFunctionOnSet(f, S) \in Int
  BY <1>2, <1>3, SumInt
<1> QED
  BY <1>2, <1>4, <1>5, <1>6 DEF f, g

LEMMA TransferMatches ==
  ASSUME IInv, TransferInv, NEW c \in Client, TransferLocked(c)
  PROVE  IsFiniteSet(transfers)' /\ TransfersMatchDocuments'
<1> DEFINE t == request[c]
<1>1. /\ t \in Transfer /\ t.source # t.target
      /\ transfers \in SUBSET Transfer /\ IsFiniteSet(transfers)
  BY DEF TransferLocked, IInv, TransferInv, TransfersMove, Requests, WriteOff
<1>2. \/ UNCHANGED <<shelf, transfers>>
      \/ /\ ~Documented(t.key)
         /\ shelf' = [r \in Row |-> MovedBy(shelf[r], r, t)]
         /\ transfers' = transfers \cup {t}
  BY DEF TransferLocked
<1> HIDE DEF t
<1>3. CASE UNCHANGED <<shelf, transfers>>
  BY <1>1, <1>3 DEF TransferInv, TransfersMatchDocuments, Moved
<1>4. CASE /\ ~Documented(t.key)
           /\ shelf' = [r \in Row |-> MovedBy(shelf[r], r, t)]
           /\ transfers' = transfers \cup {t}
  <2>1. t \notin transfers
    BY <1>4 DEF Documented
  <2>2. \A t1, t2 \in transfers' : t1.key = t2.key => t1 = t2
    BY <1>4 DEF Documented, TransferInv, TransfersMatchDocuments
  <2>3. ASSUME NEW b \in Branch, NEW v \in Variant
        PROVE  /\ Total(shelf'[<<b, v>>], {"TRANSFER_OUT"}) =
                    -Moved(v, {x \in transfers : x.source = b})'
               /\ Total(shelf'[<<b, v>>], {"TRANSFER_IN"}) =
                    Moved(v, {x \in transfers : x.target = b})'
    <3> DEFINE r == <<b, v>>
               from == {x \in transfers : x.source = b}
               to == {x \in transfers : x.target = b}
    <3>1. /\ r \in Row /\ r[1] = b /\ r[2] = v /\ shelf[r] \in Shelf
          /\ shelf'[r] = MovedBy(shelf[r], r, t)
      BY <1>4, TransferRows
    <3>2. t.lines[r[2]] \in Nat /\ t.lines[r[2]] = t.lines[v]
      BY <1>1, StockAssumption DEF Transfer, Lines
    <3>3. /\ Total(shelf[r], {"TRANSFER_OUT"})
               = -SumFunctionOnSet(LineOf(transfers, v), from)
          /\ Total(shelf[r], {"TRANSFER_IN"})
               = SumFunctionOnSet(LineOf(transfers, v), to)
      BY DEF TransferInv, TransfersMatchDocuments, Moved, LineOf
    <3>4. /\ {x \in transfers' : x.source = b}
               = IF b = t.source THEN from \cup {t} ELSE from
          /\ {x \in transfers' : x.target = b}
               = IF b = t.target THEN to \cup {t} ELSE to
      BY <1>4
    <3>5. /\ Moved(v, {x \in transfers : x.source = b})'
               = SumFunctionOnSet(LineOf(transfers \cup {t}, v),
                                  {x \in transfers' : x.source = b})
          /\ Moved(v, {x \in transfers : x.target = b})'
               = SumFunctionOnSet(LineOf(transfers \cup {t}, v),
                                  {x \in transfers' : x.target = b})
      BY <1>4 DEF Moved, LineOf
    <3>6. from \in SUBSET transfers /\ to \in SUBSET transfers
      OBVIOUS
    <3> HIDE DEF r, from, to
    <3>7. \A S \in SUBSET transfers :
            /\ SumFunctionOnSet(LineOf(transfers \cup {t}, v), S)
                 = SumFunctionOnSet(LineOf(transfers, v), S)
            /\ SumFunctionOnSet(LineOf(transfers \cup {t}, v), S \cup {t})
                 = SumFunctionOnSet(LineOf(transfers, v), S) + t.lines[v]
            /\ SumFunctionOnSet(LineOf(transfers, v), S) \in Int
      BY <1>1, <2>1, DocumentAdds
    <3>8. /\ Total(MovedBy(shelf[r], r, t), {"TRANSFER_OUT"})
               = Total(shelf[r], {"TRANSFER_OUT"})
                 - (IF b = t.source THEN t.lines[v] ELSE 0)
          /\ Total(MovedBy(shelf[r], r, t), {"TRANSFER_IN"})
               = Total(shelf[r], {"TRANSFER_IN"})
                 + (IF b = t.target THEN t.lines[v] ELSE 0)
      BY <1>1, <3>1, <3>2, MovedTotals
    <3> DEFINE q == t.lines[v]
               sent == SumFunctionOnSet(LineOf(transfers, v), from)
               came == SumFunctionOnSet(LineOf(transfers, v), to)
               sentNow == Moved(v, {x \in transfers : x.source = b})'
               cameNow == Moved(v, {x \in transfers : x.target = b})'
               out == Total(shelf'[r], {"TRANSFER_OUT"})
               in == Total(shelf'[r], {"TRANSFER_IN"})
    <3>9. /\ q \in Int /\ sent \in Int /\ came \in Int
          /\ out = -sent - (IF b = t.source THEN q ELSE 0)
          /\ in = came + (IF b = t.target THEN q ELSE 0)
      <4>1. q \in Int /\ sent \in Int /\ came \in Int
        <5>1. q \in Int
          BY <3>2
        <5>2. sent \in Int /\ came \in Int
          BY <3>6, <3>7, Zenon
        <5> QED
          BY <5>1, <5>2
      <4>2. /\ out = Total(shelf[r], {"TRANSFER_OUT"}) - (IF b = t.source THEN q ELSE 0)
            /\ in = Total(shelf[r], {"TRANSFER_IN"}) + (IF b = t.target THEN q ELSE 0)
        BY <3>1, <3>8
      <4>3. /\ Total(shelf[r], {"TRANSFER_OUT"}) = -sent
            /\ Total(shelf[r], {"TRANSFER_IN"}) = came
        BY <3>3
      <4> HIDE DEF q, sent, came, out, in
      <4> QED
        BY <4>1, <4>2, <4>3
    <3>10. sentNow = IF b = t.source THEN sent + q ELSE sent
      BY <3>4, <3>5, <3>6, <3>7
    <3>11. cameNow = IF b = t.target THEN came + q ELSE came
      BY <3>4, <3>5, <3>6, <3>7
    <3> HIDE DEF q, sent, came, sentNow, cameNow, out, in
    <3>12. out = -sentNow /\ in = cameNow
      BY <3>9, <3>10, <3>11
    <3> QED
      BY <3>12 DEF r, sentNow, cameNow, out, in
  <2>4. IsFiniteSet(transfers')
    BY <1>1, <1>4, FS_AddElement
  <2> QED
    BY <2>2, <2>3, <2>4 DEF TransfersMatchDocuments
<1> QED
  BY <1>2, <1>3, <1>4

LEMMA TransfersMoveNext ==
  ASSUME IInv, TransfersMove, [Next]_vars
  PROVE  TransfersMove'
<1>1. ASSUME UNCHANGED request PROVE TransfersMove'
  BY <1>1 DEF TransfersMove
<1>2. ASSUME NEW c \in Client, request' = [request EXCEPT ![c] = NoRequest]
      PROVE  TransfersMove'
  BY <1>2 DEF TransfersMove, IInv
<1>3. ASSUME NEW c \in Client, NEW r \in Row, NEW q \in 1 .. MaxQty, NEW key \in Key,
             WriteOffLookup(c, r, q, key)
      PROVE  TransfersMove'
  BY <1>3 DEF TransfersMove, IInv, WriteOffLookup
<1>4. ASSUME NEW c \in Client, NEW b1 \in Branch, NEW b2 \in Branch,
             NEW lines \in Lines, NEW key \in Key,
             TransferLookup(c, b1, b2, lines, key)
      PROVE  TransfersMove'
  BY <1>4 DEF TransfersMove, IInv, TransferLookup
<1>5. CASE KeyedRequest
  BY <1>2, <1>3, <1>4, <1>5 DEF KeyedRequest, WriteOffLocked, TransferLocked
<1>6. CASE MoveStock
  BY <1>1, <1>6 DEF MoveStock, Receive, ReturnToSupplier, Sell, RestockReturn,
                    Adjust, ApplyStockCount
<1>7. CASE ForOrder
  BY <1>1, <1>7 DEF ForOrder, Reserve, ReleaseReservation, ConsumeReservation
<1> QED
  BY <1>1, <1>5, <1>6, <1>7 DEF Next, SetCounterSellsReserved, vars

LEMMA InitTransfer ==
  ASSUME Init
  PROVE  TransferInv
<1>1. TransfersMove /\ transfers = {} /\ IsFiniteSet(transfers)
  BY FS_EmptySet DEF Init, TransfersMove
<1>2. ASSUME NEW b \in Branch, NEW v \in Variant, NEW types
      PROVE  Total(shelf[<<b, v>>], types) = 0
  <2> DEFINE s == shelf[<<b, v>>]
  <2>1. s.entries = <<>> /\ DOMAIN s.entries = {}
    BY DEF Init, Row
  <2>2. s \in Shelf
    BY InitIInv, TransferRows
  <2> HIDE DEF s
  <2>3. TypedEntries(s, types) = {}
    BY <2>1 DEF TypedEntries
  <2>4. Total(s, types) = SumFunctionOnSet(Amounts(s), {})
    BY <2>2, <2>3, RowSums
  <2> QED
    BY <2>4, SumEmpty DEF s
<1>3. \A v : Moved(v, {}) = 0
  BY SumEmpty DEF Moved
<1>4. \A b \in Branch : /\ {t \in transfers : t.source = b} = {}
                        /\ {t \in transfers : t.target = b} = {}
  BY <1>1
<1> QED
  BY <1>1, <1>2, <1>3, <1>4 DEF TransferInv, TransfersMatchDocuments

LEMMA TransferNext ==
  ASSUME IInv, HeldInv, TransferInv, [Next]_vars
  PROVE  TransferInv'
<1>1. TransfersMove'
  BY TransfersMoveNext DEF TransferInv
<1>2. ASSUME NEW c \in Client, TransferLocked(c) PROVE TransferInv'
  BY <1>1, <1>2, TransferMatches DEF TransferInv
<1>3. ASSUME UNCHANGED shelf, NEW r \in Row PROVE Level(shelf[r], shelf'[r])
  BY <1>3 DEF Level
<1>4. CASE MoveStock
  <2>1. UNCHANGED transfers
    BY <1>4 DEF MoveStock, Receive, ReturnToSupplier, Sell, RestockReturn,
                Adjust, ApplyStockCount
  <2> QED
    BY <1>1, <1>4, <2>1, MoveStockPlain, LevelKeepsDocuments DEF Plain
<1>5. ASSUME NEW c \in Client, WriteOffLocked(c) PROVE TransferInv'
  <2>1. UNCHANGED transfers
    BY <1>5 DEF WriteOffLocked
  <2> QED
    BY <1>1, <1>5, <2>1, WriteOffPlain, LevelKeepsDocuments DEF Plain
<1>6. CASE ForOrder
  <2>1. UNCHANGED transfers
    BY <1>6 DEF ForOrder, Reserve, ReleaseReservation, ConsumeReservation
  <2> QED
    BY <1>1, <1>6, <2>1, ReserveHeld, ReleaseHeld, ConsumeHeld, LevelKeepsDocuments
    DEF ForOrder
<1>7. ASSUME UNCHANGED <<shelf, transfers>> PROVE TransferInv'
  BY <1>1, <1>3, <1>7, LevelKeepsDocuments
<1> QED
  BY <1>2, <1>4, <1>5, <1>6, <1>7
  DEF Next, KeyedRequest, WriteOffLookup, TransferLookup, SetCounterSellsReserved, vars

(* A retry makes no second transfer document, and what transfers took off  *)
(* every shelf and put on it is what the documents say, line by line: for  *)
(* any branches, variants and lines, in whichever order transfers, their   *)
(* retries and everything else that moves stock come.                      *)
THEOREM TransfersAlwaysMatch == Spec => []TransfersMatchDocuments
<1>1. IInv /\ HeldInv /\ TransferInv /\ [Next]_vars => TransferInv'
  BY TransferNext
<1>2. Init => TransferInv
  BY InitTransfer
<1>3. TransferInv => TransfersMatchDocuments
  BY DEF TransferInv
<1> QED
  BY <1>1, <1>2, <1>3, HeldInvariance, PTL DEF Spec
=============================================================================
