------------------------------- MODULE Stock -------------------------------
(***************************************************************************)
(* The stock ledger of inventory/stock.service.ts.                         *)
(*                                                                         *)
(* A shelf is one row of inventory_inventory (a variant at a branch): the  *)
(* cached figures on_hand and reserved, and the ledger entries written for *)
(* that row.  A method of StockService locks every row it moves, lowest id *)
(* first, checks, and writes cache and ledger under the lock, so each is   *)
(* one step here.  What a method reads BEFORE it holds the lock (the       *)
(* lookup of an idempotency key) is a step of its own.                     *)
(*                                                                         *)
(* Costs are not kept here: no check in this service depends on them.      *)
(***************************************************************************)
EXTENDS Integers, Sequences, FiniteSets, Functions

CONSTANTS
  Branch, Variant,
  Order,           \* online orders: what reservations are written for
  Client,          \* requests in flight that carry an idempotency key
  Key, NoKey,      \* idempotency keys; an entry written without one
  NoBranch,        \* the branch of an order not placed yet
  NoOrder,         \* the reference of a movement no online order made
  NoRequest,
  AllowOversell,   \* RANGON_ALLOW_OVERSELL
  MaxQty,          \* largest quantity one line asks for
  MaxDelivery,     \* largest quantity received at once
  MaxEntries       \* no movement starts once the ledger holds this many rows

ASSUME StockAssumption ==
  /\ AllowOversell \in BOOLEAN
  /\ MaxQty \in Nat \ {0} /\ MaxDelivery \in Nat \ {0}
  /\ MaxEntries \in Nat
  /\ NoOrder \notin Order
  /\ NoKey \notin Key

(* They are rows of the database: never infinitely many.                   *)
ASSUME FiniteAssumption == IsFiniteSet(Order) /\ IsFiniteSet(Branch)

VARIABLES
  shelf,                \* [Row -> Shelf]
  order,                \* what each online order has asked of the stock
  request,              \* keyed requests between their lookup and their lock
  transfers,            \* the inventory_stocktransfer rows, with their lines
  counterSellsReserved  \* the organisation's switch (business-rules 1.4)

vars == <<shelf, order, request, transfers, counterSellsReserved>>

Row == Branch \X Variant

Reserving == {"RESERVATION", "RESERVATION_RELEASE"}

(* LOSS moves and is checked exactly as DAMAGE is; one stands for both.    *)
TransactionType ==
  {"PURCHASE", "SALE", "RETURN", "DAMAGE", "ADJUSTMENT",
   "TRANSFER_IN", "TRANSFER_OUT", "PURCHASE_RETURN"} \cup Reserving

Entry ==
  [type : TransactionType, quantity : Int, onHandAfter : Int,
   reservedAfter : Int, order : Order \cup {NoOrder}, key : Key \cup {NoKey}]

Shelf == [onHand : Int, reserved : Nat, entries : Seq(Entry)]

(* Lines by variant.  Checkout's lines come from a cart, one per variant;  *)
(* a counter's basket may carry a SKU on two lines.                        *)
Lines == [Variant -> 0 .. MaxQty]
Basket == [Variant -> (0 .. MaxQty) \X (0 .. MaxQty)]

WriteOff ==
  [kind : {"write_off"}, row : Row, quantity : 1 .. MaxQty, key : Key]

(* A SKU stands on one line of a transfer (a unique index says so).        *)
Transfer ==
  [kind : {"transfer"}, source : Branch, target : Branch, lines : Lines,
   key : Key]

Requests == WriteOff \cup Transfer

OrderState ==
  [state : {"new", "open", "released", "packed"},
   branch : Branch \cup {NoBranch}, lines : Lines]

-----------------------------------------------------------------------------
(* Rows and the ledger.                                                    *)

Available(s) == s.onHand - s.reserved

Lesser(a, b) == IF a < b THEN a ELSE b

(* Slips of `Post` the properties below must catch: a reservation entered  *)
(* with its sign reversed; an entry showing the figure from before it.     *)
PostReversed(s, type, delta, o, key) ==
  LET onHand == s.onHand + (IF type \in Reserving THEN 0 ELSE delta)
      held   == s.reserved - (IF type \in Reserving THEN delta ELSE 0)
  IN  [onHand |-> onHand, reserved |-> held,
       entries |-> Append(s.entries,
         [type |-> type, quantity |-> delta, onHandAfter |-> onHand,
          reservedAfter |-> held, order |-> o, key |-> key])]

PostBefore(s, type, delta, o, key) ==
  LET onHand == s.onHand + (IF type \in Reserving THEN 0 ELSE delta)
      held   == s.reserved + (IF type \in Reserving THEN delta ELSE 0)
  IN  [onHand |-> onHand, reserved |-> held,
       entries |-> Append(s.entries,
         [type |-> type, quantity |-> delta, onHandAfter |-> s.onHand,
          reservedAfter |-> held, order |-> o, key |-> key])]

(* `writeLedger`: the cache moved and its entry appended, together.        *)
Post(s, type, delta, o, key) ==
  LET onHand == s.onHand + (IF type \in Reserving THEN 0 ELSE delta)
      held   == s.reserved + (IF type \in Reserving THEN delta ELSE 0)
  IN  [onHand |-> onHand, reserved |-> held,
       entries |-> Append(s.entries,
         [type |-> type, quantity |-> delta, onHandAfter |-> onHand,
          reservedAfter |-> held, order |-> o, key |-> key])]

(* One entry for each of a SKU's lines, none for a quantity of zero.       *)
PostEach(s, type, sign, pair) ==
  LET first == IF pair[1] = 0 THEN s
               ELSE Post(s, type, sign * pair[1], NoOrder, NoKey)
  IN  IF pair[2] = 0 THEN first
      ELSE Post(first, type, sign * pair[2], NoOrder, NoKey)

(* Slip: the lines of one SKU each checked alone (D149).                   *)
AskedByLine(pair) == IF pair[1] > pair[2] THEN pair[1] ELSE pair[2]

Asked(pair) == pair[1] + pair[2]

(* Slip: off by one.                                                       *)
CanReduceByOneMore(s, quantity) == AllowOversell \/ s.onHand + 1 >= quantity

(* `checkCanReduce`: the shelf may not go below zero, oversell aside.      *)
CanReduce(s, quantity) == AllowOversell \/ s.onHand >= quantity

(* `checkCounterCanTake`: units an online order holds are not for sale at  *)
(* the counter, unless the owner says so.                                  *)
CounterCanTake(s, quantity) ==
  \/ quantity <= 0
  \/ Available(s) >= quantity
  \/ AllowOversell
  \/ counterSellsReserved

(* `receivedVariantIds`: this branch has had the variant in at a cost.     *)
Received(s) ==
  \E i \in DOMAIN s.entries : s.entries[i].type \in {"PURCHASE", "TRANSFER_IN"}

(* Slip: a single unit found is let through.                               *)
CanRaiseByOne(s, delta) == delta <= 1 \/ Received(s)

CanRaise(s, delta) == delta <= 0 \/ Received(s)

(* `byKey`: the idempotency key has a ledger row.                          *)
Claimed(key) ==
  \E r \in Row : \E i \in DOMAIN shelf[r].entries :
    shelf[r].entries[i].key = key

(* The variants with a SALE already written for the order.                 *)
Sold(s, o) ==
  \E i \in DOMAIN s.entries :
    s.entries[i].type = "SALE" /\ s.entries[i].order = o

Total(s, types) ==
  SumFunctionOnSet([i \in DOMAIN s.entries |-> s.entries[i].quantity],
                   {i \in DOMAIN s.entries : s.entries[i].type \in types})

Written == SumFunction([r \in Row |-> Len(shelf[r].entries)])
Room == Written < MaxEntries

-----------------------------------------------------------------------------
(* Movements of stock on hand.                                             *)

(* `receiveStock`: stock in at a cost.                                     *)
Receive(r, q) ==
  /\ Room
  /\ shelf' = [shelf EXCEPT ![r] = Post(@, "PURCHASE", q, NoOrder, NoKey)]
  /\ UNCHANGED <<order, request, transfers, counterSellsReserved>>

(* `returnToSupplier`: the shelf must hold the units, oversell or not.     *)
ReturnToSupplier(r, q) ==
  /\ Room
  /\ shelf[r].onHand >= q
  /\ shelf' = [shelf EXCEPT
                 ![r] = Post(@, "PURCHASE_RETURN", -q, NoOrder, NoKey)]
  /\ UNCHANGED <<order, request, transfers, counterSellsReserved>>

(* `sell`: every variant checked on what the basket asks of it in all.     *)
Sell(b, basket) ==
  /\ Room
  /\ \E v \in Variant : Asked(basket[v]) > 0
  /\ \A v \in Variant :
       /\ CanReduce(shelf[<<b, v>>], Asked(basket[v]))
       /\ CounterCanTake(shelf[<<b, v>>], Asked(basket[v]))
  /\ shelf' = [r \in Row |->
                 IF r[1] = b THEN PostEach(shelf[r], "SALE", -1, basket[r[2]])
                 ELSE shelf[r]]
  /\ UNCHANGED <<order, request, transfers, counterSellsReserved>>

(* `restockReturn`: goods back, and nothing asked of the shelf first.      *)
RestockReturn(b, basket) ==
  /\ Room
  /\ \E v \in Variant : Asked(basket[v]) > 0
  /\ shelf' = [r \in Row |->
                 IF r[1] = b THEN PostEach(shelf[r], "RETURN", 1, basket[r[2]])
                 ELSE shelf[r]]
  /\ UNCHANGED <<order, request, transfers, counterSellsReserved>>

(* `adjust`: the difference to the figure the shelf should show.           *)
Adjusted(s, newOnHand) ==
  IF newOnHand = s.onHand THEN s
  ELSE Post(s, "ADJUSTMENT", newOnHand - s.onHand, NoOrder, NoKey)

Adjust(r, newOnHand) ==
  /\ Room
  /\ newOnHand # shelf[r].onHand
  /\ CanRaise(shelf[r], newOnHand - shelf[r].onHand)
  /\ shelf' = [shelf EXCEPT ![r] = Adjusted(@, newOnHand)]
  /\ UNCHANGED <<order, request, transfers, counterSellsReserved>>

(* `applyStockCount`: a sheet's counted lines, all of them or none.        *)
ApplyStockCount(b, counted) ==
  /\ Room
  /\ \A v \in DOMAIN counted :
       CanRaise(shelf[<<b, v>>], counted[v] - shelf[<<b, v>>].onHand)
  /\ \E v \in DOMAIN counted : counted[v] # shelf[<<b, v>>].onHand
  /\ shelf' = [r \in Row |->
                 IF r[1] = b /\ r[2] \in DOMAIN counted
                 THEN Adjusted(shelf[r], counted[r[2]]) ELSE shelf[r]]
  /\ UNCHANGED <<order, request, transfers, counterSellsReserved>>

-----------------------------------------------------------------------------
(* Keyed requests: a lookup without the lock, then the work under it.      *)

(* `applyTransaction` (a write-off) before its lock: a key already claimed *)
(* is answered with the row it made.                                       *)
WriteOffLookup(c, r, q, key) ==
  /\ Room
  /\ request[c] = NoRequest
  /\ ~Claimed(key)
  /\ request' = [request EXCEPT
                   ![c] = [kind |-> "write_off", row |-> r, quantity |-> q,
                           key |-> key]]
  /\ UNCHANGED <<shelf, order, transfers, counterSellsReserved>>

(* Slip: the key not looked up again under the lock.                       *)
WriteOffUnchecked(c) ==
  /\ request[c] # NoRequest
  /\ request[c].kind = "write_off"
  /\ LET w == request[c] IN
       shelf' = IF ~CanReduce(shelf[w.row], w.quantity)
                THEN shelf
                ELSE [shelf EXCEPT
                        ![w.row] = Post(@, "DAMAGE", -w.quantity, NoOrder, w.key)]
  /\ request' = [request EXCEPT ![c] = NoRequest]
  /\ UNCHANGED <<order, transfers, counterSellsReserved>>

(* ... and once it holds the lock: the key looked up again, the shelf      *)
(* checked, the entry written.  A refusal rolls everything back.           *)
WriteOffLocked(c) ==
  /\ request[c] # NoRequest
  /\ request[c].kind = "write_off"
  /\ LET w == request[c] IN
       shelf' = IF Claimed(w.key) \/ ~CanReduce(shelf[w.row], w.quantity)
                THEN shelf
                ELSE [shelf EXCEPT
                        ![w.row] = Post(@, "DAMAGE", -w.quantity, NoOrder, w.key)]
  /\ request' = [request EXCEPT ![c] = NoRequest]
  /\ UNCHANGED <<order, transfers, counterSellsReserved>>

(* A transfer document has the key: a unique column.                       *)
Documented(key) == \E t \in transfers : t.key = key

TransferLookup(c, b1, b2, lines, key) ==
  /\ Room
  /\ request[c] = NoRequest
  /\ ~Documented(key)
  /\ b1 # b2
  /\ \E v \in Variant : lines[v] > 0
  /\ request' = [request EXCEPT
                   ![c] = [kind |-> "transfer", source |-> b1, target |-> b2,
                           lines |-> lines, key |-> key]]
  /\ UNCHANGED <<shelf, order, transfers, counterSellsReserved>>

(* A line of a transfer: out of the source, in at the target.              *)
MovedBy(s, r, t) ==
  LET q == t.lines[r[2]]
  IN  IF q = 0 THEN s
      ELSE IF r[1] = t.source THEN Post(s, "TRANSFER_OUT", -q, NoOrder, NoKey)
      ELSE IF r[1] = t.target THEN Post(s, "TRANSFER_IN", q, NoOrder, NoKey)
      ELSE s

(* Slip: each line checked as it is moved, and the ones that fall short    *)
(* left behind on a document that stands.                                  *)
TransferLineByLine(c) ==
  /\ request[c] # NoRequest
  /\ request[c].kind = "transfer"
  /\ LET t == request[c]
         covered == [v \in Variant |->
                       IF CanReduce(shelf[<<t.source, v>>], t.lines[v])
                       THEN t.lines[v] ELSE 0]
     IN  IF Documented(t.key) THEN UNCHANGED <<shelf, transfers>>
         ELSE /\ shelf' = [r \in Row |->
                             MovedBy(shelf[r], r, [t EXCEPT !.lines = covered])]
              /\ transfers' = transfers \cup {t}
  /\ request' = [request EXCEPT ![c] = NoRequest]
  /\ UNCHANGED <<order, counterSellsReserved>>

(* `transfer`: the document claims the key before any stock moves, every   *)
(* line is checked before the first one does; a transfer the source cannot *)
(* cover is rolled back whole, document and key with it.                   *)
TransferLocked(c) ==
  /\ request[c] # NoRequest
  /\ request[c].kind = "transfer"
  /\ LET t == request[c]
         moves == /\ ~Documented(t.key)
                  /\ \A v \in Variant :
                       CanReduce(shelf[<<t.source, v>>], t.lines[v])
     IN  /\ shelf' = IF moves THEN [r \in Row |-> MovedBy(shelf[r], r, t)]
                     ELSE shelf
         /\ transfers' = IF moves THEN transfers \cup {t} ELSE transfers
  /\ request' = [request EXCEPT ![c] = NoRequest]
  /\ UNCHANGED <<order, counterSellsReserved>>

-----------------------------------------------------------------------------
(* Reservations, as the order lifecycle calls them: an order reserves once *)
(* and then either lets go or is packed.                                   *)

Reserve(o, b, lines) ==
  /\ Room
  /\ order[o].state = "new"
  /\ \E v \in Variant : lines[v] > 0
  /\ \A v \in Variant :
       lines[v] = 0 \/ Available(shelf[<<b, v>>]) >= lines[v] \/ AllowOversell
  /\ shelf' = [r \in Row |->
                 IF r[1] = b /\ lines[r[2]] > 0
                 THEN Post(shelf[r], "RESERVATION", lines[r[2]], o, NoKey)
                 ELSE shelf[r]]
  /\ order' = [order EXCEPT
                 ![o] = [state |-> "open", branch |-> b, lines |-> lines]]
  /\ UNCHANGED <<request, transfers, counterSellsReserved>>

(* Slip: all the row holds given back, whoever it is held for.             *)
ReleasedAll(s, q, o) ==
  IF q = 0 \/ s.reserved = 0 THEN s
  ELSE Post(s, "RESERVATION_RELEASE", -s.reserved, o, NoKey)

(* No more is given back than the row holds; none, and nothing is written. *)
Released(s, q, o) ==
  IF Lesser(q, s.reserved) = 0 THEN s
  ELSE Post(s, "RESERVATION_RELEASE", -Lesser(q, s.reserved), o, NoKey)

ReleaseReservation(o) ==
  /\ order[o].state = "open"
  /\ shelf' = [r \in Row |->
                 IF r[1] = order[o].branch
                 THEN Released(shelf[r], order[o].lines[r[2]], o)
                 ELSE shelf[r]]
  /\ order' = [order EXCEPT ![o].state = "released"]
  /\ UNCHANGED <<request, transfers, counterSellsReserved>>

(* The variants of an order `consumeReservation` still has to take: those  *)
(* without a SALE for this order.                                          *)
Pending(o) ==
  {r \in Row : /\ r[1] = order[o].branch
               /\ order[o].lines[r[2]] > 0
               /\ ~Sold(shelf[r], o)}

ConsumeReservation(o) ==
  /\ order[o].state = "open"
  /\ \A r \in Pending(o) : CanReduce(shelf[r], order[o].lines[r[2]])
  /\ shelf' = [r \in Row |->
                 IF r \in Pending(o)
                 THEN LET q == order[o].lines[r[2]]
                      IN  Post(Released(shelf[r], q, o), "SALE", -q, o, NoKey)
                 ELSE shelf[r]]
  /\ order' = [order EXCEPT ![o].state = "packed"]
  /\ UNCHANGED <<request, transfers, counterSellsReserved>>

(* The owner's switch, changed in Settings at any time.                    *)
SetCounterSellsReserved ==
  /\ counterSellsReserved' = ~counterSellsReserved
  /\ UNCHANGED <<shelf, order, request, transfers>>

-----------------------------------------------------------------------------

Init ==
  /\ shelf = [r \in Row |-> [onHand |-> 0, reserved |-> 0, entries |-> <<>>]]
  /\ order = [o \in Order |-> [state |-> "new", branch |-> NoBranch,
                               lines |-> [v \in Variant |-> 0]]]
  /\ request = [c \in Client |-> NoRequest]
  /\ transfers = {}
  /\ counterSellsReserved = FALSE

MoveStock ==
  \/ \E r \in Row, q \in 1 .. MaxDelivery : Receive(r, q)
  \/ \E r \in Row, q \in 1 .. MaxQty : ReturnToSupplier(r, q)
  \/ \E b \in Branch, basket \in Basket : Sell(b, basket)
  \/ \E b \in Branch, basket \in Basket : RestockReturn(b, basket)
  \/ \E r \in Row, n \in 0 .. MaxQty : Adjust(r, n)
  \/ \E b \in Branch, V \in SUBSET Variant :
       \E counted \in [V -> 0 .. MaxQty] : ApplyStockCount(b, counted)

KeyedRequest ==
  \/ \E c \in Client, r \in Row, q \in 1 .. MaxQty, key \in Key :
       WriteOffLookup(c, r, q, key)
  \/ \E c \in Client : WriteOffLocked(c)
  \/ \E c \in Client, b1, b2 \in Branch, lines \in Lines,
        key \in Key : TransferLookup(c, b1, b2, lines, key)
  \/ \E c \in Client : TransferLocked(c)

ForOrder ==
  \/ \E o \in Order, b \in Branch, lines \in Lines : Reserve(o, b, lines)
  \/ \E o \in Order : ReleaseReservation(o)
  \/ \E o \in Order : ConsumeReservation(o)

Next == MoveStock \/ KeyedRequest \/ ForOrder \/ SetCounterSellsReserved

Spec == Init /\ [][Next]_vars

-----------------------------------------------------------------------------
(* Properties.                                                             *)

(* Every variable keeps its type; a row's reserved figure is never         *)
(* negative, the one bound the database itself enforces on it.             *)
TypeOK ==
  /\ shelf \in [Row -> Shelf]
  /\ order \in [Order -> OrderState]
  /\ request \in [Client -> Requests \cup {NoRequest}]
  /\ transfers \subseteq Transfer
  /\ counterSellsReserved \in BOOLEAN

(* The figures a row's i-th entry found: those the one before it left.     *)
OnHandBefore(s, i) == IF i = 1 THEN 0 ELSE s.entries[i - 1].onHandAfter
ReservedBefore(s, i) == IF i = 1 THEN 0 ELSE s.entries[i - 1].reservedAfter

(* A row's entries follow on from one another, each moving the figure its  *)
(* type moves and no other, and the last one leaves what the cache shows.  *)
Replays(s) ==
  /\ \A i \in DOMAIN s.entries :
       LET e == s.entries[i] IN
         IF e.type \in Reserving
         THEN /\ e.onHandAfter = OnHandBefore(s, i)
              /\ e.reservedAfter = ReservedBefore(s, i) + e.quantity
         ELSE /\ e.onHandAfter = OnHandBefore(s, i) + e.quantity
              /\ e.reservedAfter = ReservedBefore(s, i)
  /\ s.onHand = OnHandBefore(s, Len(s.entries) + 1)
  /\ s.reserved = ReservedBefore(s, Len(s.entries) + 1)

(* The ledger is the source of truth: replaying a row's entries from zero  *)
(* gives the cached columns, whatever ran before (business-rules 1.1).     *)
LedgerReplays == \A r \in Row : Replays(shelf[r])

(* Without the oversell flag no shelf goes below zero, whichever mixture   *)
(* of sales, write-offs, transfers, packing and counts runs on it.         *)
ShelfCovers == ~AllowOversell => \A r \in Row : shelf[r].onHand >= 0

(* What the ledger says an order still holds on a row.                     *)
HeldBy(o, s) ==
  SumFunctionOnSet([i \in DOMAIN s.entries |-> s.entries[i].quantity],
                   {i \in DOMAIN s.entries : /\ s.entries[i].type \in Reserving
                                             /\ s.entries[i].order = o})

(* An order holds exactly its lines while it is open and nothing after: no *)
(* release or packing of one order ever eats into another's reservation,   *)
(* so the clamps of releaseReservation and consumeReservation never bite.  *)
OrderHoldsItsOwn ==
  \A o \in Order, r \in Row :
    HeldBy(o, shelf[r]) =
      IF order[o].state = "open" /\ r[1] = order[o].branch
      THEN order[o].lines[r[2]] ELSE 0

(* Two requests sent with the same key, however they interleave between    *)
(* the lookup and the lock, write one ledger row.                          *)
KeyWrittenOnce ==
  \A r1, r2 \in Row :
    \A i \in DOMAIN shelf[r1].entries, j \in DOMAIN shelf[r2].entries :
      /\ shelf[r1].entries[i].key # NoKey
      /\ shelf[r1].entries[i].key = shelf[r2].entries[j].key
      => r1 = r2 /\ i = j

(* Stock is never counted in where the branch has had none in at a cost:   *)
(* every upward adjustment follows a purchase or a transfer in.            *)
RaisedOnlyWhereReceived ==
  \A r \in Row : \A i \in DOMAIN shelf[r].entries :
    /\ shelf[r].entries[i].type = "ADJUSTMENT"
    /\ shelf[r].entries[i].quantity > 0
    => \E j \in 1 .. (i - 1) :
         shelf[r].entries[j].type \in {"PURCHASE", "TRANSFER_IN"}

(* What the transfer documents in docs move of a variant.                  *)
Moved(v, docs) == SumFunctionOnSet([t \in transfers |-> t.lines[v]], docs)

(* A retry makes no second document, and what transfers took off a shelf   *)
(* and put on it is what the documents say, line by line: no refused line  *)
(* leaves the rest of its transfer moved, or its document behind.          *)
TransfersMatchDocuments ==
  /\ \A t1, t2 \in transfers : t1.key = t2.key => t1 = t2
  /\ \A b \in Branch, v \in Variant :
       /\ Total(shelf[<<b, v>>], {"TRANSFER_OUT"}) =
            -Moved(v, {t \in transfers : t.source = b})
       /\ Total(shelf[<<b, v>>], {"TRANSFER_IN"}) =
            Moved(v, {t \in transfers : t.target = b})

(* business-rules 1.6: a transfer leaves the source immediately and arrives*)
(* when it is marked received, so the step that makes it puts nothing on   *)
(* any shelf.  `transfer` writes it received: refuted.                     *)
ArrivesOnceReceived ==
  [][transfers' # transfers =>
       \A r \in Row :
         Total(shelf'[r], {"TRANSFER_IN"}) = Total(shelf[r], {"TRANSFER_IN"})]_vars

(* The movements that answer to the shelf alone (business-rules 1.4).      *)
ShelfOnly ==
  {"DAMAGE", "ADJUSTMENT", "TRANSFER_OUT", "PURCHASE_RETURN"}

(* With both switches off, nothing but a movement that answers to the      *)
(* shelf alone takes a unit an online order was promised: neither another  *)
(* order, nor a counter sale of one SKU on two lines.                      *)
PromisedUnitsKept ==
  [][~AllowOversell /\ ~counterSellsReserved =>
       \A r \in Row :
         \/ Available(shelf'[r]) >= 0
         \/ Available(shelf'[r]) >= Available(shelf[r])
         \/ shelf'[r].entries[Len(shelf'[r].entries)].type \in ShelfOnly]_vars
=============================================================================
