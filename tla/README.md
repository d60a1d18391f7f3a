# Rangon in TLA+

Rangon is a fashion shop with several branches: an online store, counters, a
warehouse and a back office over one PostgreSQL database. The API
(`src/apps/api-nest`, NestJS) holds all of the shop's rules; the web frontend is
a client of it. This directory specifies the part of the API whose mistakes
cost stock or money: the stock ledger, the life of an order from its checkout
to its parcels and returns, the money taken and given back for it, the cash
book, purchasing, stock counts, and the tools that check the ledger.

`PROJECT.json` maps every definition to the lines it stands for, and lists the
runs, the hazards, the findings and the theorems. All paths below are relative
to `src/apps/api-nest/src` unless they start with `docs/`.

## The system

| component | state it keeps | operations | shares state with |
|---|---|---|---|
| stock service (`inventory/stock.service.ts`) | `inventory_inventory` (cached `on_hand`, `reserved`), `inventory_inventorytransaction` (the ledger), `inventory_stocktransfer` | receive, return to supplier, sell, restock, adjust, write off, transfer, apply a count, reserve, release, consume | everything that moves goods calls it inside its own transaction |
| integrity (`inventory/integrity.ts`, `finance/integrity.ts`, `cli/verify.ts`) | none | compare cache and ledger, append what explains a difference | reads what the services write, in its own transaction |
| stock counts (`inventory/admin/counts.service.ts`) | `inventory_stockcount` and its lines | create, record, edit, cancel, delete, apply | stock service |
| checkout and cart (`checkout/`) | cart, order, redemption | price, place order by key | availability (unlocked read), stock service, coupons |
| coupons (`checkout/coupons.service.ts`, `promotions/`) | `used_count`, redemptions | validate (unlocked), redeem and release (locked), edit (unlocked) | checkout, cancellation |
| order lifecycle (`orders/order-writes`, `order-lifecycle`, `staff-order-actions`) | order status, `stock_committed` | change status, pack, cancel, expire | stock service, coupons, order payments |
| order payments (`orders/order-payments.service.ts`) | payments, refunds, the order's two totals | capture, receive, refund | cash book |
| gateway webhook (`payments/`) | `orders_paymentevent` | receive an event: dedup, capture, fail | order payments |
| jobs (`jobs/`) | pg-boss queues | the five-minute sweep of unpaid orders, mails, messages, nightly checks | order lifecycle |
| returns (`orders/returns.service.ts`) | return requests and their lines | request, approve, reject, receive, complete | stock, refunds, order status |
| point of sale (`pos/`) | POS orders, held baskets | sale, hold, resume, void, exchange | stock, payments, coupons |
| purchasing (`purchasing/`) | purchase orders, receipts, supplier ledger | order, receive, return, pay | stock, cash book |
| cash book (`finance/`) | accounts, entries, expenses | post once per reference, transfer, correct, repair | all that moves money |
| shipping (`shipping/`) | parcels and their events | dispatch, record event, edit | order status |
| accounts, catalogue, content, media, customers, notifications, engagement, reports | descriptive rows, sessions, roles | single-row edits, reads | - |
| plumbing (`http`, `common`, `config`, `database`, `redis`, `health`, `observability`, `cli`) | none of the shop's | - | - |

What is hard in it:

* every handler is a PostgreSQL transaction at READ COMMITTED, many of them run
  at once, and much is read **before** the row that matters is locked: an
  idempotency key, the price of a cart, the status a cancel is let through on,
  the sweep's list, a whole row that an edit later writes back;
* requests are retried by browsers, tills and the payment provider, and the
  provider's events come twice, late and out of order;
* two code paths lock a payment and its order in opposite orders;
* cached totals (`on_hand`, `reserved`, `used_count`, `paid_total`,
  `refunded_total`, account balances) must agree with the rows they sum;
* the API and the job worker are killed and restarted between steps.

What makes each component correct is the list of properties of its module
below; what is not covered yet is in the plan, and under `hazards` with a note.

## Modules

| module | models | steps |
|---|---|---|
| `Stock` | `stock.service.ts` | one action per method, under its row locks; a write-off and a transfer are two steps, lookup of the key and work |
| `Stock_proofs` | theorems about `Stock` | |
| `Sums` | lemmas: what a sum over a finite set is, for the modules of theorems | |
| `Promises` | abstract: what the shop promises an online order | promise, withdraw, dispatch |
| `Fulfilment` | checkout, coupon use, status machine, staff cancels, the sweep | reads without a lock are steps of their own; what runs under the order's lock is one step |
| `Fulfilment_proofs` | theorems about `Fulfilment`, and that it implements `Promises` | |
| `CouponEdits` | `Fulfilment` with the coupon's edit form | find, save |
| `Payments` | order payments, webhook, cancel with refund | one step per row lock obtained; the write happens with the last one |
| `Payments_proofs` | theorems about `Payments` | |
| `StockCounts` | counts: handlers that find, decide and write later | find, then the write; `apply` in one |
| `StockCounts_proofs` | theorems about `StockCounts` | |
| `StockRepair` | `verify-inventory --fix` beside a trading shop | the two reads and the repair |
| `OrderStatus` | `ALLOWED_TRANSITIONS`, shared by `Fulfilment` and `SoldOrder` | |
| `SoldOrder` | one order after checkout or till: `order-writes`, `staff-order-actions`, a receipt, the gateway's capture or failure, `refundOrder` | one per operation, under the order's lock |
| `Shipments` | `shipments.service.ts`: parcels, tracking events, edits | booking and event in one; an edit is find, then save |
| `Returns` | `returns.service.ts` | one per handler; a reject is find, then save |
| `CounterReturns` | returns, exchanges and voids at the till | one per transaction; a void is find, then its lock |
| `Aftersales` | the four above over one order | |
| `Aftersales_proofs` | theorems about `Aftersales` | |
| `CashBook` | accounts, movements, expenses, voids, transfers (`finance/`) | lookup of the key, then the work under the lock; a transfer's two locks apart |
| `Purchasing` | `purchase-orders.service.ts` | one per transaction; sending damaged goods back is two |
| `BackOffice` | the two together and `supplier-payments.service.ts`, where they meet | lookup of the key, then the payment |
| `BackOffice_proofs` | theorems about `BackOffice`: the books, the documents, keys and locks | |
| `SupplierAccounts_proofs` | theorems about `BackOffice`: goods and money of purchase orders, over `BackOffice_proofs` | |

How they compose. `Aftersales` is `SoldOrder`'s variables with each handler's own
beside them: `OrderNext`, `ParcelNext`, `ReturnNext` and `CounterNext` interleave,
and every conjunct of an action that moves the order is `SoldOrder`'s
(`RefundEntered` is `refundOrder`, called by staff, a completion, an exchange and
a void alike). `BackOffice` is `CashBook` beside `Purchasing`, with one action
that writes in both: a supplier payment holds a purchase order and an account.
`Fulfilment`, `Payments` and `Aftersales` look at one order from three sides,
each with what it needs of the others: `Fulfilment` has money as held or not,
`Payments` has stock as a status, `Aftersales` has payments as one figure; the status
table is one module. `Promises` is the abstraction `Fulfilment` is shown to
implement.

State and code. In `Stock`, `shelf[<<branch, variant>>]` is the inventory row
with its ledger entries in order; `request[c]` is a keyed request that has made
its lookup and waits for its lock; `order[o]` is what an order has asked of the
stock, which keeps the calls in the order the lifecycle makes them (reserve, then
release or consume, once: that the lifecycle does so is `Fulfilment`'s matter,
where both are guarded by status and `stock_committed`). In `Fulfilment`,
`order[o]` is the order's row with its redemption, `click[c]` a checkout between
its priced cart and its insert, `cancelling` the cancels let through and not yet
under the lock, `sweep[w]` what is left of a worker's list. In `Payments`, one
order: `payment`, `refunds` and `result` are tables, `tx[c]` is a transaction in
flight and holds the locks its position says, `balance` and `posted` are the
account and the references posted to it. In `StockCounts`, `handler[h]` is a
request and the row it read.

In `SoldOrder`, `status`, `committed`, `paid` and `refunded` are columns of the
order's row, `waiting` is that checkout's payment is PENDING at the gateway, `refund` the refunds that carry a key, `back` the lines'
`returned_quantity`, and `shelf` what returns and voids put back. In `Shipments`,
`editing[p]` is the status an edit has read and will write; a parcel that was moved to
another order by an edit is no longer followed (`moved`). In `Returns`, `ret[r]`
is a return with its lines, `rejecting[r]` what a reject has read of the order;
`voids` in `CounterReturns` counts voids between their checks and their lock. In
`CashBook`, `account[a]` is the row, `book[a]` its entries in order, each with the
balance after it and the document it is about, and `desk[c]` a request that has
looked its key up and waits for its lock. In `Purchasing`, `purchase[p]` is the
order with its lines' counts and its totals, `sentBack` the returns to suppliers
in order, `sending[p]` the request that holds the order while it waits for the
damaged items' rows. Operators and actions keep the code's names where
they can (`CanReduce` is `checkCanReduce`, `Claimed` is `byKey`, `Refreshed` is
`refreshPaymentStatus`); operators introduced as a *slip* are wrong variants of the next
definition, used to show that a property notices.

Of the database the models assume: a row lock is exclusive until the end of the
transaction, a transaction is atomic, a unique key admits one row, and a cycle
of waiting transactions is found and one of them rolled back. `Payments` models
the locks themselves; elsewhere a transaction whose decisions are all taken
under one lock is one step. Lowest-id-first locking makes that sound for
transactions over several shelves.

What is left out of the data: audit rows, timeline entries and notices,
permissions and branch scoping, request validation. Time is left out: whatever
is unpaid when the sweep runs is past its window, and a return is always within
its own. Per module:

* `Stock`, `Fulfilment`: costs and prices. The average cost does not decide any
  movement.
* `Shipments`: couriers, tracking numbers and the two stamps, which follow the
  status.
* `Returns`: final-sale products; `QUARANTINE` is `DAMAGED` (neither goes on the
  shelf). A request names a line once: one that names it twice is refused
  (`orders_returnitem_uniq`).
* `CounterReturns`: an exchange's new sale is its key; what that sale takes off
  the shelf is `Stock`'s `Sell`. A sale's own creation and held baskets are not modelled.
* `CashBook`: categories and receipts; an ADJUSTMENT is a movement with a sign.
* `Purchasing`: the supplier's price list and preferred supplier, the average
  cost; an order has one line an item; `Sell` and `BringBackDamaged` stand for
  the shop that empties the shelf and receives damaged goods.
* `BackOffice`: an account nobody named is resolved when the payment commits. The
  code does so in the same transaction, before the account's lock; what is asked
  of the account is asked under it.
* `Payments` keeps the branch's accounts as one `balance`. Whether the branch has an
  account that can hold a method's money changes as the back office opens and
  closes accounts, and is answered either way at every posting: without one the
  payment or refund stands and nothing is posted (`recordForReference` answers null;
  `verify-accounts` lists it as posted to no account). Whether an account covers what leaves
  it is `CashBook`'s `CanReduce`; here a refund that is not covered is one not made.
* `Payments` gives a method to checkout's payment only. Nothing asks by which
  method money came that was captured as it was written. A webhook sent when its
  event's row is there already finds the row and changes nothing; it is followed
  only while the row was not there when it was sent.
* `Payments` has of the sweep what it decides under the order's lock; the list made
  before it is `Fulfilment`'s.
* `SoldOrder` has one payment that may wait for the gateway, for all of the order
  (checkout writes no other); it starts at CONFIRMED, where staff may have put an
  order that is not paid yet.

## Runs

| run | configuration | shows |
|---|---|---|
| `stock` | 2 branches, 2 variants, 2 orders, 2 requests with 1 key, 1 unit a line, deliveries up to 2, 3 ledger rows before the last movement starts | ledger and cache agree, the shelf is covered, reservations are each order's own, one key one row, what transfers moved is what their documents say, promised units are kept |
| `fulfilment` | 2 orders of 1 variant, 2 clicks, 2 keys, a coupon good once, 1 worker | the counter `reserved` is what is owed, both coupon limits, one order per key, no cancel keeps money, and the whole implements `Promises` |
| `sweep` | as above with 1 click and one crash | an unpaid order is cancelled or paid in the end |
| `payments` | 1 order of 2 units of money, 3 payments, 2 clients, 2 events, 1 key, 2 refunds, any number of restarts | refunds within what was paid, the book agrees with what it has entries for, one key once, captures stay, no capture is answered and lost, events settle once and truly |
| `stock_counts` | 1 sheet, 2 branches, 1 variant, 2 handlers | stock never follows a sheet nobody counted |
| `aftersales` | 1 order of 2 lines of 1 unit, worth 1.50 each after its discount, and shipping; 2 returns (one the shop's fault), 1 exchange key, 1 refund key, 1 parcel, 3 kinds of event, 1 edit, 2 voids; money in one piece or two, a payment that waits for the gateway | goods come back once, returns are paid once and for no more than they are worth, an exchange is made once, cancelling gives all back and nothing but the waiting payment comes after, the order follows its parcels, closes only whole |
| `backoffice` | 2 accounts, 2 clerks, 1 key, sums of 1, 2 purchase orders of one item (2 units, 1 unit), 1 damaged unit, 2 returns to suppliers | books agree with papers, nothing is made twice, supplier accounts add up, no overdraft, no ring of waiting transfers, no payment past what is owed |
| `coupon_edits`, `payments_overpaid`, `stock_counts_history`, `stock_in_transit`, `stock_repair` | as the module's passing run, or smaller | each refutes a sentence of the docs: see Findings |

Why the bounds are enough. Every hazard here is a race of two: two orders and a
counter for one unit, two clicks with one key, an event and a receipt, a
handler and an apply. Two of each actor reach it, and a third only repeats it.
No decision in the code compares two variants, except that baskets, counts and
transfers are refused whole: `stock` has two of them, so that a transfer's first
line is covered and its second falls short, and the other runs have one. A
counter's basket carries a SKU on two lines, so that the sum over lines matters
(D149), and with one unit a line and deliveries of up to two units a shelf covers
none, one or both of them. `MaxEntries` stops new
movements, not the packing or release of what is open, so that every reservation can
be ended. `MaxLedger` in `StockCounts` saturates a count of
adjustments of which only zero or more matters. `AllowOversell` is off in the
runs, since the promises are made for that setting; the theorems cover both.

`aftersales` is limited by `AtMostTwo`: of returns, parcels, the till's hand on a
POS sale, and money that waits for the gateway or came in parts or twice, two are in play at once. The hazards are of pairs (two returns of one
unit, a return beside a parcel's events, a return beside two voids, a cancellation or a
return beside a gateway's capture), and the proofs
have no such limit. Units are bought one to a line: a line's quantity enters
only in sums that `Plus` and `AllBack` take by line, and rounding is exercised by an
order worth an odd number of half units, so that each line alone rounds up and
both together must not. Paisa are counted in ones.

`payments` is limited by `LeftOutOnce`: nothing is followed past a second posting left out for
want of an account. What an entry's absence changes is the money's way back (`Refund`, of a
payment that is in no account), which one absence reaches; the properties are checked on the
states with two as well, and the proofs have no such limit.

`backoffice` is limited by `AFew` to three regions of one specification, each
reached by its own initial steps: `Goods` (both orders, their deliveries and
returns, and one payment that no account posts), `Money` (both accounts and three
requests, or two while one account is closed or may be overdrawn), `Both` (one
order, one account, two payments). What is left out is a long history in one
region beside a long history in another; these share no row but the order and the account a payment
holds, which `Both` has. A `CONSTRAINT` cuts only what follows the states outside it:
the properties are checked on those states too.

Symmetry is used in safety runs only, over sets whose members nothing tells
apart: orders, clicks, keys, clients, clerks, events, branches, and the payments
other than checkout's.

Fairness. `Fulfilment` asks for weak fairness of making the sweep's list and of
treating each order on it: pg-boss schedules the sweep every five minutes
(`jobs/queues.ts`, `JOB_SCHEDULE`), a new run starts whatever became of the last
one, and a run goes through its whole list unless its worker dies, which happens
at most `MaxCrashes` times. Nothing is asked of customers or staff. No other
specification states fairness: PostgreSQL ends a cycle of transactions that wait for each
other whatever the code does, so that every transaction ends is no property of this code.
What is, is that the one rolled back (`DeadlockAbort`) leaves nothing and loses nothing:
`NoCaptureLost`, `SettledEventHolds` and the sums hold through it.

Deadlock of the model is not checked (`CHECK_DEADLOCK FALSE`) where the system really may
stop: in `payments`, with its spare rows and refunds used up, every event
settled and the order packed; in `aftersales`, once the order is cancelled and
everything of it refunded and returned. The other runs check it.

## Findings

Each is a run that TLC ends with the counterexample.

* **A coupon's limit can be passed** (`coupon_edits`). Both limits are asked again
  under the coupon's lock, as `docs/business-rules.md` says, but the edit form writes
  back `used_count` as it was when the form was read (known to the roadmap as D203):
  a checkout in between is forgotten.
* **No transfer is ever on its way** (`stock_in_transit`). `docs/business-rules.md` 1.6
  says that a transfer leaves the source immediately and arrives when it is
  marked received. The code writes every transfer received, out and in, in one
  transaction, and has nothing that marks one received - as the sentence before it
  (one atomic transaction) and `docs/architecture/inventory.md` (in-transit stock does not
  exist yet) have it.
* **An order can be paid past its total** (`payments_overpaid`). Staff cannot
  receive more than is outstanding (decided 2026-10-14), but a gateway's capture
  of the checkout's waiting payment asks nothing of it.
* **An applied count can be cancelled or re-opened** (`stock_counts_history`): the
  handlers check a status they read without a lock and write later (D126 for the
  edit; `cancel` has the same gap).
* **The repair of drift can cause it** (`stock_repair`). `stockDrift` reads
  ledger and cache in two statements, and the repair subtracts the first from a
  third reading. A movement in between is booked twice in the ledger.

Read in the code, modelled as it is, and not claimed against a document:

* rejecting one return puts the order back to DELIVERED while another return of it
  is open; when that one completes, the order stays DELIVERED
  (`orders/returns.service.ts:824` says that an order whose every line is back goes
  RETURNED, then REFUNDED). `RefundedWhole` is stated of the step that closes;
* two voids let through by the unlocked check restock the goods twice (D154, D155),
  so `BackWithinSold` bounds the shelf until a void only;
* a gateway's capture asks nothing of the order's status either
  (`orders/order-payments.service.ts:297`): an order staff confirmed unpaid and then
  cancelled takes the payment that waited, and keeps it. `docs/business-rules.md` 5.7
  refuses a payment on such an order on the route where staff record one, and says nothing
  of the gateway's; so `CancelledKeepsNothing` allows for that payment, by name and whole, and for no other money;
* where the branch has no account able to hold a method's money, a captured payment
  or a refund stands with no entry in the cash book (`finance/cash-book.service.ts:156`), and is never
  posted later: `BookAgrees` is of what has its entry;
* an account that may be overdrawn still cannot be opened with a negative balance;
* a delivery carries no key, and a retried one within what is outstanding is booked
  again (D188);
* a delivery locks the shelf's rows in the order of its body
  (`purchasing/purchase-orders.service.ts:676`), where
  `docs/architecture/inventory.md:58` says that rows are locked sorted. The models have
  one shelf row in a step, so a deadlock there is listed as a hazard, not checked.

## What is proved

Every invariant and every action property that a passing run checks is also a
theorem, and so is the refinement of `Promises`. The theorems are checked by TLAPS,
for every value of the constants that the modules' named assumptions admit. Those
assumptions are what the code gives: quantities and sums of money are natural
numbers, a key that stands for none is not a key, a checkout has a payment,
account ids are numbers (locks are taken in their order), and the tables are
finite, which the proofs need wherever rows are added up or one of them is the
last (`FiniteAssumption` of `Stock`, `Returns` and `Purchasing`,
`FulfilmentAssumption`, `PaymentsAssumption`, `StockCountsAssumption`,
`CashBookAssumption`). Nothing else is bounded: not how many actors there are, nor
how much they ask for, nor how long the run is, beyond the bounds that the
specifications name.

The proofs of one module go the same way. First, what a step can do is put in a
few forms (`Step`, `Effect`, `Posts`, `Good`) and every action is shown to be one
of them, given the types; then each invariant is proved of the forms and no longer
looks at an action. TLC checked each inductive invariant on the instance of its
component's run (where one quantifies over every number, as `Unwritten` of the
books does, up to eight).

### `Sums`

Most of what goes wrong in a shop's database is a cached total that no longer is
the sum of its rows, so most of the invariants speak of `SumFunctionOnSet`. It is
a recursive function over the subsets of a set that takes out one chosen element
at a time. The library's induction theorems take an operator as a parameter, which
the provers cannot instantiate; what can be had instead is the smallest
counterexample. `SmallestSet` says that any set of subsets of a finite set has one
that holds no other (from the library's well-founded inclusion of finite sets), so
a claim that fails of some set fails of a smallest one, which is not empty, and of
which the element taken first leaves a smaller set where the claim holds. In this way:

* `Layered`: the recursion has a solution (built by size, a layer at a time), so the
  `CHOOSE` in it chooses one; `TallySame`: it is the same over whichever set it was begun;
* `SumEmpty`, `SumInt`, `SumNat`, `SumZero`: what the sum is of nothing, of whole
  numbers, of natural ones, of zeros;
* `SumRemove`: any element may be taken first, not only the one chosen; from it
  `SumAdd`, `SumMore` (one row more), `SumUpdate` (one row written), `SumPart` (no row is
  more than the sum), `SumPlus` (columns added);
* `ProductPositive`: the same for the product that is the common denominator of
  an order's shares.

### `Stock_proofs`

Any finite set of branches and orders, any variants, clients and keys, any
quantities, no bound on the ledger beyond `MaxEntries \in Nat`.

The inductive invariant is `IInv`. `TypeOK` alone does not give it: the ledger's
claim is about sequences of any length, so it is carried as *each entry follows
from the one before and the last one shows the cache* (`Replays`), which `Post`
preserves. Every step leaves a row alone or posts entries to it, so the
invariant is stated by row (`RowInv`: the row's type, `Replays`, the covered
shelf, raised only after a receipt), `PostRow` shows that one posting keeps it
given what the method checked, a lemma for each way a method posts (`SaleRow`,
`ReturnRow`, `AdjustedRow`, `ReleasedRow`, `ConsumedRow`, `MovedByRow`) applies
it, and `Invariance` goes action by action over all rows. `KeyWrittenOnce` is
inductive on top of `IInv`: every method but the write-off posts entries without
a key (`Quiet`), and the write-off posts its key only when no row of the whole
ledger has it. `PromisesAlwaysKept` is about steps, and is proved from `IInv`
with one lemma for each way to post, again by row (`Kept`).

`OrderHoldsItsOwn` adds up an order's entries on a row, and release and consume
take only as much as the row has reserved (the clamp), so what an order lets go depends
on all the others. The invariant (`HeldInv`) is that the entries of each order
come to what it holds, that `reserved` is the sum of what all orders hold, and that nothing is
sold for an order before it is packed; then no order holds more than the row has
reserved (`SumPart`), and the clamp never bites: `ReservedCoversEveryOrder`.
`TransfersMatchDocuments` is inductive once a transfer that waits for its locks is known
to go from one branch to another, and the documents to be finite (`TransferInv`): a transfer writes its lines' rows at source and target and one
document, and a refused one none of the three.

| theorem | for the run's property |
|---|---|
| `Invariance` | `Spec => []IInv` |
| `TypeCorrect` | `TypeOK` |
| `LedgerAlwaysReplays` | `LedgerReplays` |
| `ShelfAlwaysCovers` | `ShelfCovers` |
| `AlwaysRaisedWhereReceived` | `RaisedOnlyWhereReceived` |
| `KeysAlwaysWrittenOnce` | `KeyWrittenOnce` |
| `PromisesAlwaysKept` | `PromisedUnitsKept` (an action property, from the invariant) |
| `OrdersAlwaysHoldTheirOwn` | `OrderHoldsItsOwn` |
| `ReservedCoversEveryOrder` | the clamps never bite |
| `TransfersAlwaysMatch` | `TransfersMatchDocuments` |

### `Fulfilment_proofs`

Any finite set of orders, any variants, clicks, keys, customers and workers, any
limits of the coupon, both settings of the oversell flag.

`Typed` is `TypeOK` with what the types rest on: a row is blank until its order is
placed, a cancel is let through for placed orders only, no cart under way is empty.
`NextStep` shows that an action places an order, packs one, calls one off (a cancel or the sweep),
writes a status or a payment over one, moves the shelf, or leaves the rows alone.

* `ReservedIsWhatIsOwed`: one row written moves the sum by what that order is owed
  more or less (`SumUpdate`), and a release frees all of an order's lines because
  what it is owed is part of the sum.
* The coupon: `CouponInv` is both limits and `UsedCountsLive` together. Neither is
  inductive alone: redeem asks the counter, and only if the counter is the number of
  redemptions that count does it bound them.
* `ImplementsPromises` is the refinement, by initial states and by step: a checkout
  is `Promise`, a cancel or an expiry of an order not packed `Withdraw`, a packing `Dispatch`,
  what the counter sells or corrects its own kind, and all else stutters. It rests on `ReservedIsOwed`, since the abstraction has no counter:
  what the code asks of the cached figure, the abstraction asks of the orders themselves.
  The abstract variables are functions of the concrete ones, so there is no fairness in it.

| theorem | for the run's property |
|---|---|
| `TypeCorrect` | `TypeOK` |
| `ReservedIsWhatIsOwed` | `ReservedIsOwed` |
| `CouponWithinLimits` | `CouponLimits` |
| `UsedAlwaysCounts` | `UsedCountsLive` |
| `OneOrderForOneKey` | `OneOrderPerKey` |
| `CancelsKeepNoMoney` | `CancelKeepsNoMoney` (an action property) |
| `ImplementsPromises` | `KeepsPromises` |
| `AlwaysTyped`, `CouponAlways` | the invariants the others come from |

### `Payments_proofs`

Any finite set of payments, any clients, events, keys and totals.

Here a transaction waits between its locks with what it has read, so the invariant
is half about the money and half about the requests under way. `HooksInv`: a
webhook past its event's row has the event for itself, and it is not settled; once
it has the order's row, the checkout's payment is not captured and nobody else is
about to capture it. `ReceiptsInv`: at most one receipt waits, and what it asked under
the order's lock (its amount within what is outstanding, its key unused) is so
still. These are what makes row locks taken in two orders safe.
`MoneyInv` says of the money that an order holds at most its total, or twice that once
checkout's own payment is captured: a bare `RefundsWithinPaid` does not bound the
refunds' type. Of the book it says that it has entries for captured payments and
made refunds only, and has moved by those: a posting may be left out, never made twice, nor made of
another's amount. The two totals and the book are sums over tables and change by one row at a time.
`AnswersInv` is proved on top of `Inv`: an event that says the money came and has its answer leaves
checkout's payment not waiting - and so does one whose webhook found nothing waiting.

| theorem | for the run's property |
|---|---|
| `Invariant` | `Spec => []Inv` |
| `TypeCorrect` | `TypeOK` |
| `RefundsStayWithinPaid` | `RefundsWithinPaid` |
| `BookAlwaysAgrees` | `BookAgrees` |
| `BookHoldsWhatIsPosted` | with every payment and refund posted, the accounts hold what the order has |
| `CapturesNotLost` | `NoCaptureLost` |
| `OneRowForOneKey` | `KeyedOnce` |
| `CapturesStay` | `CapturedStays` (an action property) |
| `SettledEventsHold` | `SettledEventHolds` (an action property) |
| `OverpaidOnlyByCheckout` | how far the finding of `payments_overpaid` goes: past its total only by checkout's own payment, and never past twice it |

### `StockCounts_proofs`

Any sheets, branches and handlers, any finite set of variants. `NothingAppliedUncounted`
is not inductive: a handler writes back a row it read earlier. `ReadInv` asks
of that remembered row what holds of the sheet (one read as applied had a line counted, and
lines counted are never all uncounted again), and `SheetsInv` that stock is adjusted
only from sheets somebody counted on.

| theorem | for the run's property |
|---|---|
| `Invariant` | `Spec => []Inv` |
| `TypeCorrect` | `TypeOK` |
| `AppliedWasCounted` | `NothingAppliedUncounted` |

### `Aftersales_proofs`

Any lines, quantities, totals, parcels, events and keys, any finite set of
returns, any number of edits and voids. `Typed` is `TypeOK` with a return's own
figure left open, and is all that the theorems before the sums need of it. Two
classes of steps carry the proofs about money: those that leave the order's money
alone, and those that refund (`RefundEntered`).

* `HeldNothing` is about steps: a cancellation and a void refund what they find, staff
  receive nothing once the order is off, and only `GatewayCaptures` adds to what is held
  of it. `HeldNothingWithoutGateway` is the invariant that leaves: where no payment waits,
  cancelled means refunded in full.
* `ParcelsFollowed` needs more than it says: an edit writes back a status it read
  earlier, so the invariant (`Followed`) asks of that remembered status what
  it asks of the parcel's own; and a void cancels whatever the order has become,
  so it also says that only sales at the counter are voided, and have no parcels.
* `ReturnsPaidOnce` and `ExchangesOnce` rest on what each refund key may hold
  (`PaidInv`, `ExchangeInv`): a return has a refund only once it is completed, of
  the figure it shows and under one key; a return being rejected is not past
  APPROVED; an exchange is named by one return, and its key holds that one's refund.
* `ClosedWhole` is an action property; `WithinSold` is the part of `BackWithinSold` that
  is not about a sum.
* `SumsAlways` is the invariant of the sums: what the order calls returned of a line is
  the sum over the returns that came back (`BackAdds`), and a return's figure is at most what its
  lines are worth unless staff typed it (`FiguresOK`). `BackIsWithinSold` follows, and so does
  `TypeCorrect`.
* `RefundsAddUp` compares a sum of rounded figures with what all the returned lines
  together are worth. Rounding is of a fraction over the common denominator (`UnitsPositive`),
  and one figure is within half a unit of its exact share (`WorthHalf`); over
  returns the exact shares add (`SharePlus`), and so do the halves (`AllAddUp`, by a smallest set of
  returns that would not add up).

| theorem | for the run's property |
|---|---|
| `TypesKept` | `TypeOK`, but for what a return comes to |
| `HeldNothing` | `CancelledKeepsNothing` (an action property) |
| `HeldNothingWithoutGateway` | the same as an invariant, of an order with no payment waiting |
| `ParcelsFollowed` | `OrderFollowsParcels` |
| `ReturnsPaidOnce` | `ReturnPaidOnce` |
| `ExchangesOnce` | `ExchangedOnce` |
| `ClosedWhole` | `RefundedWhole` (an action property) |
| `WithinSold` | `BackWithinSold`, but for its sum |
| `SumsAlways` | `Spec => []SumsOK` |
| `BackIsWithinSold` | `BackWithinSold` |
| `RefundsAddUp` | `ReturnsAddUp` |
| `TypeCorrect` | `TypeOK` |

### `BackOffice_proofs`

Any finite set of accounts (`CashBookAssumption`), any clients, keys and sums, any
finite set of orders and items.
The books are touched in six ways only (`Step`: not at all, by hand, by an
expense, a void, a transfer, a payment), each of which posts at most one entry
to a book (`Posts`). `NextStep` shows that every action of `BackOffice` is
one of the six; what follows is proved from those and never looks at an action again.

* `NotOverdrawn` follows from `Posts`, which carries the check made under the lock.
* `BooksAgree` strengthens `BookAgrees` with *no entry is about a document not
  written yet* (`Unwritten`), without which a new expense could find itself in the
  books already; `AboutPosted` says exactly which entries a posting adds.
* `NothingMadeTwice` is by kind: entries' keys, documents' keys, returns
  (`NewReturn`: a return written has a key and items that no other has).
* `NoRingWaits`: of the accounts that a ring's members hold one is the highest
  (`Greatest`, by well-founded induction on finite sets), and the transfer that holds it waits for a
  higher one, which nobody in the ring holds. It needs accounts finite and
  transfers between two different ones, which `Typed` carries.

| theorem | for the run's property |
|---|---|
| `BooksTyped` | the cash book's part of `TypeOK` |
| `NotOverdrawn` | `NoOverdraft` (an action property) |
| `BooksAgree` | `BookAgrees` |
| `NothingMadeTwice` | `NothingTwice` |
| `NoRingWaits` | `NoDeadlock` |

### `SupplierAccounts_proofs`

The other half of `BackOffice`, for the same constants. Every step writes at most
one purchase order, in one of a few ways (`Effect`: its status is noted, goods are
delivered, goods are sent off, money is paid), or only moves units between
the shelf and what is sold. `SupplierAccountsAddUp` is inductive once the types are
known, and the types need it: that a sent-back count stays natural and a payment
within what is owed are both about the order's credit, which is a sum over items (`CostsPlus`).
Each of its parts is kept by the sum that moves: a return adds its lines to what went
back on its order and takes only those off the shelf (`SentMore`), a payment adds its amount (`PaymentMore`),
a delivery its units (`ReceivedMore`).

| theorem | for the run's property |
|---|---|
| `TypeCorrect` | `TypeOK` |
| `AccountsAlwaysAddUp` | `SupplierAccountsAddUp` |
| `NothingOverpaid` | `PaidWithinOwed` (an action property) |

### Only model-checked

* Liveness: `UnpaidEventuallyExpires`. Fairness needs `ENABLED`, which the provers
  do not take.
* The runs that refute a sentence of the docs are counterexamples, and need no proof;
  `StockRepair` and `CouponEdits` have no other properties.

## Plan

Done: `Stock`, `Promises`, `Fulfilment`, `CouponEdits`, `Payments`, `StockCounts`,
`StockRepair`, `SoldOrder`, `Shipments`, `Returns`, `CounterReturns`, `Aftersales`,
`CashBook`, `Purchasing` and `BackOffice`, and the proofs of every invariant and
action property their runs check.

Next, in this order:

1. Proofs: what does hold where a run refutes the docs (as
   `OverpaidOnlyByCheckout` does for payments): how far an edit can take a
   coupon past its limit, and when a repair of the ledger is sound.
2. The shelf's rows of one delivery as several lock steps, beside a checkout, to
   check the order of locks.
3. Sales and held baskets at the till: a basket resumed at two tills, or edited
   while it is resumed.
4. Prices: the discount and rounding operators against a reference over bounded
   amounts (returns have theirs: `ReturnsAddUp`).
5. The repair of account balances, which has the shape of `StockRepair`.

## Not modelled

Permissions, sessions, serializers, listings, reports, catalogue, content, media,
mail and SMS delivery, the web frontend, deployment: they keep no state these rules
depend on, or are output that nothing reads. Most of the repository's lines are
of this kind or are no behaviour at all: the generated schema
(`drizzle/schema.ts`, `src/database/schema.ts`), the ports of an HTML parser
(`common/html5ever.ts`, `common/html-entities.ts`), the parity fixtures
(`parity/`) that compare the API with its predecessor, tests and migrations. The
services that decide about stock and money are mapped for the greater part; which
lines of them, `PROJECT.json` says definition by definition.
