----------------------------- MODULE BackOffice -----------------------------
(***************************************************************************)
(* The cash book and the purchase orders, and the payments to suppliers    *)
(* they meet in (supplier-payments.service.ts): one transaction that holds *)
(* the order's row and then an account's, and raises the order's paid      *)
(* total by what it posts.                                                 *)
(***************************************************************************)
EXTENDS CashBook, Purchasing

CONSTANTS
  NoPurchase,  \* a payment in advance, on no order
  NoAccount,   \* no account named; or no account found
  Default      \* the branch's default account

ASSUME BackOfficeAssumption ==
  NoPurchase \notin Purchase /\ NoAccount \notin Account /\ Default \in Account

VARIABLE payment  \* purchasing_supplierpayment

vars == <<cashVars, purchaseVars, payment>>

Payments ==
  [purchase : Purchase \cup {NoPurchase}, amount : Amount,
   account : Account \cup {NoAccount}, key : Key \cup {NoKey}]

PayRequests ==
  [kind : {"pay"}, purchase : Purchase \cup {NoPurchase}, amount : Amount,
   account : Account \cup {NoAccount}, key : Key \cup {NoKey}]

TypeOK ==
  /\ CashTypeOK /\ PurchasingTypeOK
  /\ desk \in [Client -> Requests \cup PayRequests \cup {Idle}]
  /\ payment \in Seq(Payments)

Init == CashInit /\ PurchasingInit /\ payment = <<>>

(* `resolveAccount`: the default if it is open, else the first that is.    *)
(* (Ids stand for the names it orders by.)                                 *)
Resolved ==
  LET open == {a \in Account : account[a].state = "OPEN"}
  IN IF Default \in open THEN Default
     ELSE IF open = {} THEN NoAccount ELSE Min(open)

Source(named) == IF named = NoAccount THEN Resolved ELSE named

(* Slip: the money paid on the order, and not the credit it has been given.*)
WithinGrandTotal(p, amount) ==
  purchase[p].paid + amount <= GrandTotal[p]

(* What is outstanding under the order's lock.                             *)
WithinOutstanding(p, amount) ==
  amount <= GrandTotal[p] - purchase[p].paid - purchase[p].credited

MayPay(p, amount) ==
  p # NoPurchase =>
    /\ purchase[p].status \notin {"DRAFT", "CANCELLED"}
    /\ WithinOutstanding(p, amount)

(* A null account is no movement: the payment stands without one.          *)
CanPost(a, amount) == a # NoAccount => CanMoveMoney(a, -amount)

PaidOn(p, amount) ==
  LET paid == purchase[p].paid + amount
  IN [purchase[p] EXCEPT !.paid = paid,
                         !.badge = Badge(p, paid, purchase[p].credited)]

AskPay(c, p, a, amount, key) ==
  /\ p # NoPurchase => purchase[p].status # "NONE"
  /\ a # NoAccount => account[a].state # "NONE"
  /\ ~KeyOn(payment, key)
  /\ Ask(c, [kind |-> "pay", purchase |-> p, amount |-> amount,
             account |-> a, key |-> key])
  /\ UNCHANGED <<purchaseVars, payment>>

(* `create` under the order's lock, then the account's: the row claims the *)
(* key, the cash book posts it, the order counts it; refused by any, it    *)
(* leaves nothing.                                                         *)
Pay(c) ==
  /\ desk[c] # Idle /\ desk[c].kind = "pay"
  /\ LET r == desk[c]
         p == r.purchase
         a == Source(r.account)
     IN /\ p # NoPurchase => Unlocked(p)
        /\ a # NoAccount => Free(a)
        /\ IF ~KeyOn(payment, r.key) /\ MayPay(p, r.amount)
                /\ CanPost(a, r.amount)
             THEN /\ payment' = Append(payment,
                       [purchase |-> p, amount |-> r.amount,
                        account |-> a, key |-> r.key])
                  /\ IF a = NoAccount THEN UNCHANGED <<account, book>>
                     ELSE Apply(a, -r.amount, NoKey,
                                <<"payment", Len(payment) + 1>>)
                  /\ purchase' = IF p = NoPurchase THEN purchase
                                 ELSE [purchase EXCEPT
                                         ![p] = PaidOn(p, r.amount)]
             ELSE UNCHANGED <<payment, account, book, purchase>>
  /\ Answered(c)
  /\ UNCHANGED <<expense, transfer, sentBack, sending, shelf, sold, damaged>>

Next ==
  \/ CashNext /\ UNCHANGED <<purchaseVars, payment>>
  \/ PurchasingNext /\ UNCHANGED <<cashVars, payment>>
  \/ \E c \in Client : Pay(c)
  \/ \E c \in Client, p \in Purchase \cup {NoPurchase},
        a \in Account \cup {NoAccount}, x \in Amount,
        key \in Key \cup {NoKey} : AskPay(c, p, a, x, key)

Spec == Init /\ [][Next]_vars

-----------------------------------------------------------------------------
(* Properties.                                                             *)

(* The books agree with the papers: they replay, and every expense, void,  *)
(* transfer and payment to a supplier is in them, to the sum, and once.    *)
BookAgrees ==
  /\ BooksReplay /\ DocumentsPosted
  /\ \A n \in DOMAIN payment :
       LET r == payment[n]
           row == <<"payment", n>>
       IN IF r.account = NoAccount THEN About(row) = {}
          ELSE OnceIn(r.account, row, -r.amount)

(* A retry of a movement, an expense, a transfer, a payment or a return    *)
(* makes nothing, and no damaged item is credited twice, whichever order   *)
(* it is sent back on.                                                     *)
NothingTwice == CashKeyedOnce /\ KeyedOnceIn(payment) /\ SentBackOnce

PaymentsOf(p) == {n \in DOMAIN payment : payment[n].purchase = p}

(* A supplier's account adds up: an order's paid total is its payments,    *)
(* its credit the goods sent back, its badge what the two make of it; an   *)
(* order that was cancelled has had no goods and no money.                 *)
SupplierAccountsAddUp ==
  /\ GoodsAddUp
  /\ \A p \in Purchase :
       LET row == purchase[p] IN
         /\ row.paid = SumFunctionOnSet([n \in DOMAIN payment |-> payment[n].amount],
                                        PaymentsOf(p))
         /\ \/ row.badge = Badge(p, row.paid, row.credited)
            \/ row.badge = "UNPAID" /\ row.paid + row.credited = 0
         /\ row.status = "CANCELLED" => row.paid = 0 /\ row.received = None

(* No payment takes an order past what it comes to after the goods sent    *)
(* back (credit given later may: the supplier owes it).                    *)
PaidWithinOwed ==
  [][\A p \in Purchase :
       purchase'[p].paid > purchase[p].paid =>
         purchase'[p].paid + purchase'[p].credited <= GrandTotal[p]]_vars
=============================================================================
