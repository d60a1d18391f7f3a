------------------------------ MODULE CashBook ------------------------------
(***************************************************************************)
(* The cash book (cash-book.service.ts) and what staff ask of it:          *)
(* accounts opened and edited, movements and transfers                     *)
(* (accounts.service.ts), expenses and their voids (expenses.service.ts).  *)
(*                                                                         *)
(* A request is two steps: its key looked up, then the transaction under   *)
(* the account's row lock, which asks again.  A transfer locks two rows,   *)
(* one at a time, and is three.  What a payment of a sale posts is in      *)
(* Payments; what one to a supplier posts, in BackOffice.                  *)
(***************************************************************************)
EXTENDS Integers, Sequences, FiniteSets

CONSTANTS
  Account,      \* by id: rows are locked lowest id first
  Client, Idle, \* staff with a request under way; one without
  Key, NoKey,   \* idempotency keys
  Amount,       \* sums asked for
  MaxEntries    \* entries of all the books and requests under way

ASSUME CashBookAssumption ==
  /\ Account \subseteq Nat /\ IsFiniteSet(Account)
  /\ Amount \subseteq Nat \ {0}
  /\ NoKey \notin Key /\ MaxEntries \in Nat

VARIABLES
  account,  \* finance_account
  book,     \* finance_accounttransaction, by account
  expense,  \* finance_expense
  transfer, \* finance_accounttransfer
  desk      \* what each client has asked for

cashVars == <<account, book, expense, transfer, desk>>

Manual == <<"manual", 0>>

(* An entry: its amount, the balance after it, and the row it is about.    *)
Entries ==
  [delta : Int, after : Int, key : Key \cup {NoKey},
   about : {Manual} \cup ({"expense", "transfer", "payment"} \X (Nat \ {0}))]

Expenses ==
  [account : Account, amount : Amount, key : Key \cup {NoKey},
   status : {"RECORDED", "VOID"}]

Transfers ==
  [source : Account, target : Account, amount : Amount,
   key : Key \cup {NoKey}]

Requests ==
  [kind : {"move"}, account : Account, delta : Int, key : Key \cup {NoKey}]
  \cup [kind : {"expense"}, account : Account, amount : Amount,
        key : Key \cup {NoKey}]
  \cup [kind : {"transfer"}, source : Account, target : Account,
        amount : Amount, key : Key \cup {NoKey}, locked : BOOLEAN]

CashTypeOK ==
  /\ account \in [Account -> [state : {"NONE", "OPEN", "CLOSED"},
                              balance : Int, overdraft : BOOLEAN]]
  /\ \A a \in Account : book[a] \in Seq(Entries)
  /\ expense \in Seq(Expenses)
  /\ transfer \in Seq(Transfers)

CashInit ==
  /\ account = [a \in Account |->
                  [state |-> "NONE", balance |-> 0, overdraft |-> FALSE]]
  /\ book = [a \in Account |-> <<>>]
  /\ expense = <<>> /\ transfer = <<>>
  /\ desk = [c \in Client |-> Idle]

Busy == {c \in Client : desk[c] # Idle}

EntriesMade == UNION {{a} \X DOMAIN book[a] : a \in Account}

Room == Cardinality(EntriesMade) + Cardinality(Busy) < MaxEntries

(* `key` is on one of `rows` already.                                      *)
KeyOn(rows, key) == key # NoKey /\ \E n \in DOMAIN rows : rows[n].key = key

MovementByKey(key) == \E a \in Account : KeyOn(book[a], key)

(* Slip: the rows locked as they were asked for, the source first.         *)
FirstAsAsked(t) == t.source

(* `lockAccounts`: the lowest id first.                                    *)
First(t) == IF t.source < t.target THEN t.source ELSE t.target

Second(t) == IF First(t) = t.source THEN t.target ELSE t.source

HasFirst(c) ==
  desk[c] # Idle /\ desk[c].kind = "transfer" /\ desk[c].locked

(* Nobody between two steps holds the row.                                 *)
Free(a) == \A c \in Client : HasFirst(c) => First(desk[c]) # a

-----------------------------------------------------------------------------
(* The row under its lock.                                                 *)

(* Slip: the balance before the movement is asked, not the one after it.   *)
CanReduceBefore(a, delta) ==
  delta >= 0 \/ account[a].balance >= 0 \/ account[a].overdraft

(* `checkCanReduce`.                                                       *)
CanReduce(a, delta) ==
  delta >= 0 \/ account[a].balance + delta >= 0 \/ account[a].overdraft

(* What `move` asks of a locked account.                                   *)
CanMoveMoney(a, delta) == account[a].state = "OPEN" /\ CanReduce(a, delta)

Posted(a, delta) == [account[a] EXCEPT !.balance = @ + delta]

Entry(a, delta, key, about) ==
  Append(book[a], [delta |-> delta, after |-> account[a].balance + delta,
                   key |-> key, about |-> about])

(* `apply`: the balance and its entry, together.                           *)
Apply(a, delta, key, about) ==
  /\ account' = [account EXCEPT ![a] = Posted(a, delta)]
  /\ book' = [book EXCEPT ![a] = Entry(a, delta, key, about)]

Ask(c, request) ==
  /\ desk[c] = Idle /\ Room
  /\ desk' = [desk EXCEPT ![c] = request]
  /\ UNCHANGED <<account, book, expense, transfer>>

Answered(c) == desk' = [desk EXCEPT ![c] = Idle]

-----------------------------------------------------------------------------
(* Accounts.                                                               *)

(* `create`.  A negative opening balance is refused, overdraft or not:     *)
(* `move` takes no OPENING below nothing.                                  *)
OpenAccount(a, opening, overdraft) ==
  /\ account[a].state = "NONE" /\ Room
  /\ account' = [account EXCEPT
                   ![a] = [state |-> "OPEN", balance |-> opening,
                           overdraft |-> overdraft]]
  /\ book' = [book EXCEPT
                ![a] = IF opening = 0 THEN @
                       ELSE Entry(a, opening, NoKey, Manual)]
  /\ UNCHANGED <<expense, transfer, desk>>

(* `update`: the fields sent, in one UPDATE; what the account holds, or    *)
(* owes, is not asked.                                                     *)
EditAccount(a, state, overdraft) ==
  /\ account[a].state # "NONE" /\ Free(a)
  /\ account' = [account EXCEPT
                   ![a] = [state |-> state, balance |-> @.balance,
                           overdraft |-> overdraft]]
  /\ UNCHANGED <<book, expense, transfer, desk>>

-----------------------------------------------------------------------------
(* Movements.                                                              *)

(* `recordMovement`: a deposit, a withdrawal, or an adjustment either way. *)
AskMove(c, a, delta, key) ==
  /\ account[a].state # "NONE" /\ ~MovementByKey(key)
  /\ Ask(c, [kind |-> "move", account |-> a, delta |-> delta, key |-> key])

(* `move` under the lock: the retry answered, the movement refused, or     *)
(* made.                                                                   *)
Move(c) ==
  /\ desk[c] # Idle /\ desk[c].kind = "move"
  /\ LET m == desk[c] IN
       /\ Free(m.account)
       /\ IF ~MovementByKey(m.key) /\ CanMoveMoney(m.account, m.delta)
            THEN Apply(m.account, m.delta, m.key, Manual)
            ELSE UNCHANGED <<account, book>>
  /\ Answered(c)
  /\ UNCHANGED <<expense, transfer>>

-----------------------------------------------------------------------------
(* Expenses.                                                               *)

AskExpense(c, a, amount, key) ==
  /\ account[a].state # "NONE" /\ ~KeyOn(expense, key)
  /\ Ask(c, [kind |-> "expense", account |-> a, amount |-> amount,
             key |-> key])

(* The document, its key claimed by the row, and the movement; refused,    *)
(* the movement takes the document with it.                                *)
Spend(c) ==
  /\ desk[c] # Idle /\ desk[c].kind = "expense"
  /\ LET e == desk[c] IN
       /\ Free(e.account)
       /\ IF ~KeyOn(expense, e.key) /\ CanMoveMoney(e.account, -e.amount)
            THEN /\ expense' = Append(expense,
                      [account |-> e.account, amount |-> e.amount,
                       key |-> e.key, status |-> "RECORDED"])
                 /\ Apply(e.account, -e.amount, NoKey,
                          <<"expense", Len(expense) + 1>>)
            ELSE UNCHANGED <<account, book, expense>>
  /\ Answered(c)
  /\ UNCHANGED transfer

(* Slip: the status the expense was found with, VOID or not.               *)
MayVoidFound(n) == TRUE

(* Under the expense's row lock.                                           *)
MayVoid(n) == expense[n].status = "RECORDED"

(* `void`: an ADJUSTMENT puts the money back, if the account is open.      *)
VoidExpense(n) ==
  /\ MayVoid(n) /\ Room
  /\ LET e == expense[n] IN
       /\ Free(e.account) /\ CanMoveMoney(e.account, e.amount)
       /\ Apply(e.account, e.amount, NoKey, <<"expense", n>>)
  /\ expense' = [expense EXCEPT ![n].status = "VOID"]
  /\ UNCHANGED <<transfer, desk>>

-----------------------------------------------------------------------------
(* Transfers.                                                              *)

AskTransfer(c, source, target, amount, key) ==
  /\ source # target
  /\ account[source].state # "NONE" /\ account[target].state # "NONE"
  /\ ~KeyOn(transfer, key)
  /\ Ask(c, [kind |-> "transfer", source |-> source, target |-> target,
             amount |-> amount, key |-> key, locked |-> FALSE])

LockFirst(c) ==
  /\ desk[c] # Idle /\ desk[c].kind = "transfer" /\ ~desk[c].locked
  /\ Free(First(desk[c]))
  /\ desk' = [desk EXCEPT ![c].locked = TRUE]
  /\ UNCHANGED <<account, book, expense, transfer>>

(* Both rows locked, `transfer` asks for its key again, and of both        *)
(* accounts that they are open; the row claims the key, then the money     *)
(* goes out of the one and into the other.                                 *)
Transfer(c) ==
  /\ HasFirst(c)
  /\ LET t == desk[c]
         about == <<"transfer", Len(transfer) + 1>>
     IN /\ Free(Second(t))
        /\ IF /\ ~KeyOn(transfer, t.key)
              /\ account[t.target].state = "OPEN"
              /\ CanMoveMoney(t.source, -t.amount)
             THEN /\ transfer' = Append(transfer,
                       [source |-> t.source, target |-> t.target,
                        amount |-> t.amount, key |-> t.key])
                  /\ account' = [account EXCEPT
                       ![t.source] = Posted(t.source, -t.amount),
                       ![t.target] = Posted(t.target, t.amount)]
                  /\ book' = [book EXCEPT
                       ![t.source] = Entry(t.source, -t.amount, NoKey, about),
                       ![t.target] = Entry(t.target, t.amount, NoKey, about)]
             ELSE UNCHANGED <<account, book, transfer>>
  /\ Answered(c)
  /\ UNCHANGED expense

CashNext ==
  \/ \E a \in Account, overdraft \in BOOLEAN :
       \/ \E opening \in {0} \cup Amount : OpenAccount(a, opening, overdraft)
       \/ \E state \in {"OPEN", "CLOSED"} : EditAccount(a, state, overdraft)
  \/ \E c \in Client : Move(c) \/ Spend(c) \/ LockFirst(c) \/ Transfer(c)
  \/ \E n \in DOMAIN expense : VoidExpense(n)
  \/ \E c \in Client, a \in Account, x \in Amount, key \in Key \cup {NoKey} :
       \/ AskMove(c, a, x, key) \/ AskMove(c, a, -x, key)
       \/ AskExpense(c, a, x, key)
       \/ \E b \in Account : AskTransfer(c, a, b, x, key)

-----------------------------------------------------------------------------
(* Properties.                                                             *)

(* The entries about a row, of all the books.                              *)
About(row) == {e \in EntriesMade : book[e[1]][e[2]].about = row}

(* The one entry about `row` is `delta`, in the book of `a`.               *)
OnceIn(a, row, delta) ==
  \E i \in DOMAIN book[a] :
    book[a][i].delta = delta /\ About(row) = {<<a, i>>}

(* Every book replays: each entry starts from where the last one ended,    *)
(* and the account's balance is where the last one ends (balanceDrift      *)
(* finds nothing).                                                         *)
BooksReplay ==
  \A a \in Account :
    /\ \A i \in DOMAIN book[a] :
         book[a][i].after = book[a][i].delta
                            + (IF i = 1 THEN 0 ELSE book[a][i - 1].after)
    /\ account[a].balance =
         (IF book[a] = <<>> THEN 0 ELSE book[a][Len(book[a])].after)

(* An expense is in its account's book once, and once more, the other way, *)
(* if it is void; a transfer is the same sum out of one book and into the  *)
(* other.                                                                  *)
DocumentsPosted ==
  /\ \A n \in DOMAIN expense :
       LET e == expense[n]
           row == <<"expense", n>>
       IN IF e.status = "RECORDED" THEN OnceIn(e.account, row, -e.amount)
          ELSE \E i, j \in DOMAIN book[e.account] :
                 /\ i < j /\ About(row) = {<<e.account, i>>, <<e.account, j>>}
                 /\ book[e.account][i].delta = -e.amount
                 /\ book[e.account][j].delta = e.amount
  /\ \A n \in DOMAIN transfer :
       LET t == transfer[n] IN
         \E i \in DOMAIN book[t.source], j \in DOMAIN book[t.target] :
           /\ About(<<"transfer", n>>) = {<<t.source, i>>, <<t.target, j>>}
           /\ book[t.source][i].delta = -t.amount
           /\ book[t.target][j].delta = t.amount

KeyedOnceIn(rows) ==
  \A m, n \in DOMAIN rows :
    rows[m].key = rows[n].key /\ rows[m].key # NoKey => m = n

(* No retry is made twice: a key is on one movement of all the books, one  *)
(* expense, one transfer.                                                  *)
CashKeyedOnce ==
  /\ \A e, f \in EntriesMade :
       LET key == book[e[1]][e[2]].key
       IN key = book[f[1]][f[2]].key /\ key # NoKey => e = f
  /\ KeyedOnceIn(expense) /\ KeyedOnceIn(transfer)

(* Money is not paid out that an account does not hold: a balance only     *)
(* goes down to what is not below nothing, unless it may be overdrawn      *)
(* then.  (An account may lose its overdraft while it owes.)               *)
NoOverdraft ==
  [][\A a \in Account :
       account'[a].balance < account[a].balance =>
         account'[a].balance >= 0 \/ account[a].overdraft]_cashVars

(* `c` has its first row and waits for the one `d` has.                    *)
WaitsFor(c, d) ==
  HasFirst(c) /\ HasFirst(d) /\ Second(desk[c]) = First(desk[d])

(* No transfers wait for each other in a ring, however they cross.         *)
NoDeadlock ==
  \A ring \in (SUBSET Client) \ {{}} :
    \E c \in ring : \A d \in ring : ~WaitsFor(c, d)
=============================================================================
