------------------------- MODULE BackOffice_proofs -------------------------
(***************************************************************************)
(* Proofs about BackOffice, for every finite set of accounts, of items and *)
(* of orders, every set of clients and keys, and every sum.                *)
(*                                                                         *)
(* Every step posts some entries, none or one to a book, and writes at     *)
(* most one document they are about.  Step says which, and is all that the *)
(* proofs about the books use of the actions.                              *)
(*                                                                         *)
(* What is credited to a purchase order is a sum over items: its type, and *)
(* what the orders add up to, are in SupplierAccounts_proofs.              *)
(***************************************************************************)
EXTENDS BackOffice, TLAPS, FiniteSetTheorems, SequenceTheorems,
        WellFoundedInduction

(* Of the subsets of a finite set that a function names, one holds no      *)
(* other.                                                                  *)
LEMMA Smallest ==
  ASSUME NEW A, IsFiniteSet(A), NEW S, S # {}, NEW f \in [S -> SUBSET A]
  PROVE  \E x \in S : \A y \in S : f[y] \subseteq f[x] => f[y] = f[x]
<1> DEFINE T == {f[x] : x \in S}
<1>1. T \subseteq FiniteSubsetsOf(A) /\ T # {}
  BY FS_FiniteSubsetsOfFinite
<1>2. \E U \in T : \A V \in T : ~ (<<V, U>> \in StrictSubsetOrdering(A))
  <2> HIDE DEF T
  <2> QED
    BY <1>1, FS_StrictSubsetOrderingWellFounded, WFMin
<1>3. PICK x \in S : \A y \in S : ~ (<<f[y], f[x]>> \in StrictSubsetOrdering(A))
  BY <1>2
<1> QED
  BY <1>3 DEF StrictSubsetOrdering

(* In a finite set of numbers no non-empty part is without a least or a    *)
(* greatest one.                                                           *)
LEMMA Least ==
  ASSUME NEW A, IsFiniteSet(A), NEW S, S \subseteq A, S # {}
  PROVE  A \subseteq Nat => \E x \in S : \A y \in S : x <= y
<1> DEFINE f == [x \in S |-> {z \in S : z < x}]
<1>1. f \in [S -> SUBSET A]
  OBVIOUS
<1>2. PICK x \in S : \A y \in S : f[y] \subseteq f[x] => f[y] = f[x]
  <2> HIDE DEF f
  <2> QED
    BY <1>1, Smallest
<1>3. ASSUME A \subseteq Nat, NEW y \in S, y < x PROVE FALSE
  <2>1. x \in Nat /\ y \in Nat
    BY <1>3
  <2>2. y \in f[x] /\ y \notin f[y]
    BY <1>3, <2>1
  <2>3. ASSUME NEW z \in f[y] PROVE z \in f[x]
    BY <1>3, <2>1
  <2>4. f[y] = f[x]
    BY <1>2, <2>3
  <2> QED
    BY <2>2, <2>4
<1> QED
  BY <1>3

LEMMA Greatest ==
  ASSUME NEW A, IsFiniteSet(A), NEW S, S \subseteq A, S # {}
  PROVE  A \subseteq Nat => \E x \in S : \A y \in S : y <= x
<1> DEFINE f == [x \in S |-> {z \in S : x < z}]
<1>1. f \in [S -> SUBSET A]
  OBVIOUS
<1>2. PICK x \in S : \A y \in S : f[y] \subseteq f[x] => f[y] = f[x]
  <2> HIDE DEF f
  <2> QED
    BY <1>1, Smallest
<1>3. ASSUME A \subseteq Nat, NEW y \in S, x < y PROVE FALSE
  <2>1. x \in Nat /\ y \in Nat
    BY <1>3
  <2>2. y \in f[x] /\ y \notin f[y]
    BY <1>3, <2>1
  <2>3. ASSUME NEW z \in f[y] PROVE z \in f[x]
    BY <1>3, <2>1
  <2>4. f[y] = f[x]
    BY <1>2, <2>3
  <2> QED
    BY <2>2, <2>4
<1> QED
  BY <1>3

-----------------------------------------------------------------------------
(* The types of the cash book and of the payments.                         *)
Typed ==
  /\ CashTypeOK
  /\ book \in [Account -> Seq(Entries)]
  /\ desk \in [Client -> Requests \cup PayRequests \cup {Idle}]
  /\ \A c \in Client :
       desk[c] # Idle /\ desk[c].kind = "transfer" => desk[c].source # desk[c].target
  /\ \A a \in Account : account[a].state = "NONE" => account[a].balance = 0
  /\ payment \in Seq(Payments)

(* What a posting appends to the book of `a`.                              *)
Posting(a, delta, key, about) ==
  [delta |-> delta, after |-> account[a].balance + delta, key |-> key,
   about |-> about]

(* The books in `S` get an entry each, and their accounts the balance it   *)
(* leaves, not below nothing unless they may be overdrawn.                 *)
Posts(S, e) ==
  /\ S \subseteq Account /\ e \in [S -> Entries]
  /\ \A a \in S :
       /\ e[a].after = account[a].balance + e[a].delta
       /\ e[a].delta < 0 => e[a].after >= 0 \/ account[a].overdraft
  /\ book' = [a \in Account |-> IF a \in S THEN Append(book[a], e[a]) ELSE book[a]]
  /\ \A a \in Account :
       account'[a].balance = IF a \in S THEN e[a].after ELSE account[a].balance

(* A key on an entry is new to all the books.                              *)
KeysNew(S, e) ==
  \A a \in S : e[a].key # NoKey => S = {a} /\ ~MovementByKey(e[a].key)

KeyNew(rows, key) == key = NoKey \/ \A n \in DOMAIN rows : rows[n].key # key

PostsNone == UNCHANGED book /\ \A a \in Account : account'[a].balance = account[a].balance

PostsOne(a, delta, key, about) ==
  Posts({a}, [b \in {a} |-> Posting(a, delta, key, about)])

(* The steps, as the books see them.                                       *)
NoDocument == PostsNone /\ UNCHANGED <<expense, transfer, payment>>

MovedByHand ==
  /\ \E a \in Account, delta \in Int, key \in Key \cup {NoKey} :
       PostsOne(a, delta, key, Manual) /\ (key = NoKey \/ ~MovementByKey(key))
  /\ UNCHANGED <<expense, transfer, payment>>

Spent ==
  /\ \E x \in Expenses :
       /\ KeyNew(expense, x.key) /\ x.status = "RECORDED"
       /\ expense' = Append(expense, x)
       /\ PostsOne(x.account, -x.amount, NoKey, <<"expense", Len(expense) + 1>>)
  /\ UNCHANGED <<transfer, payment>>

Voided ==
  /\ \E n \in DOMAIN expense :
       /\ expense[n].status = "RECORDED"
       /\ expense' = [expense EXCEPT ![n].status = "VOID"]
       /\ PostsOne(expense[n].account, expense[n].amount, NoKey, <<"expense", n>>)
  /\ UNCHANGED <<transfer, payment>>

Transferred ==
  /\ \E x \in Transfers :
       /\ KeyNew(transfer, x.key) /\ x.source # x.target
       /\ transfer' = Append(transfer, x)
       /\ LET about == <<"transfer", Len(transfer) + 1>>
          IN Posts({x.source, x.target},
                   [b \in {x.source, x.target} |->
                      Posting(b, IF b = x.source THEN -x.amount ELSE x.amount,
                              NoKey, about)])
  /\ UNCHANGED <<expense, payment>>

Paid ==
  /\ \E x \in Payments :
       /\ KeyNew(payment, x.key)
       /\ payment' = Append(payment, x)
       /\ IF x.account = NoAccount THEN PostsNone
          ELSE PostsOne(x.account, -x.amount, NoKey, <<"payment", Len(payment) + 1>>)
  /\ UNCHANGED <<expense, transfer>>

Step == NoDocument \/ MovedByHand \/ Spent \/ Voided \/ Transferred \/ Paid

(* Accounts keep their type and start from nothing.                        *)
AccountsOK ==
  /\ account \in [Account -> [state : {"NONE", "OPEN", "CLOSED"},
                              balance : Int, overdraft : BOOLEAN]]
  /\ \A a \in Account : account[a].state = "NONE" => account[a].balance = 0

(* What the rest of the step does to the requests.                         *)
DeskOK ==
  /\ desk \in [Client -> Requests \cup PayRequests \cup {Idle}]
  /\ \A c \in Client :
       desk[c] # Idle /\ desk[c].kind = "transfer" => desk[c].source # desk[c].target

-----------------------------------------------------------------------------
LEMMA ApplyPosts ==
  ASSUME Typed, NEW a \in Account, NEW delta \in Int, NEW key \in Key \cup {NoKey},
         NEW about \in {Manual} \cup ({"expense", "transfer", "payment"} \X (Nat \ {0})),
         CanMoveMoney(a, delta), Apply(a, delta, key, about)
  PROVE  PostsOne(a, delta, key, about) /\ AccountsOK'
<1>1. account \in [Account -> [state : {"NONE", "OPEN", "CLOSED"},
                              balance : Int, overdraft : BOOLEAN]]
  BY DEF Typed, CashTypeOK
<1>2. Posting(a, delta, key, about) \in Entries
  BY <1>1 DEF Posting, Entries
<1>3. delta < 0 => account[a].balance + delta >= 0 \/ account[a].overdraft
  BY DEF CanMoveMoney, CanReduce
<1>4. account' = [account EXCEPT ![a] = [account[a] EXCEPT !.balance = @ + delta]]
  BY DEF Apply, Posted
<1>5. AccountsOK'
  <2> DEFINE x == [account[a] EXCEPT !.balance = @ + delta]
  <2>1. /\ x \in [state : {"NONE", "OPEN", "CLOSED"}, balance : Int, overdraft : BOOLEAN]
        /\ x.state = "OPEN"
    BY <1>1 DEF CanMoveMoney
  <2>2. account' = [account EXCEPT ![a] = x]
    BY <1>4
  <2>3. \A b \in Account : account[b].state = "NONE" => account[b].balance = 0
    BY DEF Typed
  <2> HIDE DEF x
  <2>4. \A b \in Account : account'[b] = IF b = a THEN x ELSE account[b]
    BY <1>1, <2>2
  <2>5. account' \in [Account -> [state : {"NONE", "OPEN", "CLOSED"},
                                 balance : Int, overdraft : BOOLEAN]]
    BY <1>1, <2>1, <2>2
  <2>6. \A b \in Account : account'[b].state = "NONE" => account'[b].balance = 0
    BY <2>1, <2>3, <2>4
  <2> QED
    BY <2>5, <2>6 DEF AccountsOK
<1>6. \A b \in Account : account'[b].balance =
        IF b = a THEN account[a].balance + delta ELSE account[b].balance
  BY <1>1, <1>4
<1>7. book' = [b \in Account |-> IF b \in {a} THEN Append(book[b], Posting(a, delta, key, about))
                                            ELSE book[b]]
  BY DEF Apply, Entry, Posting, Typed
<1> QED
  BY <1>2, <1>3, <1>5, <1>6, <1>7 DEF PostsOne, Posts, Posting

(* A post of no entry.                                                     *)
LEMMA NonePosts ==
  ASSUME Typed, PostsNone
  PROVE  Posts({}, [a \in {} |-> 0])
BY DEF Posts, PostsNone, Typed

(* Every request is of a client at the desk.                               *)
LEMMA Answers ==
  ASSUME Typed, NEW c \in Client, Answered(c)
  PROVE  DeskOK'
BY DEF Typed, DeskOK, Answered

LEMMA Asks ==
  ASSUME Typed, NEW c \in Client, NEW x \in Requests \cup PayRequests, Ask(c, x),
         x.kind = "transfer" => x.source # x.target
  PROVE  DeskOK' /\ AccountsOK' /\ PostsNone /\ UNCHANGED <<expense, transfer>>
BY DEF Typed, CashTypeOK, DeskOK, AccountsOK, Ask, PostsNone

-----------------------------------------------------------------------------
(* The actions of the cash book.                                           *)
LEMMA OpenStep ==
  ASSUME Typed, NEW a \in Account, NEW overdraft \in BOOLEAN,
         NEW opening \in {0} \cup Amount, OpenAccount(a, opening, overdraft),
         UNCHANGED payment
  PROVE  Step /\ AccountsOK' /\ DeskOK'
<1>1. /\ account \in [Account -> [state : {"NONE", "OPEN", "CLOSED"},
                                 balance : Int, overdraft : BOOLEAN]]
      /\ account[a].balance = 0 /\ opening \in Nat
  BY CashBookAssumption DEF Typed, CashTypeOK, OpenAccount
<1> DEFINE x == [state |-> "OPEN", balance |-> opening, overdraft |-> overdraft]
<1>2. account' = [account EXCEPT ![a] = x] /\ x.balance = opening /\ x.state = "OPEN"
  BY DEF OpenAccount
<1>3. x \in [state : {"NONE", "OPEN", "CLOSED"}, balance : Int, overdraft : BOOLEAN]
  BY <1>1
<1> HIDE DEF x
<1>4. \A b \in Account : account'[b] = IF b = a THEN x ELSE account[b]
  BY <1>1, <1>2
<1>5. AccountsOK'
  <2>1. \A b \in Account : account'[b].state = "NONE" => account'[b].balance = 0
    BY <1>2, <1>4 DEF Typed
  <2> QED
    BY <1>1, <1>2, <1>3, <2>1 DEF AccountsOK
<1>6. DeskOK' /\ UNCHANGED <<expense, transfer>>
  BY DEF OpenAccount, DeskOK, Typed
<1>7. CASE opening = 0
  <2>1. UNCHANGED book
    BY <1>7 DEF OpenAccount, Typed
  <2>2. PostsNone
    BY <1>1, <1>2, <1>4, <1>7, <2>1 DEF PostsNone
  <2> QED
    BY <1>5, <1>6, <2>2 DEF Step, NoDocument
<1>8. CASE opening # 0
  <2>1. Posting(a, opening, NoKey, Manual) \in Entries
    BY <1>1 DEF Posting, Entries
  <2>2. book' = [b \in Account |->
          IF b \in {a} THEN Append(book[b], Posting(a, opening, NoKey, Manual))
          ELSE book[b]]
    BY <1>8 DEF OpenAccount, Entry, Posting, Typed
  <2>3. PostsOne(a, opening, NoKey, Manual)
    BY <1>1, <1>2, <1>4, <2>1, <2>2 DEF PostsOne, Posts, Posting
  <2>4. MovedByHand
    BY <1>1, <1>6, <2>3 DEF MovedByHand
  <2> QED
    BY <1>5, <1>6, <2>4 DEF Step
<1> QED
  BY <1>7, <1>8

LEMMA EditStep ==
  ASSUME Typed, NEW a \in Account, NEW overdraft \in BOOLEAN,
         NEW state \in {"OPEN", "CLOSED"}, EditAccount(a, state, overdraft),
         UNCHANGED payment
  PROVE  Step /\ AccountsOK' /\ DeskOK'
<1>1. account \in [Account -> [state : {"NONE", "OPEN", "CLOSED"},
                              balance : Int, overdraft : BOOLEAN]]
  BY DEF Typed, CashTypeOK
<1> DEFINE x == [state |-> state, balance |-> account[a].balance,
                 overdraft |-> overdraft]
<1>2. account' = [account EXCEPT ![a] = x]
  BY <1>1 DEF EditAccount
<1>3. /\ x \in [state : {"NONE", "OPEN", "CLOSED"}, balance : Int, overdraft : BOOLEAN]
      /\ x.balance = account[a].balance /\ x.state # "NONE"
  BY <1>1
<1> HIDE DEF x
<1>4. \A b \in Account : account'[b] = IF b = a THEN x ELSE account[b]
  BY <1>1, <1>2
<1>5. AccountsOK'
  <2>1. \A b \in Account : account'[b].state = "NONE" => account'[b].balance = 0
    BY <1>3, <1>4 DEF Typed
  <2> QED
    BY <1>1, <1>2, <1>3, <2>1 DEF AccountsOK
<1>6. DeskOK' /\ NoDocument
  BY <1>3, <1>4 DEF EditAccount, DeskOK, Typed, NoDocument, PostsNone
<1> QED
  BY <1>5, <1>6 DEF Step

(* What a client has asked for, by its kind.                               *)
LEMMA AskedMove ==
  ASSUME Typed, NEW c \in Client, desk[c] # Idle, desk[c].kind = "move"
  PROVE  /\ desk[c].account \in Account /\ desk[c].delta \in Int
         /\ desk[c].key \in Key \cup {NoKey}
BY DEF Typed, Requests, PayRequests

LEMMA AskedExpense ==
  ASSUME Typed, NEW c \in Client, desk[c] # Idle, desk[c].kind = "expense"
  PROVE  /\ desk[c].account \in Account /\ desk[c].amount \in Amount
         /\ desk[c].key \in Key \cup {NoKey}
BY DEF Typed, Requests, PayRequests

LEMMA AskedTransfer ==
  ASSUME Typed, NEW c \in Client, desk[c] # Idle, desk[c].kind = "transfer"
  PROVE  /\ desk[c].source \in Account /\ desk[c].target \in Account
         /\ desk[c].source # desk[c].target
         /\ desk[c].amount \in Amount /\ desk[c].key \in Key \cup {NoKey}
BY DEF Typed, Requests, PayRequests

LEMMA AskedPay ==
  ASSUME Typed, NEW c \in Client, desk[c] # Idle, desk[c].kind = "pay"
  PROVE  /\ desk[c].purchase \in Purchase \cup {NoPurchase}
         /\ desk[c].account \in Account \cup {NoAccount}
         /\ desk[c].amount \in Amount /\ desk[c].key \in Key \cup {NoKey}
BY DEF Typed, Requests, PayRequests

LEMMA AmountNat == \A x \in Amount : x \in Nat /\ x > 0 /\ -x \in Int
BY CashBookAssumption

LEMMA NewKey ==
  ASSUME NEW rows, NEW key, ~KeyOn(rows, key)
  PROVE  KeyNew(rows, key)
BY DEF KeyOn, KeyNew

LEMMA NoneKept ==
  ASSUME Typed, UNCHANGED <<account, book>>
  PROVE  PostsNone /\ AccountsOK'
BY DEF Typed, CashTypeOK, PostsNone, AccountsOK

LEMMA MoveStep ==
  ASSUME Typed, NEW c \in Client, Move(c), UNCHANGED payment
  PROVE  Step /\ AccountsOK' /\ DeskOK'
<1> DEFINE m == desk[c]
<1>1. /\ m.account \in Account /\ m.delta \in Int /\ m.key \in Key \cup {NoKey}
  BY AskedMove DEF Move
<1>2. DeskOK' /\ UNCHANGED <<expense, transfer>>
  BY Answers DEF Move
<1>3. CASE ~MovementByKey(m.key) /\ CanMoveMoney(m.account, m.delta)
  <2>1. Apply(m.account, m.delta, m.key, Manual)
    BY <1>3 DEF Move
  <2>2. PostsOne(m.account, m.delta, m.key, Manual) /\ AccountsOK'
    BY <1>1, <1>3, <2>1, ApplyPosts
  <2> QED
    BY <1>1, <1>2, <1>3, <2>2 DEF Step, MovedByHand
<1>4. CASE ~(~MovementByKey(m.key) /\ CanMoveMoney(m.account, m.delta))
  <2>1. UNCHANGED <<account, book>>
    BY <1>4 DEF Move
  <2> QED
    BY <1>2, <2>1, NoneKept DEF Step, NoDocument
<1> QED
  BY <1>3, <1>4

LEMMA SpendStep ==
  ASSUME Typed, NEW c \in Client, Spend(c), UNCHANGED payment
  PROVE  Step /\ AccountsOK' /\ DeskOK'
<1> DEFINE e == desk[c]
           row == [account |-> e.account, amount |-> e.amount, key |-> e.key,
                   status |-> "RECORDED"]
           about == <<"expense", Len(expense) + 1>>
<1>1. e.account \in Account /\ e.amount \in Amount /\ e.key \in Key \cup {NoKey}
  BY AskedExpense DEF Spend
<1>2. DeskOK' /\ UNCHANGED transfer
  BY Answers DEF Spend
<1>3. CASE ~KeyOn(expense, e.key) /\ CanMoveMoney(e.account, -e.amount)
  <2>1. /\ expense' = Append(expense, row)
        /\ Apply(e.account, -e.amount, NoKey, about)
    BY <1>3 DEF Spend
  <2>2. row \in Expenses /\ row.account = e.account /\ row.amount = e.amount
        /\ row.key = e.key /\ row.status = "RECORDED"
    BY <1>1 DEF Expenses
  <2>3. Len(expense) + 1 \in Nat \ {0}
    BY DEF Typed, CashTypeOK
  <2>4. PostsOne(e.account, -e.amount, NoKey, about) /\ AccountsOK'
    BY <1>1, <1>3, <2>1, <2>3, AmountNat, ApplyPosts
  <2>5. KeyNew(expense, e.key)
    BY <1>3, NewKey
  <2> HIDE DEF row
  <2>6. Spent
    BY <1>2, <2>1, <2>2, <2>4, <2>5 DEF Spent
  <2> QED
    BY <1>2, <2>4, <2>6 DEF Step
<1>4. CASE ~(~KeyOn(expense, e.key) /\ CanMoveMoney(e.account, -e.amount))
  <2>1. UNCHANGED <<account, book, expense>>
    BY <1>4 DEF Spend
  <2> QED
    BY <1>2, <2>1, NoneKept DEF Step, NoDocument
<1> QED
  BY <1>3, <1>4

LEMMA VoidStep ==
  ASSUME Typed, NEW n \in DOMAIN expense, VoidExpense(n), UNCHANGED payment
  PROVE  Step /\ AccountsOK' /\ DeskOK'
<1>1. expense[n] \in Expenses /\ n \in Nat \ {0}
  BY DEF Typed, CashTypeOK
<1>2. expense[n].account \in Account /\ expense[n].amount \in Amount
  BY <1>1 DEF Expenses
<1>3. /\ CanMoveMoney(expense[n].account, expense[n].amount)
      /\ Apply(expense[n].account, expense[n].amount, NoKey, <<"expense", n>>)
      /\ expense[n].status = "RECORDED"
      /\ expense' = [expense EXCEPT ![n].status = "VOID"]
      /\ UNCHANGED <<transfer, desk>>
  BY DEF VoidExpense, MayVoid
<1>4. PostsOne(expense[n].account, expense[n].amount, NoKey, <<"expense", n>>)
      /\ AccountsOK'
  <2>1. <<"expense", n>> \in {"expense", "transfer", "payment"} \X (Nat \ {0})
    BY <1>1
  <2>2. expense[n].amount \in Int
    BY <1>2, AmountNat
  <2> QED
    BY <1>2, <1>3, <2>1, <2>2, ApplyPosts
<1> QED
  BY <1>3, <1>4 DEF Step, Voided, DeskOK, Typed

LEMMA LockStep ==
  ASSUME Typed, NEW c \in Client, LockFirst(c), UNCHANGED payment
  PROVE  Step /\ AccountsOK' /\ DeskOK'
<1>1. UNCHANGED <<account, book, expense, transfer>>
  BY DEF LockFirst
<1>2. desk[c] \in [kind : {"transfer"}, source : Account, target : Account,
                  amount : Amount, key : Key \cup {NoKey}, locked : BOOLEAN]
  BY DEF LockFirst, Typed, Requests, PayRequests
<1> DEFINE x == [desk[c] EXCEPT !.locked = TRUE]
<1>3. /\ x \in Requests /\ x.source = desk[c].source /\ x.target = desk[c].target
      /\ desk' = [desk EXCEPT ![c] = x]
  BY <1>2 DEF LockFirst, Requests
<1> HIDE DEF x
<1>4. desk[c].source # desk[c].target
  BY AskedTransfer DEF LockFirst
<1>5. DeskOK'
  BY <1>3, <1>4 DEF DeskOK, Typed
<1> QED
  BY <1>1, <1>5, NoneKept DEF Step, NoDocument

LEMMA TransferStep ==
  ASSUME Typed, NEW c \in Client, Transfer(c), UNCHANGED payment
  PROVE  Step /\ AccountsOK' /\ DeskOK'
<1> DEFINE t == desk[c]
           about == <<"transfer", Len(transfer) + 1>>
           row == [source |-> t.source, target |-> t.target, amount |-> t.amount,
                   key |-> t.key]
           ok == /\ ~KeyOn(transfer, t.key)
                 /\ account[t.target].state = "OPEN"
                 /\ CanMoveMoney(t.source, -t.amount)
<1>1. /\ t.source \in Account /\ t.target \in Account /\ t.source # t.target
      /\ t.amount \in Nat /\ t.amount > 0 /\ t.amount \in Amount
      /\ t.key \in Key \cup {NoKey}
  BY AskedTransfer, AmountNat DEF Transfer, HasFirst
<1>2. DeskOK' /\ UNCHANGED expense
  BY Answers DEF Transfer
<1>3. account \in [Account -> [state : {"NONE", "OPEN", "CLOSED"},
                              balance : Int, overdraft : BOOLEAN]]
  BY DEF Typed, CashTypeOK
<1>4. CASE ok
  <2> DEFINE S == {t.source, t.target}
             d(b) == IF b = t.source THEN -t.amount ELSE t.amount
             x(b) == [account[b] EXCEPT !.balance = @ + d(b)]
             e == [b \in S |-> Posting(b, d(b), NoKey, about)]
  <2>1. /\ transfer' = Append(transfer, row)
        /\ account' = [account EXCEPT ![t.source] = Posted(t.source, -t.amount),
                                     ![t.target] = Posted(t.target, t.amount)]
        /\ book' = [book EXCEPT ![t.source] = Entry(t.source, -t.amount, NoKey, about),
                               ![t.target] = Entry(t.target, t.amount, NoKey, about)]
    BY <1>4 DEF Transfer
  <2>2. about \in {"expense", "transfer", "payment"} \X (Nat \ {0})
    BY DEF Typed, CashTypeOK
  <2>3. \A b \in S : d(b) \in Int /\ account[b].balance \in Int /\ account[b].state = "OPEN"
    BY <1>1, <1>3, <1>4 DEF CanMoveMoney
  <2>4. \A b \in S : x(b) \in [state : {"NONE", "OPEN", "CLOSED"}, balance : Int,
                              overdraft : BOOLEAN]
                    /\ x(b).balance = account[b].balance + d(b) /\ x(b).state = "OPEN"
    BY <1>1, <1>3, <2>3
  <2>5. \A b \in Account : account'[b] = IF b \in S THEN x(b) ELSE account[b]
    BY <1>1, <1>3, <2>1 DEF Posted
  <2>6. AccountsOK'
    <3>1. DOMAIN account' = Account /\ account' = [b \in Account |-> account'[b]]
      BY <1>3, <2>1
    <3> HIDE DEF x
    <3>2. account' \in [Account -> [state : {"NONE", "OPEN", "CLOSED"},
                                   balance : Int, overdraft : BOOLEAN]]
      BY <1>3, <2>4, <2>5, <3>1
    <3>3. \A b \in Account : account'[b].state = "NONE" => account'[b].balance = 0
      BY <2>4, <2>5 DEF Typed
    <3> QED
      BY <3>2, <3>3 DEF AccountsOK
  <2>7. \A b \in S : Posting(b, d(b), NoKey, about) \in Entries
    BY <2>2, <2>3 DEF Posting, Entries
  <2>8. book' = [b \in Account |-> IF b \in S THEN Append(book[b], e[b]) ELSE book[b]]
    BY <1>1, <2>1 DEF Entry, Posting, Typed
  <2>9. ASSUME NEW b \in Account
        PROVE  account'[b].balance = IF b \in S THEN e[b].after ELSE account[b].balance
    <3>1. b \in S => e[b].after = account[b].balance + d(b)
      BY DEF Posting
    <3>2. /\ b \in S => account'[b] = x(b)
          /\ b \notin S => account'[b] = account[b]
      BY <2>5
    <3>3. b \in S => x(b).balance = account[b].balance + d(b)
      BY <2>4
    <3> HIDE DEF S, e, x, d
    <3> QED
      BY <3>1, <3>2, <3>3
  <2>10. \A b \in S : e[b].delta < 0 => e[b].after >= 0 \/ account[b].overdraft
    BY <1>1, <1>4 DEF Posting, CanMoveMoney, CanReduce
  <2>11. Posts(S, e)
    <3>1. e \in [S -> Entries] /\ S \subseteq Account
      BY <1>1, <2>7
    <3>2. \A b \in S : e[b].after = account[b].balance + e[b].delta
      BY DEF Posting
    <3> HIDE DEF e, S
    <3> QED
      BY <2>8, <2>9, <2>10, <3>1, <3>2 DEF Posts
  <2>12. row \in Transfers /\ row.source = t.source /\ row.target = t.target
         /\ row.amount = t.amount /\ row.key = t.key
    BY <1>1 DEF Transfers
  <2>13. KeyNew(transfer, t.key)
    BY <1>4, NewKey
  <2> HIDE DEF row
  <2>14. Transferred
    BY <1>1, <1>2, <2>1, <2>11, <2>12, <2>13 DEF Transferred
  <2> QED
    BY <1>2, <2>6, <2>14 DEF Step
<1>5. CASE ~ok
  <2>1. UNCHANGED <<account, book, transfer>>
    BY <1>5 DEF Transfer
  <2> QED
    BY <1>2, <2>1, NoneKept DEF Step, NoDocument
<1> QED
  BY <1>4, <1>5

LEMMA CashStep ==
  ASSUME Typed, CashNext, UNCHANGED payment
  PROVE  Step /\ AccountsOK' /\ DeskOK'
<1> DEFINE OK == Step /\ AccountsOK' /\ DeskOK'
<1>1. ASSUME NEW a \in Account, NEW overdraft \in BOOLEAN,
             NEW opening \in {0} \cup Amount, OpenAccount(a, opening, overdraft)
      PROVE  OK
  BY <1>1, OpenStep
<1>2. ASSUME NEW a \in Account, NEW overdraft \in BOOLEAN,
             NEW state \in {"OPEN", "CLOSED"}, EditAccount(a, state, overdraft)
      PROVE  OK
  BY <1>2, EditStep
<1>3. ASSUME NEW c \in Client, Move(c) \/ Spend(c) \/ LockFirst(c) \/ Transfer(c) PROVE OK
  BY <1>3, MoveStep, SpendStep, LockStep, TransferStep
<1>4. ASSUME NEW n \in DOMAIN expense, VoidExpense(n) PROVE OK
  BY <1>4, VoidStep
<1>5. ASSUME NEW c \in Client, NEW x \in Requests, Ask(c, x),
             x.kind = "transfer" => x.source # x.target
      PROVE  OK
  <2>1. DeskOK' /\ AccountsOK' /\ PostsNone /\ UNCHANGED <<expense, transfer>>
    BY <1>5, Asks
  <2> QED
    BY <2>1 DEF Step, NoDocument
<1>6. ASSUME NEW c \in Client, NEW a \in Account, NEW x \in Amount,
             NEW key \in Key \cup {NoKey}
      PROVE  /\ AskMove(c, a, x, key) => OK
             /\ AskMove(c, a, -x, key) => OK
             /\ AskExpense(c, a, x, key) => OK
             /\ \A b \in Account : AskTransfer(c, a, b, x, key) => OK
  <2>1. ASSUME NEW y \in {x, -x}, AskMove(c, a, y, key) PROVE OK
    <3>1. [kind |-> "move", account |-> a, delta |-> y, key |-> key] \in Requests
      BY AmountNat DEF Requests
    <3> QED
      BY <1>5, <2>1, <3>1 DEF AskMove
  <2>2. ASSUME AskExpense(c, a, x, key) PROVE OK
    <3>1. [kind |-> "expense", account |-> a, amount |-> x, key |-> key] \in Requests
      BY DEF Requests
    <3> QED
      BY <1>5, <2>2, <3>1 DEF AskExpense
  <2>3. ASSUME NEW b \in Account, AskTransfer(c, a, b, x, key) PROVE OK
    <3>1. [kind |-> "transfer", source |-> a, target |-> b, amount |-> x, key |-> key,
           locked |-> FALSE] \in Requests
      BY DEF Requests
    <3> QED
      BY <1>5, <2>3, <3>1 DEF AskTransfer
  <2> QED
    BY <2>1, <2>2, <2>3
<1> QED
  BY <1>1, <1>2, <1>3, <1>4, <1>6 DEF CashNext

-----------------------------------------------------------------------------
(* The payments to suppliers, and the purchase orders, which leave the     *)
(* cash book.                                                              *)
LEMMA SourceAccount ==
  ASSUME NEW named \in Account \cup {NoAccount}
  PROVE  Source(named) \in Account \cup {NoAccount}
<1> DEFINE open == {a \in Account : account[a].state = "OPEN"}
<1>1. open \subseteq Account
  OBVIOUS
<1>2. ASSUME open # {} PROVE Min(open) \in open
  <2>1. \E x \in open : \A y \in open : x <= y
    <3> HIDE DEF open
    <3> QED
      BY <1>1, <1>2, Least, CashBookAssumption
  <2> HIDE DEF open
  <2> QED
    BY <2>1 DEF Min
<1> QED
  BY <1>1, <1>2 DEF Source, Resolved

LEMMA PayStep ==
  ASSUME Typed, NEW c \in Client, Pay(c)
  PROVE  Step /\ AccountsOK' /\ DeskOK' /\ payment' \in Seq(Payments)
<1> DEFINE r == desk[c]
           a == Source(r.account)
           row == [purchase |-> r.purchase, amount |-> r.amount, account |-> a,
                   key |-> r.key]
           about == <<"payment", Len(payment) + 1>>
           ok == /\ ~KeyOn(payment, r.key) /\ MayPay(r.purchase, r.amount)
                 /\ CanPost(a, r.amount)
<1>1. /\ r.purchase \in Purchase \cup {NoPurchase} /\ r.amount \in Amount
      /\ r.key \in Key \cup {NoKey} /\ a \in Account \cup {NoAccount}
  BY AskedPay, SourceAccount DEF Pay
<1>2. DeskOK' /\ UNCHANGED <<expense, transfer>>
  BY Answers DEF Pay
<1> HIDE DEF a
<1>3. CASE ok
  <2>1. /\ payment' = Append(payment, row)
        /\ IF a = NoAccount THEN UNCHANGED <<account, book>>
           ELSE Apply(a, -r.amount, NoKey, about)
    BY <1>3 DEF Pay, a
  <2>2. row \in Payments /\ row.account = a /\ row.amount = r.amount /\ row.key = r.key
    BY <1>1 DEF Payments
  <2>3. KeyNew(payment, r.key)
    BY <1>3, NewKey
  <2>4. payment' \in Seq(Payments)
    BY <2>1, <2>2 DEF Typed
  <2>5. CASE a = NoAccount
    <3>1. PostsNone /\ AccountsOK'
      BY <2>1, <2>5, NoneKept
    <3> HIDE DEF row
    <3>2. Paid
      BY <1>2, <2>1, <2>2, <2>3, <2>5, <3>1 DEF Paid
    <3> QED
      BY <1>2, <2>4, <3>1, <3>2 DEF Step
  <2>6. CASE a # NoAccount
    <3>1. about \in {"expense", "transfer", "payment"} \X (Nat \ {0})
      BY DEF Typed
    <3>2. PostsOne(a, -r.amount, NoKey, about) /\ AccountsOK'
      BY <1>1, <1>3, <2>1, <2>6, <3>1, AmountNat, ApplyPosts DEF CanPost
    <3> HIDE DEF row
    <3>3. Paid
      BY <1>2, <2>1, <2>2, <2>3, <2>6, <3>2 DEF Paid
    <3> QED
      BY <1>2, <2>4, <3>2, <3>3 DEF Step
  <2> QED
    BY <2>5, <2>6
<1>4. CASE ~ok
  <2>1. UNCHANGED <<payment, account, book>>
    BY <1>4 DEF Pay, a
  <2> QED
    BY <1>2, <2>1, NoneKept DEF Step, NoDocument, Typed
<1> QED
  BY <1>3, <1>4

LEMMA NextStep ==
  ASSUME Typed, [Next]_vars
  PROVE  Step /\ AccountsOK' /\ DeskOK' /\ payment' \in Seq(Payments)
<1>1. CASE CashNext /\ UNCHANGED <<purchaseVars, payment>>
  BY <1>1, CashStep DEF Typed
<1>2. ASSUME UNCHANGED <<cashVars, payment>>
      PROVE  Step /\ AccountsOK' /\ DeskOK' /\ payment' \in Seq(Payments)
  BY <1>2, NoneKept DEF cashVars, Step, NoDocument, DeskOK, Typed
<1>3. ASSUME NEW c \in Client, NEW p \in Purchase \cup {NoPurchase},
             NEW a \in Account \cup {NoAccount}, NEW x \in Amount,
             NEW key \in Key \cup {NoKey}, AskPay(c, p, a, x, key)
      PROVE  Step /\ AccountsOK' /\ DeskOK' /\ payment' \in Seq(Payments)
  <2> DEFINE r == [kind |-> "pay", purchase |-> p, amount |-> x, account |-> a,
                   key |-> key]
  <2>1. r \in Requests \cup PayRequests /\ r.kind # "transfer"
    BY DEF PayRequests
  <2>2. Ask(c, r) /\ UNCHANGED payment
    BY <1>3 DEF AskPay
  <2> HIDE DEF r
  <2>3. DeskOK' /\ AccountsOK' /\ PostsNone /\ UNCHANGED <<expense, transfer>>
    BY <2>1, <2>2, Asks
  <2> QED
    BY <2>2, <2>3 DEF Step, NoDocument, Typed
<1> QED
  BY <1>1, <1>2, <1>3, PayStep DEF Next, vars

-----------------------------------------------------------------------------
(* Typed is inductive.                                                     *)
LEMMA PostsTyped ==
  ASSUME Typed, NEW S, NEW e, Posts(S, e)
  PROVE  book' \in [Account -> Seq(Entries)]
<1>1. \A a \in Account : book[a] \in Seq(Entries)
  BY DEF Typed
<1>2. \A a \in S : Append(book[a], e[a]) \in Seq(Entries)
  BY <1>1 DEF Posts
<1> QED
  BY <1>1, <1>2 DEF Posts

(* Every step posts to some books.                                         *)
LEMMA StepPosts ==
  ASSUME Typed, Step
  PROVE  \E S, e : Posts(S, e)
BY NonePosts DEF Step, NoDocument, MovedByHand, Spent, Voided, Transferred, Paid, PostsOne

LEMMA StepTyped ==
  ASSUME Typed, [Next]_vars
  PROVE  Typed'
<1>1. Step /\ AccountsOK' /\ DeskOK' /\ payment' \in Seq(Payments)
  BY NextStep
<1>2. book' \in [Account -> Seq(Entries)]
  BY <1>1, StepPosts, PostsTyped
<1>3. expense \in Seq(Expenses) /\ transfer \in Seq(Transfers)
  BY DEF Typed, CashTypeOK
<1>4. expense' \in Seq(Expenses)
  <2>1. ASSUME NEW n \in DOMAIN expense, expense' = [expense EXCEPT ![n].status = "VOID"]
        PROVE  expense' \in Seq(Expenses)
    <3> DEFINE x == [expense[n] EXCEPT !.status = "VOID"]
    <3>1. x \in Expenses /\ n \in 1 .. Len(expense)
      <4>1. n \in 1 .. Len(expense) /\ expense[n] \in Expenses
        BY <1>3
      <4>2. \A y \in Expenses : [y EXCEPT !.status = "VOID"] \in Expenses
        BY DEF Expenses
      <4> QED
        BY <4>1, <4>2
    <3>2. expense' = [expense EXCEPT ![n] = x]
      BY <2>1
    <3> HIDE DEF x
    <3> QED
      BY <1>3, <3>1, <3>2, ExceptSeq
  <2>2. ASSUME NEW x \in Expenses, expense' = Append(expense, x)
        PROVE  expense' \in Seq(Expenses)
    BY <1>3, <2>2
  <2> QED
    BY <1>1, <1>3, <2>1, <2>2
       DEF Step, NoDocument, MovedByHand, Spent, Voided, Transferred, Paid
<1>5. transfer' \in Seq(Transfers)
  <2>1. ASSUME NEW x \in Transfers, transfer' = Append(transfer, x)
        PROVE  transfer' \in Seq(Transfers)
    BY <1>3, <2>1
  <2> QED
    BY <1>1, <1>3, <2>1 DEF Step, NoDocument, MovedByHand, Spent, Voided, Transferred, Paid
<1> QED
  BY <1>1, <1>2, <1>4, <1>5 DEF Typed, CashTypeOK, AccountsOK, DeskOK

LEMMA InitTyped == ASSUME Init PROVE Typed
BY DEF Init, CashInit, Typed, CashTypeOK

(* Whatever staff ask, accounts hold whole sums, the books and documents   *)
(* are well formed, and no transfer is from an account to itself.          *)
THEOREM BooksTyped == Spec => []CashTypeOK
<1>1. Typed => CashTypeOK
  BY DEF Typed
<1> QED
  BY <1>1, InitTyped, StepTyped, PTL DEF Spec

-----------------------------------------------------------------------------
(* No account is taken below nothing that may not be overdrawn, by any     *)
(* movement, expense, transfer or payment (checkCanReduce).                *)
THEOREM NotOverdrawn == Spec => NoOverdraft
<1> DEFINE Fine == \A a \in Account :
                     account'[a].balance < account[a].balance =>
                       account'[a].balance >= 0 \/ account[a].overdraft
<1>1. Typed /\ [Next]_vars => [Fine]_cashVars
  <2> SUFFICES ASSUME Typed, [Next]_vars PROVE Fine
    OBVIOUS
  <2>1. PICK S, e : Posts(S, e)
    BY NextStep, StepPosts
  <2> SUFFICES ASSUME NEW a \in Account, account'[a].balance < account[a].balance
               PROVE  account'[a].balance >= 0 \/ account[a].overdraft
    OBVIOUS
  <2>2. account[a].balance \in Int
    BY DEF Typed, CashTypeOK
  <2>3. CASE a \in S
    <3>1. e[a].delta \in Int
      BY <2>1, <2>3 DEF Posts, Entries
    <3> QED
      BY <2>1, <2>2, <2>3, <3>1 DEF Posts
  <2>4. CASE a \notin S
    BY <2>1, <2>2, <2>4 DEF Posts
  <2> QED
    BY <2>3, <2>4
<1> QED
  BY <1>1, InitTyped, StepTyped, PTL DEF Spec, NoOverdraft

-----------------------------------------------------------------------------
(* What a posting leaves of a book.                                        *)
LEMMA BookPosted ==
  ASSUME Typed, NEW S, NEW e, Posts(S, e), NEW a \in Account
  PROVE  /\ Len(book[a]) \in Nat /\ DOMAIN book[a] = 1 .. Len(book[a])
         /\ \A i \in DOMAIN book[a] : i \in DOMAIN book'[a] /\ book'[a][i] = book[a][i]
         /\ a \in S =>
              /\ e[a] \in Entries /\ Len(book'[a]) = Len(book[a]) + 1
              /\ DOMAIN book'[a] = 1 .. (Len(book[a]) + 1)
              /\ book'[a][Len(book[a]) + 1] = e[a]
         /\ a \notin S => book'[a] = book[a]
<1>1. book[a] \in Seq(Entries)
  BY DEF Typed
<1>2. CASE a \in S
  <2>1. e[a] \in Entries /\ book'[a] = Append(book[a], e[a])
    BY <1>2 DEF Posts
  <2> QED
    BY <1>1, <1>2, <2>1
<1>3. CASE a \notin S
  BY <1>1, <1>3 DEF Posts
<1> QED
  BY <1>2, <1>3

LEMMA ReplaysPosted ==
  ASSUME Typed, BooksReplay, NEW S, NEW e, Posts(S, e)
  PROVE  BooksReplay'
<1> SUFFICES ASSUME NEW a \in Account
             PROVE  /\ \A i \in DOMAIN book'[a] :
                         book'[a][i].after = book'[a][i].delta
                           + (IF i = 1 THEN 0 ELSE book'[a][i - 1].after)
                    /\ account'[a].balance =
                         (IF book'[a] = <<>> THEN 0 ELSE book'[a][Len(book'[a])].after)
  BY DEF BooksReplay
<1> DEFINE n == Len(book[a])
<1>1. /\ \A i \in DOMAIN book[a] :
           book[a][i].after = book[a][i].delta
             + (IF i = 1 THEN 0 ELSE book[a][i - 1].after)
      /\ account[a].balance = (IF book[a] = <<>> THEN 0 ELSE book[a][n].after)
  BY DEF BooksReplay
<1>2. book[a] \in Seq(Entries) /\ n \in Nat /\ (book[a] = <<>> <=> n = 0)
  BY DEF Typed
<1>3. CASE a \notin S
  <2>1. book'[a] = book[a] /\ account'[a].balance = account[a].balance
    BY <1>3, BookPosted DEF Posts
  <2> QED
    BY <1>1, <2>1
<1>4. CASE a \in S
  <2>1. /\ DOMAIN book[a] = 1 .. n /\ DOMAIN book'[a] = 1 .. (n + 1)
        /\ Len(book'[a]) = n + 1 /\ book'[a][n + 1] = e[a]
        /\ \A i \in 1 .. n : book'[a][i] = book[a][i]
    BY <1>4, BookPosted
  <2>2. book'[a] # <<>>
    BY <1>2, <1>4 DEF Posts
  <2>3. /\ account'[a].balance = e[a].after
        /\ e[a].after = account[a].balance + e[a].delta
    BY <1>4 DEF Posts
  <2>4. e[a].delta \in Int /\ account[a].balance \in Int
    BY <1>4 DEF Posts, Entries, Typed, CashTypeOK
  <2>5. ASSUME NEW i \in 1 .. (n + 1)
        PROVE  book'[a][i].after = book'[a][i].delta
                 + (IF i = 1 THEN 0 ELSE book'[a][i - 1].after)
    <3>1. CASE i \in 1 .. n
      <4>1. book'[a][i] = book[a][i] /\ (i # 1 => book'[a][i - 1] = book[a][i - 1])
        BY <1>2, <2>1, <3>1
      <4> QED
        BY <1>1, <2>1, <3>1, <4>1
    <3>2. CASE i = n + 1
      <4>1. CASE n = 0
        BY <1>1, <1>2, <2>1, <2>3, <2>4, <3>2, <4>1
      <4>2. CASE n # 0
        <5>1. book'[a][n] = book[a][n] /\ account[a].balance = book[a][n].after
          BY <1>1, <1>2, <2>1, <4>2
        <5>2. i # 1 /\ book'[a][i - 1] = book[a][n] /\ book'[a][i] = e[a]
          <6>1. i - 1 = n /\ i # 1
            BY <1>2, <3>2, <4>2
          <6> QED
            BY <2>1, <3>2, <5>1, <6>1
        <5>3. e[a].after = e[a].delta + account[a].balance
          BY <2>3, <2>4
        <5> QED
          BY <5>1, <5>2, <5>3
      <4> QED
        BY <4>1, <4>2
    <3> QED
      BY <1>2, <3>1, <3>2
  <2> QED
    BY <2>1, <2>2, <2>3, <2>5
<1> QED
  BY <1>3, <1>4

(* Its last entry is the one posted.                                       *)
LEMMA LastPosted ==
  ASSUME Typed, NEW S, NEW e, Posts(S, e), NEW a \in S
  PROVE  /\ Len(book[a]) + 1 \in DOMAIN book'[a]
         /\ book'[a][Len(book[a]) + 1] = e[a]
<1>1. a \in Account
  BY DEF Posts
<1>2. /\ Len(book[a]) \in Nat /\ DOMAIN book'[a] = 1 .. (Len(book[a]) + 1)
      /\ book'[a][Len(book[a]) + 1] = e[a]
  BY <1>1, BookPosted
<1> QED
  BY <1>2

(* The entries about a row, after a posting.                               *)
LEMMA AboutPosted ==
  ASSUME Typed, NEW S, NEW e, Posts(S, e), NEW row
  PROVE  About(row)' = About(row)
           \cup {<<b, Len(book[b]) + 1>> : b \in {c \in S : e[c].about = row}}
<1>1. \A a \in Account :
        /\ Len(book[a]) \in Nat /\ DOMAIN book[a] = 1 .. Len(book[a])
        /\ \A i \in DOMAIN book[a] : i \in DOMAIN book'[a] /\ book'[a][i] = book[a][i]
        /\ a \in S => /\ DOMAIN book'[a] = 1 .. (Len(book[a]) + 1)
                      /\ book'[a][Len(book[a]) + 1] = e[a]
        /\ a \notin S => book'[a] = book[a]
  BY BookPosted
<1>2. \A x : x \in About(row) <=>
        \E a \in Account : \E i \in DOMAIN book[a] : x = <<a, i>> /\ book[a][i].about = row
  BY DEF About, EntriesMade
<1>3. \A x : x \in About(row)' <=>
        \E a \in Account : \E i \in DOMAIN book'[a] : x = <<a, i>> /\ book'[a][i].about = row
  BY DEF About, EntriesMade
<1>4. S \subseteq Account
  BY DEF Posts
<1>5. ASSUME NEW x \in About(row)'
      PROVE  x \in About(row)
               \cup {<<b, Len(book[b]) + 1>> : b \in {c \in S : e[c].about = row}}
  <2>0. PICK a \in Account :
          \E i \in DOMAIN book'[a] : x = <<a, i>> /\ book'[a][i].about = row
    BY <1>3
  <2>1. PICK i \in DOMAIN book'[a] : x = <<a, i>> /\ book'[a][i].about = row
    BY <2>0
  <2>2. CASE i \in DOMAIN book[a]
    BY <1>1, <1>2, <2>1, <2>2
  <2>3. CASE i \notin DOMAIN book[a]
    <3>1. a \in S /\ i = Len(book[a]) + 1
      BY <1>1, <2>1, <2>3
    <3> QED
      BY <1>1, <2>1, <3>1
  <2> QED
    BY <2>2, <2>3
<1>6. ASSUME NEW x \in About(row) PROVE x \in About(row)'
  BY <1>1, <1>2, <1>3
<1>7. ASSUME NEW a \in S, e[a].about = row PROVE <<a, Len(book[a]) + 1>> \in About(row)'
  <2>1. Len(book[a]) + 1 \in DOMAIN book'[a] /\ book'[a][Len(book[a]) + 1] = e[a] /\ a \in Account
    BY <1>1, <1>4
  <2> QED
    BY <1>3, <1>7, <2>1
<1> QED
  BY <1>5, <1>6, <1>7

(* What is once in a book stays so while nothing more is posted about it.  *)
LEMMA OnceKept ==
  ASSUME Typed, NEW S, NEW e, Posts(S, e), NEW a \in Account, NEW row, NEW delta,
         OnceIn(a, row, delta), \A b \in S : e[b].about # row
  PROVE  OnceIn(a, row, delta)'
<1>1. About(row)' = About(row)
  <2>1. {<<b, Len(book[b]) + 1>> : b \in {c \in S : e[c].about = row}} = {}
    OBVIOUS
  <2>2. About(row)' = About(row)
          \cup {<<b, Len(book[b]) + 1>> : b \in {c \in S : e[c].about = row}}
    BY AboutPosted
  <2> QED
    BY <2>1, <2>2
<1> QED
  BY <1>1, BookPosted DEF OnceIn

(* What is posted first about a row is in its book once.                   *)
LEMMA OnceNow ==
  ASSUME Typed, NEW a \in Account, NEW S, S = {a}, NEW e, Posts(S, e), NEW row,
         e[a].about = row, About(row) = {}
  PROVE  OnceIn(a, row, e[a].delta)'
<1>1. About(row)' = {<<a, Len(book[a]) + 1>>}
  BY AboutPosted
<1>2. /\ Len(book[a]) + 1 \in DOMAIN book'[a]
      /\ book'[a][Len(book[a]) + 1] = e[a]
  BY BookPosted
<1> QED
  BY <1>1, <1>2 DEF OnceIn

LEMMA AboutKept ==
  ASSUME Typed, NEW S, NEW e, Posts(S, e), NEW row, \A b \in S : e[b].about # row
  PROVE  About(row)' = About(row)
<1>1. {<<b, Len(book[b]) + 1>> : b \in {c \in S : e[c].about = row}} = {}
  OBVIOUS
<1>2. About(row)' = About(row)
        \cup {<<b, Len(book[b]) + 1>> : b \in {c \in S : e[c].about = row}}
  BY AboutPosted
<1> QED
  BY <1>1, <1>2

-----------------------------------------------------------------------------
(* Each document in the books, and no entry about one not written yet.     *)
ExpenseIn(n) ==
  LET x == expense[n]
      row == <<"expense", n>>
  IN IF x.status = "RECORDED" THEN OnceIn(x.account, row, -x.amount)
     ELSE \E i, j \in DOMAIN book[x.account] :
            /\ i < j /\ About(row) = {<<x.account, i>>, <<x.account, j>>}
            /\ book[x.account][i].delta = -x.amount
            /\ book[x.account][j].delta = x.amount

TransferIn(n) ==
  LET t == transfer[n] IN
    \E i \in DOMAIN book[t.source], j \in DOMAIN book[t.target] :
      /\ About(<<"transfer", n>>) = {<<t.source, i>>, <<t.target, j>>}
      /\ book[t.source][i].delta = -t.amount
      /\ book[t.target][j].delta = t.amount

PaymentIn(n) ==
  LET r == payment[n]
      row == <<"payment", n>>
  IN IF r.account = NoAccount THEN About(row) = {}
     ELSE OnceIn(r.account, row, -r.amount)

Unwritten ==
  /\ \A n \in Nat : n > Len(expense) => About(<<"expense", n>>) = {}
  /\ \A n \in Nat : n > Len(transfer) => About(<<"transfer", n>>) = {}
  /\ \A n \in Nat : n > Len(payment) => About(<<"payment", n>>) = {}

Agreed ==
  /\ BooksReplay /\ Unwritten
  /\ \A n \in DOMAIN expense : ExpenseIn(n)
  /\ \A n \in DOMAIN transfer : TransferIn(n)
  /\ \A n \in DOMAIN payment : PaymentIn(n)

LEMMA AgreedAgrees == Agreed => BookAgrees
BY DEF Agreed, BookAgrees, DocumentsPosted, ExpenseIn, TransferIn, PaymentIn

LEMMA ExpenseKept ==
  ASSUME Typed, NEW S, NEW e, Posts(S, e), NEW n \in DOMAIN expense, ExpenseIn(n),
         expense'[n] = expense[n], \A b \in S : e[b].about # <<"expense", n>>
  PROVE  ExpenseIn(n)'
<1>1. About(<<"expense", n>>)' = About(<<"expense", n>>)
  BY AboutKept
<1>2. n \in 1 .. Len(expense) /\ expense[n] \in Expenses
  BY DEF Typed, CashTypeOK
<1>3. expense[n].account \in Account
  BY <1>2 DEF Expenses
<1>4. \A i \in DOMAIN book[expense[n].account] :
        /\ i \in DOMAIN book'[expense[n].account]
        /\ book'[expense[n].account][i] = book[expense[n].account][i]
  BY <1>3, BookPosted
<1> QED
  BY <1>1, <1>4 DEF ExpenseIn, OnceIn

LEMMA TransferKept ==
  ASSUME Typed, NEW S, NEW e, Posts(S, e), NEW n \in DOMAIN transfer, TransferIn(n),
         transfer'[n] = transfer[n], \A b \in S : e[b].about # <<"transfer", n>>
  PROVE  TransferIn(n)'
<1>1. About(<<"transfer", n>>)' = About(<<"transfer", n>>)
  BY AboutKept
<1>2. n \in 1 .. Len(transfer) /\ transfer[n] \in Transfers
  BY DEF Typed, CashTypeOK
<1>3. transfer[n].source \in Account /\ transfer[n].target \in Account
  BY <1>2 DEF Transfers
<1>4. \A a \in {transfer[n].source, transfer[n].target} : \A i \in DOMAIN book[a] :
        i \in DOMAIN book'[a] /\ book'[a][i] = book[a][i]
  BY <1>3, BookPosted
<1> QED
  BY <1>1, <1>4 DEF TransferIn

LEMMA PaymentKept ==
  ASSUME Typed, NEW S, NEW e, Posts(S, e), NEW n \in DOMAIN payment, PaymentIn(n),
         payment'[n] = payment[n], \A b \in S : e[b].about # <<"payment", n>>
  PROVE  PaymentIn(n)'
<1>1. About(<<"payment", n>>)' = About(<<"payment", n>>)
  BY AboutKept
<1>2. n \in 1 .. Len(payment) /\ payment[n] \in Payments
  BY DEF Typed
<1>3. CASE payment[n].account = NoAccount
  BY <1>1, <1>3 DEF PaymentIn
<1>4. CASE payment[n].account # NoAccount
  <2>1. payment[n].account \in Account
    BY <1>2, <1>4 DEF Payments
  <2>2. \A i \in DOMAIN book[payment[n].account] :
          /\ i \in DOMAIN book'[payment[n].account]
          /\ book'[payment[n].account][i] = book[payment[n].account][i]
    BY <2>1, BookPosted
  <2> QED
    BY <1>1, <1>4, <2>2 DEF PaymentIn, OnceIn
<1> QED
  BY <1>3, <1>4

(* A step that posts nothing about any document of a kind leaves the kind  *)
(* agreed.                                                                 *)
LEMMA ExpensesKept ==
  ASSUME Typed, Agreed, NEW S, NEW e, Posts(S, e), UNCHANGED expense,
         \A b \in S, n \in Nat : e[b].about # <<"expense", n>>
  PROVE  /\ \A n \in DOMAIN expense' : ExpenseIn(n)'
         /\ \A n \in Nat : n > Len(expense') => About(<<"expense", n>>)' = {}
<1>1. ASSUME NEW n \in DOMAIN expense PROVE ExpenseIn(n)'
  <2>1. n \in Nat
    BY DEF Typed, CashTypeOK
  <2>2. \A b \in S : e[b].about # <<"expense", n>>
    BY <2>1
  <2> QED
    BY <2>2, ExpenseKept DEF Agreed
<1>2. ASSUME NEW n \in Nat, n > Len(expense) PROVE About(<<"expense", n>>)' = {}
  <2>1. About(<<"expense", n>>)' = About(<<"expense", n>>)
    BY AboutKept
  <2> QED
    BY <1>2, <2>1 DEF Agreed, Unwritten
<1> QED
  BY <1>1, <1>2

LEMMA TransfersKept ==
  ASSUME Typed, Agreed, NEW S, NEW e, Posts(S, e), UNCHANGED transfer,
         \A b \in S, n \in Nat : e[b].about # <<"transfer", n>>
  PROVE  /\ \A n \in DOMAIN transfer' : TransferIn(n)'
         /\ \A n \in Nat : n > Len(transfer') => About(<<"transfer", n>>)' = {}
<1>1. ASSUME NEW n \in DOMAIN transfer PROVE TransferIn(n)'
  <2>1. n \in Nat
    BY DEF Typed, CashTypeOK
  <2>2. \A b \in S : e[b].about # <<"transfer", n>>
    BY <2>1
  <2> QED
    BY <2>2, TransferKept DEF Agreed
<1>2. ASSUME NEW n \in Nat, n > Len(transfer) PROVE About(<<"transfer", n>>)' = {}
  <2>1. About(<<"transfer", n>>)' = About(<<"transfer", n>>)
    BY AboutKept
  <2> QED
    BY <1>2, <2>1 DEF Agreed, Unwritten
<1> QED
  BY <1>1, <1>2

LEMMA PaymentsKept ==
  ASSUME Typed, Agreed, NEW S, NEW e, Posts(S, e), UNCHANGED payment,
         \A b \in S, n \in Nat : e[b].about # <<"payment", n>>
  PROVE  /\ \A n \in DOMAIN payment' : PaymentIn(n)'
         /\ \A n \in Nat : n > Len(payment') => About(<<"payment", n>>)' = {}
<1>1. ASSUME NEW n \in DOMAIN payment PROVE PaymentIn(n)'
  <2>1. n \in Nat
    BY DEF Typed
  <2>2. \A b \in S : e[b].about # <<"payment", n>>
    BY <2>1
  <2> QED
    BY <2>2, PaymentKept DEF Agreed
<1>2. ASSUME NEW n \in Nat, n > Len(payment) PROVE About(<<"payment", n>>)' = {}
  <2>1. About(<<"payment", n>>)' = About(<<"payment", n>>)
    BY AboutKept
  <2> QED
    BY <1>2, <2>1 DEF Agreed, Unwritten
<1> QED
  BY <1>1, <1>2

LEMMA ManualAgreed ==
  ASSUME Typed, Agreed, NoDocument \/ MovedByHand
  PROVE  Agreed'
<1>1. UNCHANGED <<expense, transfer, payment>>
  BY DEF NoDocument, MovedByHand
<1>2. PICK S, e : Posts(S, e) /\ \A b \in S : e[b].about = Manual
  <2>1. CASE NoDocument
    BY <2>1, NonePosts DEF NoDocument
  <2>2. CASE MovedByHand
    BY <2>2 DEF MovedByHand, PostsOne, Posting
  <2> QED
    BY <2>1, <2>2
<1>3. \A b \in S, n \in Nat : /\ e[b].about # <<"expense", n>>
                             /\ e[b].about # <<"transfer", n>>
                             /\ e[b].about # <<"payment", n>>
  BY <1>2 DEF Manual
<1>4. BooksReplay'
  BY <1>2, ReplaysPosted DEF Agreed
<1>5. /\ \A n \in DOMAIN expense' : ExpenseIn(n)'
      /\ \A n \in Nat : n > Len(expense') => About(<<"expense", n>>)' = {}
  BY <1>1, <1>2, <1>3, ExpensesKept
<1>6. /\ \A n \in DOMAIN transfer' : TransferIn(n)'
      /\ \A n \in Nat : n > Len(transfer') => About(<<"transfer", n>>)' = {}
  BY <1>1, <1>2, <1>3, TransfersKept
<1>7. /\ \A n \in DOMAIN payment' : PaymentIn(n)'
      /\ \A n \in Nat : n > Len(payment') => About(<<"payment", n>>)' = {}
  BY <1>1, <1>2, <1>3, PaymentsKept
<1> QED
  BY <1>4, <1>5, <1>6, <1>7 DEF Agreed, Unwritten

LEMMA SpentAgreed ==
  ASSUME Typed, Agreed, Spent
  PROVE  Agreed'
<1>1. PICK x \in Expenses :
        /\ x.status = "RECORDED" /\ expense' = Append(expense, x)
        /\ PostsOne(x.account, -x.amount, NoKey, <<"expense", Len(expense) + 1>>)
  BY DEF Spent
<1>2. UNCHANGED <<transfer, payment>>
  BY DEF Spent
<1>3. PICK N : N = Len(expense) + 1
  OBVIOUS
<1>4. PICK S, e : /\ S = {x.account} /\ Posts(S, e)
                  /\ e[x.account].delta = -x.amount
                  /\ e[x.account].about = <<"expense", N>>
  BY <1>1, <1>3 DEF PostsOne, Posting
<1>5. x.account \in Account /\ expense \in Seq(Expenses) /\ N \in Nat
  BY <1>3 DEF Expenses, Typed, CashTypeOK
<1>6. /\ Len(expense') = N /\ DOMAIN expense' = 1 .. N /\ expense'[N] = x
      /\ \A n \in DOMAIN expense : expense'[n] = expense[n]
      /\ DOMAIN expense = 1 .. (N - 1) /\ Len(expense) = N - 1
  BY <1>1, <1>3, <1>5
<1>7. BooksReplay'
  BY <1>4, ReplaysPosted DEF Agreed
<1>8. /\ \A n \in DOMAIN transfer' : TransferIn(n)'
      /\ \A n \in Nat : n > Len(transfer') => About(<<"transfer", n>>)' = {}
  BY <1>2, <1>4, TransfersKept
<1>9. /\ \A n \in DOMAIN payment' : PaymentIn(n)'
      /\ \A n \in Nat : n > Len(payment') => About(<<"payment", n>>)' = {}
  BY <1>2, <1>4, PaymentsKept
<1>10. ASSUME NEW n \in DOMAIN expense' PROVE ExpenseIn(n)'
  <2>1. CASE n = N
    <3>1. About(<<"expense", N>>) = {}
      BY <1>5, <1>6 DEF Agreed, Unwritten
    <3>2. OnceIn(x.account, <<"expense", N>>, e[x.account].delta)'
      BY <1>4, <1>5, <3>1, OnceNow
    <3> QED
      BY <1>1, <1>4, <1>6, <2>1, <3>2 DEF ExpenseIn
  <2>2. CASE n # N
    <3>1. n \in DOMAIN expense
      BY <1>5, <1>6, <2>2
    <3>2. \A b \in S : e[b].about # <<"expense", n>>
      BY <1>4, <2>2
    <3> QED
      BY <1>4, <1>6, <3>1, <3>2, ExpenseKept DEF Agreed
  <2> QED
    BY <2>1, <2>2
<1>11. ASSUME NEW n \in Nat, n > Len(expense')
       PROVE  About(<<"expense", n>>)' = {}
  <2>1. n # N /\ n > Len(expense)
    BY <1>5, <1>6, <1>11
  <2>2. \A b \in S : e[b].about # <<"expense", n>>
    BY <1>4, <2>1
  <2>3. About(<<"expense", n>>)' = About(<<"expense", n>>)
    BY <1>4, <2>2, AboutKept
  <2> QED
    BY <2>1, <2>3 DEF Agreed, Unwritten
<1> QED
  BY <1>7, <1>8, <1>9, <1>10, <1>11 DEF Agreed, Unwritten

LEMMA VoidedAgreed ==
  ASSUME Typed, Agreed, Voided
  PROVE  Agreed'
<1>1. PICK k \in DOMAIN expense :
        /\ expense[k].status = "RECORDED"
        /\ expense' = [expense EXCEPT ![k].status = "VOID"]
        /\ PostsOne(expense[k].account, expense[k].amount, NoKey, <<"expense", k>>)
  BY DEF Voided
<1>2. UNCHANGED <<transfer, payment>>
  BY DEF Voided
<1>3. PICK x : x = expense[k]
  OBVIOUS
<1>4. PICK S, e : /\ S = {x.account} /\ Posts(S, e)
                  /\ e[x.account].delta = x.amount
                  /\ e[x.account].about = <<"expense", k>>
  BY <1>1, <1>3 DEF PostsOne, Posting
<1>5. /\ expense \in Seq(Expenses) /\ k \in Nat
      /\ x \in Expenses /\ x.account \in Account
  <2>1. expense \in Seq(Expenses) /\ k \in 1 .. Len(expense) /\ expense[k] \in Expenses
    BY DEF Typed, CashTypeOK
  <2> QED
    BY <1>3, <2>1 DEF Expenses
<1>6. /\ Len(expense') = Len(expense) /\ DOMAIN expense' = DOMAIN expense
      /\ expense'[k] = [x EXCEPT !.status = "VOID"]
      /\ \A n \in DOMAIN expense : n # k => expense'[n] = expense[n]
  <2> DEFINE y == [expense[k] EXCEPT !.status = "VOID"]
  <2>1. expense' = [expense EXCEPT ![k] = y]
    BY <1>1
  <2>2. y = [x EXCEPT !.status = "VOID"]
    BY <1>3
  <2>3. y \in Expenses
    BY <1>3, <1>5 DEF Expenses
  <2> HIDE DEF y
  <2>4. expense' \in Seq(Expenses)
    BY <1>5, <2>1, <2>3, ExceptSeq
  <2> QED
    BY <1>5, <2>1, <2>2, <2>4
<1>7. BooksReplay'
  BY <1>4, ReplaysPosted DEF Agreed
<1>8. /\ \A n \in DOMAIN transfer' : TransferIn(n)'
      /\ \A n \in Nat : n > Len(transfer') => About(<<"transfer", n>>)' = {}
  BY <1>2, <1>4, TransfersKept
<1>9. /\ \A n \in DOMAIN payment' : PaymentIn(n)'
      /\ \A n \in Nat : n > Len(payment') => About(<<"payment", n>>)' = {}
  BY <1>2, <1>4, PaymentsKept
<1>10. ASSUME NEW n \in DOMAIN expense' PROVE ExpenseIn(n)'
  <2>1. CASE n = k
    <3> DEFINE a == x.account
               j == Len(book[a]) + 1
    <3>1. PICK i \in DOMAIN book[a] :
            book[a][i].delta = -x.amount /\ About(<<"expense", k>>) = {<<a, i>>}
      BY <1>1, <1>3 DEF Agreed, ExpenseIn, OnceIn
    <3>2. {<<b, Len(book[b]) + 1>> : b \in {c \in S : e[c].about = <<"expense", k>>}}
            = {<<a, j>>}
      BY <1>4
    <3>3. About(<<"expense", k>>)' = {<<a, i>>, <<a, j>>}
      <4>1. About(<<"expense", k>>)' = About(<<"expense", k>>)
        \cup {<<b, Len(book[b]) + 1>> : b \in {c \in S : e[c].about = <<"expense", k>>}}
        BY <1>4, AboutPosted
      <4> QED
        BY <3>1, <3>2, <4>1
    <3>4. /\ i \in DOMAIN book'[a] /\ book'[a][i] = book[a][i] /\ i < j
          /\ j \in DOMAIN book'[a] /\ book'[a][j] = e[a]
      <4>1. Len(book[a]) \in Nat /\ i \in 1 .. Len(book[a])
        BY <1>5, <3>1 DEF Typed
      <4>2. i \in DOMAIN book'[a] /\ book'[a][i] = book[a][i]
        BY <1>4, <1>5, <3>1, BookPosted
      <4>3. j \in DOMAIN book'[a] /\ book'[a][j] = e[a]
        BY <1>4, LastPosted
      <4> QED
        BY <4>1, <4>2, <4>3
    <3>5. /\ expense'[k].account = a /\ expense'[k].amount = x.amount
          /\ expense'[k].status # "RECORDED"
      BY <1>5, <1>6 DEF Expenses
    <3> QED
      BY <1>4, <2>1, <3>1, <3>3, <3>4, <3>5 DEF ExpenseIn
  <2>2. CASE n # k
    <3>1. n \in DOMAIN expense
      BY <1>6
    <3>2. \A b \in S : e[b].about # <<"expense", n>>
      BY <1>4, <2>2
    <3> QED
      BY <1>4, <1>6, <2>2, <3>1, <3>2, ExpenseKept DEF Agreed
  <2> QED
    BY <2>1, <2>2
<1>11. ASSUME NEW n \in Nat, n > Len(expense')
       PROVE  About(<<"expense", n>>)' = {}
  <2>1. n # k /\ n > Len(expense)
    BY <1>5, <1>6, <1>11
  <2>2. \A b \in S : e[b].about # <<"expense", n>>
    BY <1>4, <2>1
  <2>3. About(<<"expense", n>>)' = About(<<"expense", n>>)
    BY <1>4, <2>2, AboutKept
  <2> QED
    BY <2>1, <2>3 DEF Agreed, Unwritten
<1> QED
  BY <1>7, <1>8, <1>9, <1>10, <1>11 DEF Agreed, Unwritten

LEMMA PaidAgreed ==
  ASSUME Typed, Agreed, Paid
  PROVE  Agreed'
<1>1. PICK x \in Payments :
        /\ payment' = Append(payment, x)
        /\ IF x.account = NoAccount THEN PostsNone
           ELSE PostsOne(x.account, -x.amount, NoKey, <<"payment", Len(payment) + 1>>)
  BY DEF Paid
<1>2. UNCHANGED <<expense, transfer>>
  BY DEF Paid
<1>3. PICK N : N = Len(payment) + 1
  OBVIOUS
<1>4. PICK S, e : /\ S = (IF x.account = NoAccount THEN {} ELSE {x.account})
                  /\ Posts(S, e)
                  /\ x.account # NoAccount =>
                       /\ e[x.account].delta = -x.amount
                       /\ e[x.account].about = <<"payment", N>>
  <2>1. CASE x.account = NoAccount
    BY <1>1, <2>1, NonePosts
  <2>2. CASE x.account # NoAccount
    BY <1>1, <1>3, <2>2 DEF PostsOne, Posting
  <2> QED
    BY <2>1, <2>2
<1>5. payment \in Seq(Payments) /\ N \in Nat
  BY <1>3 DEF Typed
<1>6. /\ Len(payment') = N /\ DOMAIN payment' = 1 .. N /\ payment'[N] = x
      /\ \A n \in DOMAIN payment : payment'[n] = payment[n]
      /\ DOMAIN payment = 1 .. (N - 1) /\ Len(payment) = N - 1
  BY <1>1, <1>3, <1>5
<1>7. BooksReplay'
  BY <1>4, ReplaysPosted DEF Agreed
<1>8. \A b \in S, n \in Nat : e[b].about # <<"expense", n>> /\ e[b].about # <<"transfer", n>>
  BY <1>4
<1>9. /\ \A n \in DOMAIN expense' : ExpenseIn(n)'
      /\ \A n \in Nat : n > Len(expense') => About(<<"expense", n>>)' = {}
  BY <1>2, <1>4, <1>8, ExpensesKept
<1>10. /\ \A n \in DOMAIN transfer' : TransferIn(n)'
       /\ \A n \in Nat : n > Len(transfer') => About(<<"transfer", n>>)' = {}
  BY <1>2, <1>4, <1>8, TransfersKept
<1>11. ASSUME NEW n \in DOMAIN payment' PROVE PaymentIn(n)'
  <2>1. CASE n = N
    <3>1. About(<<"payment", N>>) = {}
      BY <1>5, <1>6 DEF Agreed, Unwritten
    <3>2. CASE x.account = NoAccount
      <4>1. About(<<"payment", N>>)' = {}
        BY <1>4, <3>1, <3>2, AboutKept
      <4> QED
        BY <1>6, <2>1, <3>2, <4>1 DEF PaymentIn
    <3>3. CASE x.account # NoAccount
      <4>1. x.account \in Account
        BY <3>3 DEF Payments
      <4>2. OnceIn(x.account, <<"payment", N>>, e[x.account].delta)'
        BY <1>4, <3>1, <3>3, <4>1, OnceNow
      <4> QED
        BY <1>4, <1>6, <2>1, <3>3, <4>2 DEF PaymentIn
    <3> QED
      BY <3>2, <3>3
  <2>2. CASE n # N
    <3>1. n \in DOMAIN payment
      BY <1>5, <1>6, <2>2
    <3>2. \A b \in S : e[b].about # <<"payment", n>>
      BY <1>4, <2>2
    <3> QED
      BY <1>4, <1>6, <3>1, <3>2, PaymentKept DEF Agreed
  <2> QED
    BY <2>1, <2>2
<1>12. ASSUME NEW n \in Nat, n > Len(payment')
       PROVE  About(<<"payment", n>>)' = {}
  <2>1. n # N /\ n > Len(payment)
    BY <1>5, <1>6, <1>12
  <2>2. \A b \in S : e[b].about # <<"payment", n>>
    BY <1>4, <2>1
  <2>3. About(<<"payment", n>>)' = About(<<"payment", n>>)
    BY <1>4, <2>2, AboutKept
  <2> QED
    BY <2>1, <2>3 DEF Agreed, Unwritten
<1> QED
  BY <1>7, <1>9, <1>10, <1>11, <1>12 DEF Agreed, Unwritten

LEMMA TransferredAgreed ==
  ASSUME Typed, Agreed, Transferred
  PROVE  Agreed'
<1>1. PICK x \in Transfers :
        /\ x.source # x.target /\ transfer' = Append(transfer, x)
        /\ Posts({x.source, x.target},
                 [b \in {x.source, x.target} |->
                    Posting(b, IF b = x.source THEN -x.amount ELSE x.amount,
                            NoKey, <<"transfer", Len(transfer) + 1>>)])
  BY DEF Transferred
<1>2. UNCHANGED <<expense, payment>>
  BY DEF Transferred
<1>3. PICK N : N = Len(transfer) + 1
  OBVIOUS
<1>4. PICK S, e :
        /\ S = {x.source, x.target} /\ Posts(S, e)
        /\ e[x.source].delta = -x.amount /\ e[x.target].delta = x.amount
        /\ \A b \in S : e[b].about = <<"transfer", N>>
  BY <1>1, <1>3 DEF Posting
<1>5. /\ x.source \in Account /\ x.target \in Account
      /\ transfer \in Seq(Transfers) /\ N \in Nat
  BY <1>3 DEF Transfers, Typed, CashTypeOK
<1>6. /\ Len(transfer') = N /\ DOMAIN transfer' = 1 .. N /\ transfer'[N] = x
      /\ \A n \in DOMAIN transfer : transfer'[n] = transfer[n]
      /\ DOMAIN transfer = 1 .. (N - 1) /\ Len(transfer) = N - 1
  BY <1>1, <1>3, <1>5
<1>7. BooksReplay'
  BY <1>4, ReplaysPosted DEF Agreed
<1>8. \A b \in S, n \in Nat : e[b].about # <<"expense", n>> /\ e[b].about # <<"payment", n>>
  BY <1>4
<1>9. /\ \A n \in DOMAIN expense' : ExpenseIn(n)'
      /\ \A n \in Nat : n > Len(expense') => About(<<"expense", n>>)' = {}
  BY <1>2, <1>4, <1>8, ExpensesKept
<1>10. /\ \A n \in DOMAIN payment' : PaymentIn(n)'
       /\ \A n \in Nat : n > Len(payment') => About(<<"payment", n>>)' = {}
  BY <1>2, <1>4, <1>8, PaymentsKept
<1>11. ASSUME NEW n \in DOMAIN transfer' PROVE TransferIn(n)'
  <2>1. CASE n = N
    <3> DEFINE i == Len(book[x.source]) + 1
               j == Len(book[x.target]) + 1
    <3>1. About(<<"transfer", N>>) = {}
      BY <1>5, <1>6 DEF Agreed, Unwritten
    <3>2. {<<b, Len(book[b]) + 1>> : b \in {c \in S : e[c].about = <<"transfer", N>>}}
            = {<<x.source, i>>, <<x.target, j>>}
      BY <1>4
    <3>3. About(<<"transfer", N>>)' = {<<x.source, i>>, <<x.target, j>>}
      <4>1. About(<<"transfer", N>>)' = About(<<"transfer", N>>)
        \cup {<<b, Len(book[b]) + 1>> : b \in {c \in S : e[c].about = <<"transfer", N>>}}
        BY <1>4, AboutPosted
      <4> QED
        BY <3>1, <3>2, <4>1
    <3>4. /\ i \in DOMAIN book'[x.source] /\ book'[x.source][i] = e[x.source]
          /\ j \in DOMAIN book'[x.target] /\ book'[x.target][j] = e[x.target]
      BY <1>4, LastPosted
    <3> QED
      BY <1>4, <1>6, <2>1, <3>3, <3>4, SMTT(30) DEF TransferIn
  <2>2. CASE n # N
    <3>1. n \in DOMAIN transfer
      BY <1>5, <1>6, <2>2
    <3>2. \A b \in S : e[b].about # <<"transfer", n>>
      BY <1>4, <2>2
    <3> QED
      BY <1>4, <1>6, <3>1, <3>2, TransferKept DEF Agreed
  <2> QED
    BY <2>1, <2>2
<1>12. ASSUME NEW n \in Nat, n > Len(transfer')
       PROVE  About(<<"transfer", n>>)' = {}
  <2>1. n # N /\ n > Len(transfer)
    BY <1>5, <1>6, <1>12
  <2>2. \A b \in S : e[b].about # <<"transfer", n>>
    BY <1>4, <2>1
  <2>3. About(<<"transfer", n>>)' = About(<<"transfer", n>>)
    BY <1>4, <2>2, AboutKept
  <2> QED
    BY <2>1, <2>3 DEF Agreed, Unwritten
<1> QED
  BY <1>7, <1>9, <1>10, <1>11, <1>12 DEF Agreed, Unwritten

LEMMA InitAgreed == ASSUME Init PROVE Agreed
<1>1. \A a \in Account : book[a] = <<>> /\ DOMAIN book[a] = {} /\ account[a].balance = 0
  BY DEF Init, CashInit
<1>2. \A row : About(row) = {}
  BY <1>1 DEF About, EntriesMade
<1>3. /\ DOMAIN expense = {} /\ DOMAIN transfer = {} /\ DOMAIN payment = {}
  BY DEF Init, CashInit
<1>4. BooksReplay
  BY <1>1 DEF BooksReplay
<1> QED
  BY <1>2, <1>3, <1>4 DEF Agreed, Unwritten

(* Whatever staff ask and in whatever order it is done, every book replays *)
(* to its account's balance, and every expense, void, transfer and payment *)
(* to a supplier is in the books it should be in, to the sum, and once.    *)
THEOREM BooksAgree == Spec => []BookAgrees
<1>1. Agreed /\ Typed /\ [Next]_vars => Agreed'
  BY NextStep, ManualAgreed, SpentAgreed, VoidedAgreed, TransferredAgreed, PaidAgreed
     DEF Step
<1> QED
  BY <1>1, AgreedAgrees, InitAgreed, InitTyped, StepTyped, PTL DEF Spec

-----------------------------------------------------------------------------
(* Keys.                                                                   *)
EntriesKeyed ==
  \A x, y \in EntriesMade :
    LET key == book[x[1]][x[2]].key
    IN key = book[y[1]][y[2]].key /\ key # NoKey => x = y

LEMMA StepKeys ==
  ASSUME Typed, Step
  PROVE  \E S, e : Posts(S, e) /\ KeysNew(S, e)
<1>1. ASSUME NEW a, NEW delta, NEW key, NEW about, PostsOne(a, delta, key, about),
             key = NoKey \/ ~MovementByKey(key)
      PROVE  \E S, e : Posts(S, e) /\ KeysNew(S, e)
  BY <1>1 DEF PostsOne, KeysNew, Posting
<1>2. PostsNone => \E S, e : Posts(S, e) /\ KeysNew(S, e)
  BY NonePosts DEF KeysNew
<1>3. ASSUME NEW x \in Transfers, NEW about,
             Posts({x.source, x.target},
                   [b \in {x.source, x.target} |->
                      Posting(b, IF b = x.source THEN -x.amount ELSE x.amount,
                              NoKey, about)])
      PROVE  \E S, e : Posts(S, e) /\ KeysNew(S, e)
  BY <1>3 DEF KeysNew, Posting
<1> QED
  BY <1>1, <1>2, <1>3 DEF Step, NoDocument, MovedByHand, Spent, Voided, Transferred, Paid

LEMMA KeysPosted ==
  ASSUME Typed, EntriesKeyed, NEW S, NEW e, Posts(S, e), KeysNew(S, e)
  PROVE  EntriesKeyed'
<1>1. ASSUME NEW x \in EntriesMade'
      PROVE  /\ x = <<x[1], x[2]>> /\ x[1] \in Account
             /\ \/ x \in EntriesMade /\ book'[x[1]][x[2]] = book[x[1]][x[2]]
                \/ /\ x[1] \in S /\ x[2] = Len(book[x[1]]) + 1
                   /\ book'[x[1]][x[2]] = e[x[1]]
  <2>1. PICK a \in Account : \E i \in DOMAIN book'[a] : x = <<a, i>>
    BY DEF EntriesMade
  <2>2. PICK i \in DOMAIN book'[a] : x = <<a, i>>
    BY <2>1
  <2>3. CASE i \in DOMAIN book[a]
    BY <2>2, <2>3, BookPosted DEF EntriesMade
  <2>4. CASE i \notin DOMAIN book[a]
    <3>1. a \in S /\ i = Len(book[a]) + 1
      BY <2>2, <2>4, BookPosted
    <3> QED
      BY <2>2, <3>1, LastPosted
  <2> QED
    BY <2>3, <2>4
<1>2. SUFFICES ASSUME NEW x \in EntriesMade', NEW y \in EntriesMade',
                      book'[x[1]][x[2]].key = book'[y[1]][y[2]].key,
                      book'[x[1]][x[2]].key # NoKey
               PROVE  x = y
  BY DEF EntriesKeyed
<1>3. ASSUME NEW z \in EntriesMade, NEW a \in S, e[a].key # NoKey
      PROVE  book[z[1]][z[2]].key # e[a].key
  <2>1. z[1] \in Account /\ z[2] \in DOMAIN book[z[1]]
    BY DEF EntriesMade
  <2>2. ~MovementByKey(e[a].key)
    BY <1>3 DEF KeysNew
  <2> QED
    BY <1>3, <2>1, <2>2 DEF MovementByKey, KeyOn
<1>4. CASE x \in EntriesMade /\ book'[x[1]][x[2]] = book[x[1]][x[2]]
  <2>1. CASE y \in EntriesMade /\ book'[y[1]][y[2]] = book[y[1]][y[2]]
    BY <1>2, <1>4, <2>1 DEF EntriesKeyed
  <2>2. CASE y[1] \in S /\ book'[y[1]][y[2]] = e[y[1]]
    BY <1>2, <1>3, <1>4, <2>2
  <2> QED
    BY <1>1, <2>1, <2>2
<1>5. CASE x[1] \in S /\ x[2] = Len(book[x[1]]) + 1 /\ book'[x[1]][x[2]] = e[x[1]]
  <2>1. CASE y \in EntriesMade /\ book'[y[1]][y[2]] = book[y[1]][y[2]]
    BY <1>2, <1>3, <1>5, <2>1
  <2>2. CASE /\ y[1] \in S /\ y[2] = Len(book[y[1]]) + 1
             /\ book'[y[1]][y[2]] = e[y[1]]
    <3>1. S = {x[1]}
      BY <1>2, <1>5 DEF KeysNew
    <3> QED
      BY <1>1, <1>5, <2>2, <3>1
  <2> QED
    BY <1>1, <2>1, <2>2
<1> QED
  BY <1>1, <1>4, <1>5

LEMMA AppendKeyed ==
  ASSUME NEW R, NEW rows \in Seq(R), NEW x, KeyedOnceIn(rows), KeyNew(rows, x.key)
  PROVE  KeyedOnceIn(Append(rows, x))
<1>1. /\ DOMAIN rows = 1 .. Len(rows) /\ Len(rows) \in Nat
      /\ DOMAIN Append(rows, x) = 1 .. (Len(rows) + 1)
      /\ Append(rows, x)[Len(rows) + 1] = x
      /\ \A n \in DOMAIN rows : Append(rows, x)[n] = rows[n]
  OBVIOUS
<1> DEFINE new == Append(rows, x)
<1> HIDE DEF new
<1>2. /\ DOMAIN new = 1 .. (Len(rows) + 1) /\ new[Len(rows) + 1] = x
      /\ \A n \in DOMAIN rows : new[n] = rows[n]
  BY <1>1 DEF new
<1>3. KeyedOnceIn(new)
  BY <1>1, <1>2 DEF KeyedOnceIn, KeyNew
<1> QED
  BY <1>3 DEF new

LEMMA DocumentsKeyed ==
  ASSUME Typed, KeyedOnceIn(expense), KeyedOnceIn(transfer), KeyedOnceIn(payment), Step
  PROVE  KeyedOnceIn(expense)' /\ KeyedOnceIn(transfer)' /\ KeyedOnceIn(payment)'
<1>1. /\ expense \in Seq(Expenses) /\ transfer \in Seq(Transfers)
      /\ payment \in Seq(Payments)
  BY DEF Typed, CashTypeOK
<1>2. CASE NoDocument \/ MovedByHand
  BY <1>2 DEF NoDocument, MovedByHand, KeyedOnceIn
<1>3. CASE Spent
  BY <1>1, <1>3, AppendKeyed DEF Spent, KeyedOnceIn
<1>4. CASE Voided
  <2>1. PICK k \in DOMAIN expense : expense' = [expense EXCEPT ![k].status = "VOID"]
    BY <1>4 DEF Voided
  <2>2. DOMAIN expense' = DOMAIN expense
    BY <1>1, <2>1
  <2>3. ASSUME NEW n \in DOMAIN expense PROVE expense'[n].key = expense[n].key
    <3>1. n \in 1 .. Len(expense) /\ expense[n] \in Expenses
      BY <1>1
    <3>2. [expense[n] EXCEPT !.status = "VOID"].key = expense[n].key
      BY <3>1 DEF Expenses
    <3>3. expense'[n] = IF n = k THEN [expense[n] EXCEPT !.status = "VOID"] ELSE expense[n]
      BY <1>1, <2>1, <3>1
    <3> QED
      BY <3>2, <3>3
  <2> QED
    BY <1>4, <2>2, <2>3 DEF Voided, KeyedOnceIn
<1>5. CASE Transferred
  BY <1>1, <1>5, AppendKeyed DEF Transferred, KeyedOnceIn
<1>6. CASE Paid
  BY <1>1, <1>6, AppendKeyed DEF Paid, KeyedOnceIn
<1> QED
  BY <1>2, <1>3, <1>4, <1>5, <1>6 DEF Step

(* Goods sent back.                                                        *)
SendsTyped ==
  sentBack \in Seq(SentBackRow) /\ sending \in [Purchase -> Sending]

(* A return written has a key and damaged items that no other has.         *)
NewReturn(x) ==
  /\ x \in SentBackRow /\ sentBack' = Append(sentBack, x)
  /\ ~SentByKey(x.key)
  /\ \A n \in DOMAIN sentBack : sentBack[n].items \cap x.items = {}

LEMMA SendBackReturn ==
  ASSUME SendsTyped, NEW p \in Purchase, NEW lines \in Deliverable(p),
         NEW key \in ReturnKey \cup {NoReturnKey}, SendBack(p, lines, key)
  PROVE  (\E x : NewReturn(x)) /\ sending' \in [Purchase -> Sending]
<1> DEFINE x == [purchase |-> p, lines |-> lines, items |-> {}, key |-> key]
<1>1. lines \in [Item -> Nat]
  <2>1. lines \in [Item -> UNION {0 .. Ordered[p][i] : i \in Item}]
    BY DEF Deliverable
  <2>2. \A i \in Item : Ordered[p][i] \in Nat
    BY PurchasingAssumption
  <2>3. UNION {0 .. Ordered[p][i] : i \in Item} \subseteq Nat
    BY <2>2
  <2> QED
    BY <2>1, <2>3
<1>2. x \in SentBackRow
  BY <1>1 DEF SentBackRow, Counts
<1>3. sentBack' = Append(sentBack, x) /\ ~SentByKey(x.key) /\ x.items = {}
  BY DEF SendBack
<1>4. sending' = sending
  BY DEF SendBack
<1> HIDE DEF x
<1> QED
  BY <1>2, <1>3, <1>4 DEF NewReturn, SendsTyped

LEMMA SendDamagedReturn ==
  ASSUME SendsTyped, NEW p \in Purchase, SendDamaged(p)
  PROVE  /\ UNCHANGED sentBack \/ \E x : NewReturn(x)
         /\ sending' \in [Purchase -> Sending]
<1> DEFINE s == sending[p]
           x == [purchase |-> p, lines |-> None, items |-> s.items, key |-> s.key]
<1>1. /\ s.items \in SUBSET Damaged /\ s.key \in ReturnKey \cup {NoReturnKey}
  BY DEF SendsTyped, Sending
<1>2. sending' \in [Purchase -> Sending]
  <2>1. NotSending \in Sending
    BY DEF NotSending, Sending
  <2> QED
    BY <2>1 DEF SendDamaged, SendsTyped
<1>3. CASE UNCHANGED sentBack
  BY <1>2, <1>3
<1>4. CASE ~UNCHANGED sentBack
  <2>1. sentBack' = Append(sentBack, x) /\ GoneBack(s) = {} /\ ~SentByKey(s.key)
    BY <1>4 DEF SendDamaged
  <2>2. x \in SentBackRow
    BY <1>1 DEF SentBackRow, Counts, None
  <2>3. \A n \in DOMAIN sentBack : sentBack[n].items \cap s.items = {}
    BY <2>1 DEF GoneBack, Sent
  <2>4. x.items = s.items /\ x.key = s.key
    OBVIOUS
  <2> HIDE DEF x, s
  <2> QED
    BY <1>2, <2>1, <2>2, <2>3, <2>4 DEF NewReturn
<1> QED
  BY <1>3, <1>4

LEMMA ChooseKept ==
  ASSUME SendsTyped, NEW p \in Purchase, NEW items \in SUBSET Damaged,
         NEW key \in ReturnKey \cup {NoReturnKey}, ChooseDamaged(p, items, key)
  PROVE  UNCHANGED sentBack /\ sending' \in [Purchase -> Sending]
<1>1. [items |-> items, seen |-> Sent(items), key |-> key] \in Sending
  BY DEF Sending, Sent
<1> QED
  BY <1>1 DEF ChooseDamaged, SendsTyped

LEMMA StepReturns ==
  ASSUME SendsTyped, [Next]_vars
  PROVE  /\ UNCHANGED sentBack \/ \E x : NewReturn(x)
         /\ sending' \in [Purchase -> Sending]
<1>1. CASE UNCHANGED <<sentBack, sending>>
  BY <1>1 DEF SendsTyped
<1>2. CASE PurchasingNext
  <2>1. ASSUME NEW p \in Purchase, Draft(p) \/ SendOrder(p) \/ CancelPurchase(p)
        PROVE  UNCHANGED <<sentBack, sending>>
    BY <2>1 DEF Draft, SendOrder, CancelPurchase
  <2>2. ASSUME NEW p \in Purchase, NEW lines, ReceiveGoods(p, lines)
        PROVE  UNCHANGED <<sentBack, sending>>
    BY <2>2 DEF ReceiveGoods
  <2>3. ASSUME NEW i \in Item, Sell(i) PROVE UNCHANGED <<sentBack, sending>>
    BY <2>3 DEF Sell
  <2>4. ASSUME NEW d \in Damaged, BringBackDamaged(d)
        PROVE  UNCHANGED <<sentBack, sending>>
    BY <2>4 DEF BringBackDamaged
  <2> QED
    BY <1>1, <1>2, <2>1, <2>2, <2>3, <2>4, SendBackReturn, SendDamagedReturn, ChooseKept
       DEF PurchasingNext
<1> QED
  BY <1>1, <1>2 DEF Next, vars, purchaseVars, cashVars, Pay, AskPay

LEMMA ReturnsOnce ==
  ASSUME SendsTyped, SentBackOnce, [Next]_vars
  PROVE  SendsTyped' /\ SentBackOnce'
<1>1. CASE UNCHANGED sentBack
  BY <1>1, StepReturns DEF SendsTyped, SentBackOnce
<1>2. ASSUME NEW x, NewReturn(x) PROVE SendsTyped' /\ SentBackOnce'
  <2> DEFINE k == Len(sentBack) + 1
  <2>1. /\ sentBack \in Seq(SentBackRow) /\ x \in SentBackRow
        /\ sentBack' = Append(sentBack, x)
    BY <1>2 DEF NewReturn, SendsTyped
  <2>2. SendsTyped'
    BY <2>1, StepReturns DEF SendsTyped
  <2>3. /\ DOMAIN sentBack = 1 .. Len(sentBack) /\ Len(sentBack) \in Nat
        /\ DOMAIN sentBack' = 1 .. k /\ sentBack'[k] = x
        /\ \A n \in DOMAIN sentBack : sentBack'[n] = sentBack[n]
    BY <2>1
  <2>4. \A n \in DOMAIN sentBack :
          /\ sentBack[n].items \cap x.items = {}
          /\ sentBack[n].key = x.key => x.key = NoReturnKey
    BY <1>2 DEF NewReturn, SentByKey
  <2>5. SentBackOnce'
    <3> SUFFICES ASSUME NEW m \in DOMAIN sentBack', NEW n \in DOMAIN sentBack', m # n
                 PROVE  /\ sentBack'[m].items \cap sentBack'[n].items = {}
                        /\ sentBack'[m].key = sentBack'[n].key
                             => sentBack'[m].key = NoReturnKey
      BY DEF SentBackOnce
    <3>1. CASE m = k
      <4>1. n \in DOMAIN sentBack
        BY <2>3, <3>1
      <4> QED
        BY <2>3, <2>4, <3>1, <4>1
    <3>2. CASE n = k
      <4>1. m \in DOMAIN sentBack
        BY <2>3, <3>2
      <4> QED
        BY <2>3, <2>4, <3>2, <4>1
    <3>3. CASE m # k /\ n # k
      <4>1. m \in DOMAIN sentBack /\ n \in DOMAIN sentBack
        BY <2>3, <3>3
      <4> QED
        BY <2>3, <4>1 DEF SentBackOnce
    <3> QED
      BY <3>1, <3>2, <3>3
  <2> QED
    BY <2>2, <2>5
<1> QED
  BY <1>1, <1>2, StepReturns

(* However often a movement, an expense, a transfer, a payment or a return *)
(* to a supplier is retried it is made once, and however many orders a     *)
(* damaged item is sent back on it is credited once.                       *)
THEOREM NothingMadeTwice == Spec => []NothingTwice
<1> DEFINE Keyed == /\ EntriesKeyed /\ KeyedOnceIn(expense) /\ KeyedOnceIn(transfer)
                    /\ KeyedOnceIn(payment) /\ SendsTyped /\ SentBackOnce
<1>1. Init => Keyed
  <2> SUFFICES ASSUME Init PROVE Keyed
    OBVIOUS
  <2>1. EntriesMade = {}
    BY DEF Init, CashInit, EntriesMade
  <2>2. /\ DOMAIN expense = {} /\ DOMAIN transfer = {} /\ DOMAIN payment = {}
    BY DEF Init, CashInit
  <2>3. sentBack = <<>> /\ DOMAIN sentBack = {} /\ sending \in [Purchase -> Sending]
    BY DEF Init, PurchasingInit, NotSending, Sending
  <2> QED
    BY <2>1, <2>2, <2>3 DEF EntriesKeyed, KeyedOnceIn, SendsTyped, SentBackOnce
<1>2. Typed /\ Keyed /\ [Next]_vars => Keyed'
  <2> SUFFICES ASSUME Typed, Keyed, [Next]_vars PROVE Keyed'
    OBVIOUS
  <2>1. Step
    BY NextStep
  <2>2. EntriesKeyed'
    BY <2>1, StepKeys, KeysPosted
  <2>3. KeyedOnceIn(expense)' /\ KeyedOnceIn(transfer)' /\ KeyedOnceIn(payment)'
    BY <2>1, DocumentsKeyed
  <2>4. SendsTyped' /\ SentBackOnce'
    BY ReturnsOnce
  <2> QED
    BY <2>2, <2>3, <2>4
<1>3. Keyed => NothingTwice
  BY DEF NothingTwice, CashKeyedOnce, EntriesKeyed
<1> HIDE DEF Keyed
<1> QED
  BY <1>1, <1>2, <1>3, InitTyped, StepTyped, PTL DEF Spec

-----------------------------------------------------------------------------
(* Whatever transfers cross, of any number of clients, no ring of them     *)
(* waits for itself: the second row a transfer asks for is above the one   *)
(* it holds (lockAccounts), so one that holds the highest row held waits   *)
(* for nobody.                                                             *)
THEOREM NoRingWaits == Spec => []NoDeadlock
<1>1. ASSUME Typed, NEW c \in Client, HasFirst(c)
      PROVE  /\ First(desk[c]) \in Account
             /\ Account \subseteq Nat => First(desk[c]) < Second(desk[c])
  BY <1>1, AskedTransfer DEF HasFirst, First, Second
<1>2. Typed => NoDeadlock
  <2> SUFFICES ASSUME Typed, NEW ring \in (SUBSET Client) \ {{}},
                      \A c \in ring : \E d \in ring : WaitsFor(c, d)
               PROVE  FALSE
    BY DEF NoDeadlock
  <2> DEFINE held == {First(desk[c]) : c \in ring}
  <2>1. \A c \in ring : c \in Client /\ HasFirst(c)
    BY DEF WaitsFor
  <2>2. held \subseteq Account /\ held # {}
    BY <1>1, <2>1
  <2>3. Account \subseteq Nat => \E x \in held : \A y \in held : y <= x
    <3>1. IsFiniteSet(Account)
      BY CashBookAssumption
    <3> HIDE DEF held
    <3> QED
      BY <2>2, <3>1, Greatest
  <2>4. Account \subseteq Nat
    BY CashBookAssumption
  <2>5. PICK c \in ring : \A y \in held : y <= First(desk[c])
    BY <2>3, <2>4
  <2>6. PICK d \in ring : WaitsFor(c, d)
    OBVIOUS
  <2>7. Second(desk[c]) \in held
    BY <2>6 DEF WaitsFor
  <2>8. /\ First(desk[c]) < Second(desk[c]) /\ Second(desk[c]) <= First(desk[c])
        /\ First(desk[c]) \in Nat /\ Second(desk[c]) \in Nat
    BY <1>1, <2>1, <2>2, <2>4, <2>5, <2>7
  <2> QED
    BY <2>8
<1> QED
  BY <1>2, InitTyped, StepTyped, PTL DEF Spec
=============================================================================
