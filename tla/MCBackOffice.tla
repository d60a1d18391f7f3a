---------------------------- MODULE MCBackOffice ----------------------------
(* Two accounts, two clerks, two orders of the same item at 1 each: two    *)
(* units for 2 on the one, one for 1 on the other.                         *)
EXTENDS BackOffice, TLC

CONSTANTS p1, p2, i1, d1, c1, c2, k1

MCOrdered == (p1 :> (i1 :> 2)) @@ (p2 :> (i1 :> 1))
MCUnitCost == (p1 :> (i1 :> 1)) @@ (p2 :> (i1 :> 1))
MCGrandTotal == (p1 :> 2) @@ (p2 :> 1)
MCItemOf == d1 :> i1

Symmetric == Permutations(Client)

InUse == {p \in Purchase : purchase[p].status # "NONE"}
Opened == {a \in Account : account[a].state # "NONE"}
Odd == {a \in Opened : account[a].state = "CLOSED" \/ account[a].overdraft}

ByHand ==
  Cardinality({e \in EntriesMade : book[e[1]][e[2]].about = Manual})

Asked ==
  Cardinality(Busy) + ByHand + Len(expense) + Len(transfer) + Len(payment)

(* The goods of two orders, and a payment no account posts.                *)
Goods == Opened = {} /\ Asked <= 1

(* Two accounts, and three of what staff ask of them; two, while one of    *)
(* them is closed or may be overdrawn.                                     *)
Money ==
  /\ InUse = {} /\ Asked + Cardinality(Odd) <= 3 /\ payment = <<>>
  /\ \A c \in Busy : desk[c].kind # "pay"

(* An order and its account: an opening balance and two payments, no sale. *)
Both ==
  /\ InUse \subseteq {p1} /\ Cardinality(Opened) <= 1 /\ sold = None
  /\ ByHand <= 1 /\ Asked - ByHand <= 2
  /\ \A c \in Busy : desk[c].kind = "pay"

AFew ==
  /\ Len(sentBack) <= 2
  /\ Goods \/ Money \/ Both
=============================================================================
