----------------------------- MODULE MCPayments -----------------------------
(* One order of two units of money: the payment of checkout and two more,  *)
(* two requests in flight, two events, one key.                            *)
EXTENDS Payments, TLC

CONSTANTS p1, p2, p3, c1, c2, e1, e2, k1

Symmetric == Permutations(Client) \cup Permutations(Event)
             \cup Permutations(Payment \ {First})

(* A posting is left out once; nothing is followed past a second one.      *)
LeftOutOnce ==
  Cardinality(posted) + 1
    >= Cardinality({p \in Payment : payment[p].status \in CAPTURED_STATES})
       + Len(refunds)
=============================================================================
