------------------------------ MODULE MCStock ------------------------------
(* Stock on two branches and two variants, two orders, two requests in     *)
(* flight that may carry the same key.                                     *)
EXTENDS Stock, TLC

CONSTANTS b1, b2, v1, v2, o1, o2, c1, c2, k1

Symmetric == Permutations(Order) \cup Permutations(Client)
             \cup Permutations(Branch) \cup Permutations(Variant)
=============================================================================
