---------------------------- MODULE MCFulfilment ----------------------------
(* Two orders of one variant, two clicks, two keys, one coupon good once,  *)
(* two workers of which one may die.                                       *)
EXTENDS Fulfilment, TLC

CONSTANTS o1, o2, v1, c1, c2, k1, k2, u1, w1, w2

Symmetric == Permutations(Order) \cup Permutations(Click)
             \cup Permutations(Key)
=============================================================================
