--------------------------- MODULE MCCouponEdits ---------------------------
(* One coupon good once, two orders, one edit of the coupon at a time.     *)
EXTENDS CouponEdits

CONSTANTS o1, o2, v1, c1, k1, k2, u1, w1
=============================================================================
