SPECIFICATION SpecEdited
CONSTANTS
  o1 = o1  o2 = o2  v1 = v1  c1 = c1  k1 = k1  k2 = k2  u1 = u1  w1 = w1
  Order = {o1, o2}
  Variant = {v1}
  Click = {c1}
  NoClick = NoClick
  Key = {k1, k2}
  NoKey = NoKey
  Customer = {u1}
  NoCustomer = NoCustomer
  Worker = {w1}
  AllowOversell = FALSE
  UsageLimit = 1
  PerCustomer = 2
  MaxQty = 1
  MaxShelf = 2
  MaxCrashes = 0
  NoEdit = NoEdit
INVARIANTS
  CouponLimits
