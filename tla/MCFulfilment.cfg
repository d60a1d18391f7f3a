SPECIFICATION Spec
CONSTANTS
  o1 = o1  o2 = o2  v1 = v1  c1 = c1  c2 = c2  k1 = k1  k2 = k2  u1 = u1
  w1 = w1  w2 = w2
  Order = {o1, o2}
  Variant = {v1}
  Click = {c1, c2}
  NoClick = NoClick
  Key = {k1, k2}
  NoKey = NoKey
  Customer = {u1}
  NoCustomer = NoCustomer
  Worker = {w1}
  AllowOversell = FALSE
  UsageLimit = 1
  PerCustomer = 1
  MaxQty = 1
  MaxShelf = 2
  MaxCrashes = 0
SYMMETRY Symmetric
INVARIANTS
  TypeOK ReservedIsOwed CouponLimits UsedCountsLive OneOrderPerKey
PROPERTIES
  CancelKeepsNoMoney KeepsPromises
