SPECIFICATION Spec
CONSTANTS
  b1 = b1  b2 = b2  v1 = v1  v2 = v2  o1 = o1  o2 = o2  c1 = c1  c2 = c2  k1 = k1
  Branch = {b1, b2}
  Variant = {v1, v2}
  Order = {o1, o2}
  Client = {c1, c2}
  Key = {k1}
  NoKey = NoKey
  NoBranch = NoBranch
  NoOrder = NoOrder
  NoRequest = NoRequest
  AllowOversell = FALSE
  MaxQty = 1
  MaxDelivery = 2
  MaxEntries = 3
SYMMETRY Symmetric
PROPERTIES
  ArrivesOnceReceived
