SPECIFICATION Spec
CONSTANTS
  p1 = p1  p2 = p2  i1 = i1  d1 = d1  c1 = c1  c2 = c2  k1 = k1
  Account = {1, 2}
  Client = {c1, c2}
  Idle = Idle
  Key = {k1}
  NoKey = NoKey
  Amount = {1}
  MaxEntries = 3
  Purchase = {p1, p2}
  Item = {i1}
  Ordered <- MCOrdered
  UnitCost <- MCUnitCost
  GrandTotal <- MCGrandTotal
  Damaged = {d1}
  ItemOf <- MCItemOf
  ReturnKey = {k1}
  NoReturnKey = NoReturnKey
  NoPurchase = NoPurchase
  NoAccount = NoAccount
  Default = 2
SYMMETRY Symmetric
CONSTRAINT AFew
INVARIANTS
  TypeOK BookAgrees NothingTwice SupplierAccountsAddUp NoDeadlock
PROPERTIES
  NoOverdraft PaidWithinOwed
