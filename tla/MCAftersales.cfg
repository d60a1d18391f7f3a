SPECIFICATION Spec
CONSTANTS
  l1 = l1
  l2 = l2
  r1 = r1
  r2 = r2
  Line = {l1, l2}
  Quantity <- MCQuantity
  LineTotal <- MCLineTotal
  TaxOnTop <- MCTaxOnTop
  Discount = 1
  Shipping = 1
  Fault = {r2}
  GrandTotal = 4
  Return = {r1, r2}
  NoReturn = NoReturn
  Exchange = {e1}
  NoExchange = NoExchange
  Key = {k1}
  NoKey = NoKey
  Given = {2}
  Parcel = {p1}
  Event = {"DISPATCHED", "DELIVERED", "RETURNED"}
  MaxEdits = 1
  MaxVoids = 2
CONSTRAINT AtMostTwo
CHECK_DEADLOCK FALSE
INVARIANTS
  TypeOK
  BackWithinSold
  ReturnPaidOnce
  ReturnsAddUp
  ExchangedOnce
  OrderFollowsParcels
PROPERTIES
  RefundedWhole
  CancelledKeepsNothing
