SPECIFICATION Spec
CONSTANTS
  p1 = p1  p2 = p2  p3 = p3  c1 = c1  c2 = c2  e1 = e1  e2 = e2  k1 = k1
  Payment = {p1, p2, p3}
  First = p1
  NoPayment = NoPayment
  Client = {c1, c2}
  Idle = Idle
  Event = {e1, e2}
  Key = {k1}
  NoKey = NoKey
  GrandTotal = 2
  MaxRefunds = 2
SYMMETRY Symmetric
CONSTRAINT LeftOutOnce
INVARIANTS
  TypeOK RefundsWithinPaid BookAgrees KeyedOnce NoCaptureLost
PROPERTIES
  CapturedStays SettledEventHolds
CHECK_DEADLOCK FALSE
