SPECIFICATION Spec
CONSTANTS
  s1 = s1  b1 = b1  b2 = b2  v1 = v1  h1 = h1  h2 = h2
  Sheet = {s1}
  Branch = {b1, b2}
  Variant = {v1}
  Handler = {h1, h2}
  Idle = Idle
  Uncounted = Uncounted
  NoBranch = NoBranch
  MaxQty = 1
INVARIANTS
  TypeOK NothingAppliedUncounted
