SPECIFICATION Spec
CONSTANTS
  MaxOnHand = 2
  MaxEntries = 3
INVARIANTS
  DriftIsFromOutside
