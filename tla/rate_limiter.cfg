CONSTANTS
  Keys = {k1, k2}
  WindowMs = 3
  Limit = 2
  SweepAbove = 1
  MaxTime = 7
  MaxCount = 3
SPECIFICATION Spec
CHECK_DEADLOCK FALSE
SYMMETRY Addresses
INVARIANTS
  AtMostTwice
PROPERTIES
  RefusedOnlyWhenFull
