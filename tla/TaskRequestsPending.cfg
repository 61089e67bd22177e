SPECIFICATION Spec
CONSTANTS
  k1 = k1
  k2 = k2
  w1 = w1
  r1 = r1
  Writers = {k1, k2, w1}
  Keyed = {k1, k2}
  Readers = {r1}
  MaxFaults = 0
CHECK_DEADLOCK FALSE
INVARIANTS
  PendingMeansInProgress
