SPECIFICATION PartsSpec
CONSTANTS
  k1 = k1
  k2 = k2
  w1 = w1
  r1 = r1
  Writers = {k1, k2, w1}
  Keyed = {k1, k2}
  Readers = {r1}
  MaxFaults = 2
  q1 = q1
  q2 = q2
  q3 = q3
  Requests = {q1, q2, q3}
CHECK_DEADLOCK FALSE
INVARIANTS
  PartsTypeOK
  ReadYourWrites
  CreationsCostFaults
PROPERTY
  KeyReleased
