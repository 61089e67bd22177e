SPECIFICATION MCSpec
CONSTANTS
  h1 = h1
  h2 = h2
  v1 = v1
  v2 = v2
  p1 = p1
  p2 = p2
  Hooks = {h1, h2}
  Events = {v1, v2}
  Dispatchers = {p1, p2}
  MaxAttempts = 2
  Cap = 1
  BatchSize = 2
  MaxRedeliveries = 1
  MaxStalls = 1
  MaxLosses = 1
CHECK_DEADLOCK FALSE
INVARIANTS
  TypeOK
  CapHolds
  StatusIsEarned
  DuplicatesCostFaults
  AttemptsCostFaults
PROPERTY
  EventuallySettled
