SPECIFICATION Spec
CONSTANTS
  e1 = e1
  s1 = s1
  w1 = w1
  w2 = w2
  w3 = w3
  d1 = d1
  Jobs = {e1, s1}
  Exports = {e1}
  Workers = {w1, w2}
  Dispatchers = {d1}
  MaxAttempts = 2
  WorkersMayStall = FALSE
  QueueBound = 2
  MaxFaults = 1
CHECK_DEADLOCK FALSE
SYMMETRY Symmetry
INVARIANTS
  OneProcessorPerJob
  ResultDescribesFile
PROPERTY
  LifecycleSpec
