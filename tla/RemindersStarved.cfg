SPECIFICATION FairSpec
CONSTANTS
  t1 = t1
  t2 = t2
  a = a
  b = b
  Tasks = {t1, t2}
  DueAt <- TwoDueDates
  DueSoon = 1
  Window = 2
  Limit = 1
  Sweeps = {a}
  Horizon = 3
  MaxFaults = 0
CHECK_DEADLOCK FALSE
PROPERTY
  EveryOverdueTaskReminded
