SPECIFICATION PartsSpec
CONSTANTS
  t1 = t1
  t2 = t2
  a = a
  b = b
  n1 = n1
  n2 = n2
  k1 = k1
  Tasks = {t1, t2}
  DueAt <- TwoDueDates
  DueSoon = 1
  Window = 2
  Limit = 2
  Sweeps = {a, b}
  Horizon = 3
  MaxFaults = 1
  Notices = {n1, n2}
  Keys = {k1}
  Notifiers = {a, b}
  MaxAttempts = 2
  BatchSize = 2
  MaxLosses = 1
CHECK_DEADLOCK FALSE
INVARIANTS
  PartsTypeOK
  RemindersSpaced
  MailsCostFaults
PROPERTY
  EveryOverdueTaskReminded
