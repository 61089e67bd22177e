SPECIFICATION PartsSpec
CONSTANTS
  r1 = r1
  a = a
  b = b
  p1 = p1
  t1 = t1
  t2 = t2
  l1 = l1
  l2 = l2
  x1 = x1
  Rows = {l1, l2, r1}
  Schedulers = {a, b}
  Processors = {t1, t2}
  Interval = 1
  Retention = 0
  Backoff = 0
  Horizon = 1
  Projects = {p1}
  Tasks = {t1, t2}
  Labels = {l1, l2}
  Calls = {a, b}
  MaxStamps = 3
  MaxRequests = 4
  Files = {l1, l2, r1}
  Comments = {x1}
  Users = {t1, t2}
  Callers = {a, b}
  Cap = 1
  PagedTasks = {1, 2, 3}
  PageSize = 1
  MaxWrites = 2
  Clients = {a, b}
  Capacity = 3
  Refill = 2
  Cost = 1
  Slack = 1
  BucketHorizon = 4
  MaxLosses = 1
SYMMETRY Symmetry
CHECK_DEADLOCK FALSE
INVARIANTS
  PartsTypeOK
  CadenceKept
  HiddenWithProject
  ToldIsTrue
  LabelsAreOneRequest
  CapExceededByOverlap
  FilesMatchRows
  PagesComplete
  RateHolds
