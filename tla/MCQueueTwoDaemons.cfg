CONSTANTS
  d1 = d1
  d2 = d2
  w1 = w1
  w2 = w2
  Daemons = {d1, d2}
  Workers = {w1, w2}
  Clients = {c1}
  Servers = {}
  Home <- TwoHomes
  NoWorker = none
  Priorities = {0}
  MaxJobs = 1
  MaxManual = 1
  MaxTries = 6
  MaxEvents = 20
  MaxRetries = 2
  Batch = 0
  MayStop = TRUE
  MayCrash = FALSE
  MayFail = FALSE
  Purging = TRUE
SPECIFICATION Spec
INVARIANTS OneRunner NoOrphan RetryExcess
PROPERTY LifecycleSpec
CHECK_DEADLOCK FALSE
