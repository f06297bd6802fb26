CONSTANTS
  d1 = d1
  d2 = d2
  w1 = w1
  w2 = w2
  Daemons = {d1, d2}
  Workers = {w1, w2}
  Clients = {c1}
  Servers = {c1}
  Home <- TwoHomes
  NoWorker = none
  Priorities = {0}
  MaxJobs = 1
  MaxManual = 0
  MaxTries = 2
  MaxEvents = 5
  MaxRetries = 1
  Batch = 2
  MayStop = FALSE
  MayCrash = TRUE
  MayFail = TRUE
  Purging = TRUE
SPECIFICATION FairSpec
INVARIANTS OneRunner FollowerComplete
PROPERTY Delivered
CHECK_DEADLOCK FALSE
