CONSTANTS
  d1 = d1
  d2 = d2
  w1 = w1
  w2 = w2
  Daemons = {d1}
  Workers = {w1, w2}
  Clients = {c1}
  Servers = {}
  Home <- OneHome
  NoWorker = none
  Priorities = {0, 1}
  MaxJobs = 2
  MaxManual = 0
  MaxTries = 4
  MaxEvents = 20
  MaxRetries = 2
  Batch = 0
  MayStop = FALSE
  MayCrash = FALSE
  MayFail = FALSE
  Purging = FALSE
SPECIFICATION FairSpec
INVARIANT EveryChangeLogged
PROPERTY Settles
CHECK_DEADLOCK FALSE
