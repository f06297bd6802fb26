CONSTANTS
  c1 = c1
  c2 = c2
  c3 = c3
  k1 = k1
  Keys = {k1}
  NoKey = nokey
  MaxKeys = 1
  Capacity = 1
  Refill = 1
  Cost = 1
  MaxTime = 1
  MaxFresh = 1
  Servers = {"api", "proxy"}
  Conns = {c1, c2, c3}
  NoConn = noconn
  Requests <- MCRequests
  MaxThreads = 2
  MaxFds = 2
  Fickle = {c1}
  MaxRows = 1
  SpawnMayFail = TRUE
SPECIFICATION FairSpec
INVARIANTS CountExact OwnSocket MutexGivenBack
PROPERTIES Finishes StopsAtNextClient
CHECK_DEADLOCK FALSE
