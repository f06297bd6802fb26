CONSTANTS
  f1 = f1
  f2 = f2
  s1 = s1
  s2 = s2
  q1 = q1
  q2 = q2
  q3 = q3
  Files = {f1, f2}
  NoFile = nofile
  Stages = {s1, s2}
  StageOf <- TwoStages
  MaxSlots = 2
  MaxPairs = 1
  MaxVersion = 2
  Users = {u1}
  MayPair = FALSE
  MayWatch = TRUE
  Queries = {q1, q2, q3}
  HostOf <- TwoHosts
  Workers = {w1}
  NoQuery = noquery
  x1 = x1
  x2 = x2
  x3 = x3
  Clients = {x1, x2, x3}
  NoClient = noclient
  MaxConns = 2
  BufSize = 2
  HeadSize = 2
  MaxSay <- Says
  MaxBody = 2
  Window = 1
SPECIFICATION LibrarySpec
INVARIANT NoStaleCall
CHECK_DEADLOCK FALSE
