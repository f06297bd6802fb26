CONSTANTS
    submitter1 = submitter1
    submitter2 = submitter2
    owner = owner
    thief1 = thief1
    thief2 = thief2
    t1 = t1
    t2 = t2
    t3 = t3
    t4 = t4
    NoTask = NoTask
    NoProc = NoProc
    Deques = {0}
    Procs <- AllProcs
    Uses <- TheUses
    Tasks <- AllTasks
    Cap <- TwoThenFour
    MaxGrow = 1
    l1 = l1
    l2 = l2
    Loggers = {l1, l2}
    NoLogger = nologger
    RingSize = 4
    FlushAt = 2
    MaxRings = 2
    MaxLines <- FiveAndOne
    Keys = {a, b, c}
    NoKey = nokey
    MaxKeys = 2
    Capacity = 4
    Refill = 1
    Cost = 2
    MaxTime = 4
    MaxFresh = 2
SPECIFICATION StructuresSpec
INVARIANTS TakenOnce NothingLost LinesKept KeyRate 
PROPERTY Linearizable
CHECK_DEADLOCK FALSE
