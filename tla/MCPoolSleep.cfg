CONSTANTS
    owner = owner
    client = client
    t1 = t1
    t2 = t2
    NoTask = NoTask
    NoProc = NoProc
    NWorkers = 2
    Clients <- OwnerAndClient
    Owner = owner
    Procs <- MCProcs
    Deques <- MCWorkers
    Tasks = {t1}
    Cap <- TwoThenFour
    MaxGrow = 1
    SpinLimit = 1
    IdxMax = 0
    SpawnMayFail = TRUE
    MayDestroy = TRUE
    QuietDestroy = TRUE
SPECIFICATION FairSpec
INVARIANTS NoLostWakeup WaitersWoken ShutdownSeen
PROPERTY DestroyEnds
CHECK_DEADLOCK FALSE
