CONSTANTS
    owner = owner
    client = client
    t1 = t1
    t2 = t2
    NoTask = NoTask
    NoProc = NoProc
    NWorkers = 2
    Clients <- OwnerAlone
    Owner = owner
    Procs <- MCProcs
    Deques <- MCWorkers
    Tasks = {t1, t2}
    Cap <- TwoThenFour
    MaxGrow = 1
    SpinLimit = 1
    IdxMax = 7
    SpawnMayFail = FALSE
    MayDestroy = FALSE
    QuietDestroy = TRUE
SPECIFICATION Spec
INVARIANT WaitMeansDone
CHECK_DEADLOCK FALSE
