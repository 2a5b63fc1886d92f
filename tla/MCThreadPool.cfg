SPECIFICATION Spec
CONSTANTS
    t1 = t1
    t2 = t2
    t3 = t3
    x1 = x1
    y1 = y1
    NULL = NULL
    Threads = {t1, t2, t3}
    Tasks = {x1, y1}
    Base = {t1, t2}
    MaxLimit = 3
    AddStep = 1
    RemoveStep = 1
    AutoRemove = TRUE
    Preemptive = TRUE
    MaxCalls = 1
    OverlappingRemovals = FALSE
    ExitDuringRemoval = FALSE
INVARIANTS
    TasksInOnePlace
    EveryoneCollected
    SomeThread
    PoolOutlivesThreads
PROPERTIES
    TasksRun
    ExitEnds
CHECK_DEADLOCK FALSE
