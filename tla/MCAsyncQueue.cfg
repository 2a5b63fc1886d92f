SPECIFICATION QueueSpec
CONSTANTS
    t1 = t1
    t2 = t2
    t3 = t3
    x1 = x1
    y1 = y1
    NONE = NONE
    Threads = {t1, t2, t3}
    Items = {x1, y1}
    MaxLength = 2
    MaxBatch = 1
INVARIANTS
    WaitersCounted
    NoLostWakeup
PROPERTIES
    Delivers
CHECK_DEADLOCK FALSE
