SPECIFICATION Spec
CONSTANTS
    e1 = e1
    e2 = e2
    NULL = NULL
    Threads = {t1, t2}
    Events = {e1, e2}
    Second = 2
    Delay <- MCDelay
    MaxTime = 6
INVARIANTS
    EventRefs
    OneProcessor
    NeverEarly
PROPERTIES
    DueEventsRun
CHECK_DEADLOCK FALSE
