\* The life of a process, started again once.
SPECIFICATION Spec
CONSTANTS
    Threads = {t1, t2}
    Ports = {"p1"}
    Files <- MCFiles
    ModName <- MCModName
    RunNodes <- MCRunNodes
    Actions = {"hold", "backtrace", "reexec"}
    MaxStarts = 2
    NULL = NULL
CHECK_DEADLOCK FALSE
INVARIANTS
    CodeMapped
    CtxHeld
PROPERTY
    SignalEnds
