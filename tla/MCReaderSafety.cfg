SPECIFICATION Spec
SYMMETRY Interchangeable
CONSTANTS
    c1 = c1
    c2 = c2
    w1 = w1
    w2 = w2
    r1 = r1
    r2 = r2
    r3 = r3
    NULL = NULL
    Conns = {c1}
    Workers = {w1, w2}
    Requests = {r1, r2, r3}
    Pipelining = {c1}
    Stalling = {c1}
    LineKinds = {"attr", "malformed", "checkserver"}
    States = {"dunno", "bcc"}
    Silent = {"bcc"}
    RequestLineLimit = 2
    MaxRequests = 2
    MaxInput = 2
    MayStop = TRUE
INVARIANTS
    RefsAreHolders
    NoUseAfterFree
    OneLaunch
    OneOwner
\* A safety property alone, so the symmetry is sound.
 
CHECK_DEADLOCK FALSE
