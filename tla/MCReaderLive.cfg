SPECIFICATION FinishingSpec
CONSTANTS
    c1 = c1
    c2 = c2
    w1 = w1
    w2 = w2
    r1 = r1
    r2 = r2
    r3 = r3
    NULL = NULL
    Conns = {c1, c2}
    Workers = {w1}
    Requests = {r1, r2}
    Pipelining = {}
    Stalling = {c1}
    LineKinds = {}
    States = {"dunno", "bcc"}
    Silent = {"bcc"}
    RequestLineLimit = 1
    MaxRequests = 1
    MaxInput = 1
    MayStop = FALSE
PROPERTIES
    Served
CHECK_DEADLOCK FALSE
