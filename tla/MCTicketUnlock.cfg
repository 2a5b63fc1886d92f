SPECIFICATION Spec
CONSTANTS
    NULL = NULL
    Workers = {w1, w2}
    Tickets = {t1}
    Plan <- MCPlan
    OutgoingIp <- MCMissingIp
    MaxCount = 2
    DaysPerMonth = 2
    MaxDays = 2
    MaxCrashes = 1
INVARIANTS
    TotalExact
