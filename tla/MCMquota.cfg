SPECIFICATION Spec
CONSTANTS
    u1 = u1
    u2 = u2
    u3 = u3
    d1 = d1
    k = k
    NULL = NULL
    Users = {u1, u2, u3}
    DomainOf <- MCDomainOf
    Keys = {k}
    MaxCount = 2
    Configs <- MCConfigs
    NoMatch = "first"
    MinutesPerHour = 2
    HoursPerDay = 2
    MaxLag = 1
SYMMETRY AccountsOfDomain
INVARIANTS
    GlobalLimitKept
    WindowsNest
    HourOfMinutes
    DomainWithinAccounts
    PeriodCoversNow
    
