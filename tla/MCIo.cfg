SPECIFICATION Spec
CONSTANTS
    NULL = NULL
    Listeners = {l1}
    Clients = {c1}
    Shared = {s1}
    Available = {"select", "poll", "epoll"}
    Limit <- MCLimit
    MaxChanges = 2
    Overlapping = FALSE
INVARIANTS
    OneReference
    GroupMatches

    
CHECK_DEADLOCK FALSE
