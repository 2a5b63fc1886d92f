SPECIFICATION Spec
CONSTANTS
    w1 = w1
    w2 = w2
    None = None
    NULL = NULL
    Workers = {w1, w2}
    Columns <- MCColumns
    Schemas <- MCSchemas
    MaxOutages = 0
    Autodetect = TRUE
    MainCf <- MCMainCf
    MysqlFiles <- MCMysqlFiles
    Plesk <- MCPlesk
    Modules <- MCModules
    ModTables <- MCModTables
    Priority <- MCPriority
    DefaultState = "dunno"
    Rules <- MCRules
    BlockedUsers <- MCBlocked
    Exceptions <- MCExceptions
    Modes = {"full", "same-domain"}
    AllowEmpty = TRUE
    Requests <- MCRequests
    MaxRequests = 1
INVARIANT ListsAsDocumented
CHECK_DEADLOCK FALSE
