SPECIFICATION Spec
CONSTANTS
    w1 = w1
    w2 = w2
    None = None
    NULL = NULL
    Workers = {w1, w2}
    Columns <- MCColumns
    Schemas <- MCSchemas
    MaxOutages = 1
    Autodetect = TRUE
    MainCf <- MCMainCf
    MysqlFiles <- MCMysqlFiles
    Plesk <- MCPlesk
    Modules <- MCModules
    ModTables <- MCModTables
    Priority <- MCPriority
    DefaultState = "dunno"
    Rules <- MCRules
    BlockedUsers <- MCBlocked
    Exceptions <- MCExceptions
    Modes = {"full", "same-domain"}
    AllowEmpty = TRUE
    Requests <- MCRequests
    MaxRequests = 2
INVARIANTS
    NoOpenRelay
    TablesComplete
PROPERTIES
    RowsInOrder
    
CHECK_DEADLOCK FALSE
