CONSTANTS
    MaxClients = 3
    MaxConn = 3
    MaxOps = 2
    Plan <- Strangers
SPECIFICATION Spec
CHECK_DEADLOCK FALSE
INVARIANTS
    AnnouncedReadable
    FdsMatch
PROPERTY SendersGoOn
