CONSTANTS
    MaxClients = 2
    MaxConn = 3
    MaxCmd = 3
    MaxPipe = 2
    MaxNum = 2
    Name = {n1}
    NoName = NoName
    EnvVar = {v1}
    Hangups = TRUE
    Lines <- MixedLines
SPECIFICATION Spec
CHECK_DEADLOCK FALSE
INVARIANTS
    SlotsAgree
    PipesReadInOrder
    EnvironIsOwn
PROPERTIES
    RosterImplemented
    PipesKept
