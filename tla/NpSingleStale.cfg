CONSTANTS
    MaxClients = 3
    MaxConn = 4
    MaxCmd = 2
    MaxPipe = 2
    MaxNum = 2
    Name = {}
    NoName = NoName
    EnvVar = {}
    Hangups = FALSE
    Lines <- PipeLines
SPECIFICATION Spec
CHECK_DEADLOCK FALSE
INVARIANTS
    UserPipesDelivered
