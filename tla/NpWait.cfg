CONSTANTS
    MaxClients = 2
    MaxConn = 2
    MaxCmd = 3
    MaxPipe = 2
    MaxNum = 2
    Name = {n1}
    NoName = NoName
    EnvVar = {v1}
    Hangups = FALSE
    Lines <- WaitLines
SPECIFICATION KidsSpec
CHECK_DEADLOCK FALSE
INVARIANT HoldersEarlier
PROPERTY ServesAgain
