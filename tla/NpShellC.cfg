CONSTANTS
    Ring = 4
    MaxCmd = 6
    MaxFd = 15
    MaxNum = 2
    Lines <- MCLines
SPECIFICATION Spec
CHECK_DEADLOCK FALSE
INVARIANTS
    FedAsSent
    EndsTogether
