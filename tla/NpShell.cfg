SPECIFICATION Spec
CONSTANTS
    Cap = 1
    Work = 1
    MaxCmd = 3
    MaxFd = 8
    MaxNum = 2
    Lines <- MCLines
INVARIANTS TypeOK DescriptorsAccounted NoEarlySigpipe
PROPERTIES NumPipeImplemented ForegroundReturns ZombiesReaped
CHECK_DEADLOCK FALSE
