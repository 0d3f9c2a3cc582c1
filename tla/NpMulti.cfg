CONSTANTS
    MaxClients = 2
    MaxConn = 2
    MaxOps = 1
    Name = {n1}
    NoName = NoName
    Ops = {"tell", "yell", "name", "exit"}
SPECIFICATION Spec
CHECK_DEADLOCK FALSE
INVARIANTS
    SlotOwned
    ShownOnce
    NamesUnique
    ParentOutlives
 
