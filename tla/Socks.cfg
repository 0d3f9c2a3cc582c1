CONSTANTS
    near = near
    far = far
    Host = {near, far}
    Unset = Unset
    Requests <- AllRequests
    RuleFiles <- AllFiles
    Cap = 2
    MaxSend <- ThreeEach
SPECIFICATION Spec
CHECK_DEADLOCK FALSE
INVARIANTS
    RulesKept
PROPERTIES
    TunnelImplemented
    SessionEnds
    PromiseKept
    TransferComplete
