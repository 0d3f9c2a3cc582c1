CONSTANTS
    Clients = {1, 2}
    Asked <- PairsAsked
    MaxProc = 4
SPECIFICATION Spec
CHECK_DEADLOCK FALSE
INVARIANTS
    OwnQuery
    PagesApart
    ServersStay
PROPERTIES
    Answered
    PageEnds
