CONSTANTS
    Versions = {"console", "socks", "cgi"}
    Files <- BothFiles
    Size = 4
    MaxText = 3
SPECIFICATION ConsoleSpec
CHECK_DEADLOCK FALSE
INVARIANTS
    PacedByPrompts
    ShownAsReceived
PROPERTY SessionEnds
