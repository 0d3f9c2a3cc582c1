CONSTANTS
    Clients = {1, 2}
    Scripts <- AllScripts
    Broken <- AllBroken
    MaxRan = 7
SPECIFICATION Spec
CHECK_DEADLOCK FALSE
INVARIANTS
    LinesRun
    ShownRight
 
