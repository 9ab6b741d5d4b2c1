SPECIFICATION FairSpec
CONSTANTS
    Hosts <- AllHosts
    Limit = 2
    Undeclared = Undeclared
    Junk = Junk
    None = None
    MaxBytes = 4
INVARIANTS
    AppSeesItsBody
    EngineGetsWhole
PROPERTY RequestGetsThrough
CHECK_DEADLOCK FALSE
