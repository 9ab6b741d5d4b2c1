SPECIFICATION Spec
CONSTANTS
    t1 = t1
    t2 = t2
    keeping = keeping
    asking = asking
    Threads <- AllThreads
    Apps <- AllApps
    Keeping <- KeepingApps
    None = None
    MaxEngines = 3
    MaxForks = 1
SYMMETRY Sym
INVARIANTS
    OneRequestOneEngine
    OneEnginePolls
    RowsAreShipped
CHECK_DEADLOCK FALSE
