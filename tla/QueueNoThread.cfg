SPECIFICATION FairSpec
CONSTANTS
    p1 = p1 p2 = p2 Daemon = Daemon Exit = Exit NoThread = NoThread
    Pushers = {p1}
    MaxBatch = 2
    MaxQueue = 3
    Slice = 2
    MaxEvents = 2
    MaxMishaps = 1
PROPERTIES FlushesOnSizeOrInterval
CHECK_DEADLOCK FALSE
