SPECIFICATION FairSpec
CONSTANTS
    p1 = p1 p2 = p2 Daemon = Daemon Exit = Exit NoThread = NoThread
    Pushers = {p1, p2}
    MaxBatch = 2
    MaxQueue = 2
    Slice = 2
    MaxEvents = 4
    MaxMishaps = 1
INVARIANTS EachEventOnce PostedInOrder DroppedNeverOvercounts FullBatchWakes
PROPERTIES DrainSettles EventsLeave PushIsNotBlocked KeepsLedger
CHECK_DEADLOCK FALSE
