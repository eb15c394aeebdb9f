SPECIFICATION Spec
CONSTANTS
    k1 = k1
    k2 = k2
    Threads = {t1, t2}
    Keys = {k1, k2}
    Ops = {"put", "write", "read", "remove"}
    FlushRecords = 2
    FlushTicks = 1
    MaxOps = 4
    MaxTime = 1
    Size <- MCSize
    MinFiles = 3
    UnitBase = 4
SYMMETRY Symmetry
INVARIANTS
    LinesAreCounted
    PutsPrecedeWrites
    PeakWithinThreads
    JobCoversDisk
CHECK_DEADLOCK FALSE
