SPECIFICATION MCSpec
CONSTANTS
    Clients = {c1, c2}
    Requests <- MCFill
    ChunkSize = 2
    BytesPerToken = 1
    CapacityBytes = 2
    Attempts = 1
    Faulty = TRUE
    MaxRuns = 2
    MaxConcurrency = 3
INVARIANTS
    TypeOK
    OvershootBound
    ConcurrencyKept
    EvictionSeen
    LiveRunReported
    StateIsTrue
PROPERTIES
    ImplementsWarmupRun
    RunsAndCancelsEnd
CHECK_DEADLOCK FALSE
