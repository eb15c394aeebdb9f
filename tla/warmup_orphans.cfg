SPECIFICATION Spec
CONSTANTS
    Clients = {c1}
    Requests <- MCOne
    ChunkSize = 2
    BytesPerToken = 1
    CapacityBytes = 4
    Attempts = 1
    Faulty = TRUE
    MaxRuns = 2
    MaxConcurrency = 2
INVARIANTS
    ConcurrencyKept
CHECK_DEADLOCK FALSE
