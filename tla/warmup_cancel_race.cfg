SPECIFICATION Spec
CONSTANTS
    Clients = {c1, c2}
    Requests <- MCOne
    ChunkSize = 2
    BytesPerToken = 1
    CapacityBytes = 4
    Attempts = 1
    Faulty = FALSE
    MaxRuns = 2
    MaxConcurrency = 2
INVARIANTS
    LiveRunReported
CHECK_DEADLOCK FALSE
