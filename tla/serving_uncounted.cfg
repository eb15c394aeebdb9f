SPECIFICATION Spec
CONSTANTS
    Requests = {r1, r2}
    Offers <- MCDecodeStream
    Contents = {"x", "y"}
    ChunkSize = 2
    MaxTokens = 1
    Faulty = TRUE
    Evicting = TRUE
    Disconnecting = TRUE
INVARIANTS
    FailuresCounted
CHECK_DEADLOCK FALSE
