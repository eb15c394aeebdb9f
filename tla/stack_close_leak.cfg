SPECIFICATION Spec
CONSTANTS
    Callers = {a}
    Docs = {d}
    DocLen = 2
    Deployments <- MCLeak
    TraceFile = TRUE
    Faulty = FALSE
    Cancelling = FALSE
    MaxCalls = 1
INVARIANTS
    CloseReleases
CHECK_DEADLOCK FALSE
