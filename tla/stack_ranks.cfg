SPECIFICATION FairSpec
CONSTANTS
    Callers = {a, b}
    Docs = {d}
    DocLen = 2
    Deployments <- MCDeployments
    TraceFile = TRUE
    Faulty = TRUE
    Cancelling = TRUE
    MaxCalls = 3
INVARIANTS
    
    StoreOkMeansStored
    HitStaysHit
    RanksAgree
PROPERTIES
    CallsAndCloseEnd
CHECK_DEADLOCK FALSE
