SPECIFICATION Spec
CONSTANTS
    w1 = w1
    w2 = w2
    Worker = {w1, w2}
    Scenarios <- MCScenarios
    MaxRuns = 2
    MaxStarts = 3
    None = None
    Bad = Bad
    Empty = Empty
INVARIANTS
    WorkersServeResolvedConfig
    KvOutlivesItsUsers
    VerdictIsFresh
PROPERTIES
    StopCleansUp
    ClientEnds
CHECK_DEADLOCK FALSE
