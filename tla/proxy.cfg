SPECIFICATION FairSpec
CONSTANTS
    Requests = {r1, r2, r3}
    Deployments <- MCDeployments
    MaxTokens = 2
    Disconnecting = TRUE
INVARIANTS
    ConnectionsCounted
    RoundRobinBalanced
    PhasesAccounted
PROPERTIES
    ConnectionsReturned
    ImplementsChatStream
CHECK_DEADLOCK FALSE
