SPECIFICATION FairSpec
CONSTANTS
    Requests = {r1, r2}
    Offers <- MCOffers
    Contents = {"x", "y"}
    ChunkSize = 2
    MaxTokens = 2
    Faulty = TRUE
    Evicting = TRUE
    Disconnecting = TRUE
INVARIANTS
    TypeOK
    StatsAccounted
    HolesAreEvicted
    PrefillIsFound
PROPERTIES
    RequestsEnd
    ImplementsChatStream
CHECK_DEADLOCK FALSE
