SPECIFICATION EmbeddedFairSpec
CONSTANTS
    Jobs = {1}
    Workers = {w1, w2}
    Handlers = {h1}
    None = None
    Priority <- LaterFirst
    MaxRetries = 1
    RequestKinds = {"retry"}
    StaleCheckerRuns = FALSE
    TimelyHeartbeats = TRUE
    StartsOverlapWork = FALSE
    MaxClaims = 11
    MaxRequests = 2
    MaxDepartures = 2
    MaxTroubles = 2
    MaxFaults = 2
INVARIANTS
    NoDuplicateExecution
    ResultIsNewest
    AttemptsAccounted
PROPERTIES
    
    EveryJobSettles
CHECK_DEADLOCK FALSE
