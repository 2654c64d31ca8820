SPECIFICATION EmbeddedFairSpec
CONSTANTS
    Jobs = {1}
    Workers = {w1}
    Handlers = {h1}
    None = None
    Priority <- EqualPriority
    MaxRetries = 1
    RequestKinds = {"retry"}
    StaleCheckerRuns = FALSE
    TimelyHeartbeats = TRUE
    StartsOverlapWork = FALSE
    MaxClaims = 9
    MaxRequests = 1
    MaxDepartures = 1
    MaxTroubles = 1
    MaxFaults = 0
PROPERTIES
    JobsExecuteAutomatically
CHECK_DEADLOCK FALSE
