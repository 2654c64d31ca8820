SPECIFICATION Spec
CONSTANTS
    Jobs = {1}
    Workers = {w1, w2}
    RequestKinds = {}
    StartsOverlapWork = TRUE
    MaxRequests = 0
    MaxDepartures = 0
    Handlers = {h1}
    None = None
    Priority <- EqualPriority
    MaxRetries = 1
    StaleCheckerRuns = FALSE
    TimelyHeartbeats = TRUE
    MaxClaims = 3
    MaxFaults = 0
PROPERTIES
    RecoverOnlyOrphans
CHECK_DEADLOCK FALSE
