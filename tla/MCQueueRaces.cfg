SPECIFICATION Spec
CONSTANTS
    Jobs = {1}
    Workers = {w1, w2}
    Handlers = {h1, h2}
    None = None
    Priority <- LaterFirst
    MaxRetries = 1
    RequestKinds = {"cancel", "retry"}
    StaleCheckerRuns = TRUE
    TimelyHeartbeats = FALSE
    StartsOverlapWork = TRUE
    MaxClaims = 2
    MaxRequests = 2
    MaxDepartures = 1
    MaxFaults = 1
INVARIANTS
    TypeOK
    RowsAreWhole
    RetryBudget
PROPERTIES
    StartsOnlyFromQueue
    LeaseRenewedByOwner
SYMMETRY Symmetric
CHECK_DEADLOCK FALSE
