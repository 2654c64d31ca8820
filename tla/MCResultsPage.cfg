SPECIFICATION Spec
CONSTANTS
    Viewed = j1
    Workers = {w1}
    None = None
    MaxRetries = 1
    MaxCalls = 3
INVARIANTS
    TypeOK
    PollingMatchesPage
PROPERTIES
    CompletedIsShown
CHECK_DEADLOCK FALSE
