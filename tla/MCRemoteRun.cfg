SPECIFICATION FairSpec
CONSTANTS
    Calls = {c1}
    Mode = "mpirun"
    PoolSize = 2
    MaxRestarts = 2
INVARIANTS
    TypeOK
    CompletedHoldsOutput
    CompletedReportIsTimed
    ReportedRunIsServed
    FailureIsJustified
    WorkIsWanted
PROPERTIES
    EveryCallEnds
CHECK_DEADLOCK FALSE
