SPECIFICATION ComparisonSpec
CONSTANTS
    MetresPerDegree = 111320
    MinCells = 10
    MaxCells = 500
    Scenarios <- Contents
    Cells <- Grid
    Masks <- SomeMasks
    Fill = Fill
    Rows = 2
    Columns = 3
    PetFields <- SomePetFields
    BandFloors <- Floors
    PetThresholds = {230, 290, 350, 410}
    Tolerance = 5
    MaxAttempts = 2
INVARIANTS
    TypeOK
    DeltasCoverEveryField
    ResultIsAllOrNothing
    ConfidenceIsWeakest
    LastChangeCovers
    AnalysisAddsUp
CHECK_DEADLOCK FALSE
