SPECIFICATION EditorSpec
CONSTANTS
    EditIds = {1, 2, 3}
    None = None
    b1 = b1
    b2 = b2
    b3 = b3
    Snapshots <- SomeSnapshots
    Cells <- SomeCells
    Ground <- SomeGround
    Bodies <- SomeBodies
    Uploads <- SomeUploads
    EmptyChain <- TheEmptyChain
    Handlers = {h1, h2}
    HeightMin = 2
    HeightMax = 300
    LargeHeight = 30
    LargeArea = 2
    MaxEdits = 3
    MaxRequests = 3
SYMMETRY Symmetric
INVARIANTS
    TypeOK
    DriverIsSound
    TierNeverImproves
    LoadedEditsStay
PROPERTIES
    EditRoutesKeepChainsSound
CHECK_DEADLOCK FALSE
