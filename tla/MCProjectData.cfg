SPECIFICATION ForcingSpec
CONSTANTS
    Users = {u1, u2}
    Administrators = {u1, u2}
    Handlers = {h1, h2}
    None = None
    MaxId = 2
    MaxRequests = 5
    FileNames = {met}
    Contents = {good, bad}
    Passing = {good}
SYMMETRY Symmetric
INVARIANTS
    TypeOK
    CreatorOwnsProject
    NothingOutlivesItsProject
    AdministratorRemains
    ForcingDescribesDisk
CHECK_DEADLOCK FALSE
