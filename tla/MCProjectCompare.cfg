SPECIFICATION Spec
CONSTANTS
    Users = {u1}
    Administrators = {u1}
    Handlers = {h1}
    None = None
    MaxId = 2
    MaxRequests = 7
INVARIANTS
    ComparedWithinProject
CHECK_DEADLOCK FALSE
