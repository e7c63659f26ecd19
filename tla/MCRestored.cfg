SPECIFICATION ConfigSpec
CONSTANTS
    Requests = {q1, q2}
    Managers = {m1, m2}
    MaxVersions = 3
    MaxRequests = 5
    NoVersion = NoVersion
    NoRequest = NoRequest
INVARIANTS
    RestoredWasActive
CHECK_DEADLOCK FALSE
