CONSTANTS
    Ids = {1, 2}
    LIMIT = 1
    OVERLAP = 2
    MAX_TX = 1
    MAX_SCAN = 4
    MAX_PAGES = 1
    MaxTime = 4
    MaxWrites = 3
    MaxLosses = 0
    MaxRejections = 0
    NoCursor = NoCursor
SPECIFICATION Spec
INVARIANT NothingBehindCursor
CHECK_DEADLOCK FALSE
