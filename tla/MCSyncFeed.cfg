CONSTANTS
    Ids = {1, 2}
    LIMIT = 1
    OVERLAP = 2
    MAX_TX = 1
    MAX_SCAN = 1
    MAX_PAGES = 2
    MaxTime = 4
    MaxWrites = 3
    MaxLosses = 1
    MaxRejections = 1
    NoCursor = NoCursor
SPECIFICATION FairSpec
INVARIANTS
    TypeOK
    NothingBehindCursor
    PullAdvances
PROPERTIES
    CacheNeverGoesBack
    PhoneCatchesUp
CHECK_DEADLOCK FALSE
