CONSTANTS
    Commands = {c1, c2}
    Claims = {k1, k2}
    NoCommand = NoCommand
    PENDING_EXPIRY = 1
    UNCONFIRMED_AFTER = 1
    MaxTime = 1
    MaxPolicyChanges = 1
    MaxAborts = 0
SPECIFICATION Spec
SYMMETRY Symmetry
INVARIANTS
    TypeOK
    ClaimedOrFailedOnce
    WrittenAtMostOnce
    NeverClaimedStale
    NeverSentBarred
    JournalMatchesRow
PROPERTY ImplementsLifecycle
CHECK_DEADLOCK FALSE
