CONSTANTS
    Commands = {c1, c2}
    Claims = {k1, k2}
    NoCommand = NoCommand
    PENDING_EXPIRY = 1
    UNCONFIRMED_AFTER = 2
    MaxTime = 1
    MaxPolicyChanges = 1
    MaxAborts = 1
SPECIFICATION ClaimsSpec
PROPERTY PendingResolved
CHECK_DEADLOCK FALSE
