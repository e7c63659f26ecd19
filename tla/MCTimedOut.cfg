CONSTANTS
    Commands = {c1}
    Claims = {k1}
    NoCommand = NoCommand
    PENDING_EXPIRY = 1
    UNCONFIRMED_AFTER = 1
    MaxTime = 1
    MaxPolicyChanges = 0
    MaxAborts = 0
SPECIFICATION Spec
PROPERTY TimedOutIsTerminal
CHECK_DEADLOCK FALSE
