CONSTANTS
    Schedules = {s1, s2}
    Sweeps = {w1}
    Nobody = Nobody
    MaxTime = 2
    MaxPolicyChanges = 1
    MaxAborts = 1
SPECIFICATION FairSpec
INVARIANTS
    TypeOK
    OneCommandAtItsTime
    StatusTellsTheCommand
    NeverDispatchedBarred
PROPERTY DueSettled
CHECK_DEADLOCK FALSE
