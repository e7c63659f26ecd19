CONSTANTS
    Schedules = {s1, s2}
    Sweeps = {w1}
    Nobody = Nobody
    MaxTime = 1
    MaxPolicyChanges = 0
    MaxAborts = 0
SPECIFICATION Spec
INVARIANT CancelledNeverRuns
CHECK_DEADLOCK FALSE
