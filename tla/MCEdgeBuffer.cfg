CONSTANTS
    MaxReadings = 3
    PerCycle = 2
    MAX_ITEMS = 5
    Refusable = {2}
    Slots = {q1, q2}
    NoSlot = NoSlot
    MaxFaults = 3
    MaxConfigChanges = 2
SPECIFICATION FairSpec
INVARIANTS
    TypeOK
    ReadingNeverLost
    CrashQuarantinesLittle
PROPERTIES
    ImplementsDelivery
    BufferArrives
CHECK_DEADLOCK FALSE
