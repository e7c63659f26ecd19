CONSTANTS
    MaxReadings = 2
    PerCycle = 1
    MAX_ITEMS = 2
    Refusable = {}
    Slots = {q1}
    NoSlot = NoSlot
    MaxFaults = 1
    MaxConfigChanges = 0
SPECIFICATION FairSpec
PROPERTY BufferArrives
CHECK_DEADLOCK FALSE
