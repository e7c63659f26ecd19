SPECIFICATION Spec
CONSTANTS
    pB = pB
    pF = pF
    pE = pE
    Watchers = {w1, w2}
    Operators = {o1, o2}
    Handlings = {"open", "closed", "false_positive"}
    MaxFindings = 2
    MaxLooks = 4
    NoLook = NoLook
    Requests = {q1, q2}
    Managers = {m1, m2}
    MaxVersions = 3
    MaxRequests = 4
    NoVersion = NoVersion
    NoRequest = NoRequest
    Writers = {x1, x2}
    Free = Free
    Payloads = {plain, float}
    Rewritten = {float}
    MaxEntries = 3
    MaxAppends = 2
    Batches = {b1}
    Objects = {d1}
    PointFields = {class}
    PointCodes = {k1, k2}
    Transactions = {t1, t2}
    MaxFaults = 1
    NoWork = NoWork
    NoPoint = NoPoint
    Locations = {l1, l2}
    ArchiveCalls = {h1, h2}
    Idle = Idle
    AutoRules = {a1, a2}
    Interval = 2
    EventLimit = 1
    MaxTime = 3
    MaxEvents = 3
    NoSweep = NoSweep
    Units = {u1, u2}
    Places = {p1}
    PlaceCalls = {c1, c2}
    NoUnit = NoUnit
    NoCall = NoCall
    SpaceIds = {1, 2}
    Equipment = {11}
    SpaceCodes = {pB, pF}
    CodesTyped = {pB}
    SpaceCalls = {e1, e2}
    MoveDates = {1, 2}
    TypesUsed = {"building"}
    Site = Site
    Nowhere = Nowhere
    Uncreated = Uncreated
    NoSpace = NoSpace
    NoWrite = NoWrite
    Candidates = {pB, pF, pE}
    Held <- MCHeld
    NoNode = NoNode
    NoProposal = NoProposal
    Points <- MCPoints
    Rules <- MCRules
    DesiredStates <- MCDesired
    Day = 4
    FrozenWindow = 2
    FlagWindow = 3
    CompletenessWindow = 3
    HistoryLimit = 3
    Instants = {1, 2, 3, 4}
    Flags = {"out_of_range"}
    MaxReadings <- MCMax
    Together <- MCTogether
    Sources = {"intervention", "alarm", "event"}
    Page = 2
    EventsShown = 1
    MaxInstant = 3
    MaxRows = 4
    Nodes = {n1, n2, n3}
    NodeType <- MCNodeTypes
    Failed = n1
    Predicates = {"dependsOn", "connectedTo"}
    Pairs <- MCPairs
    GraphCalls = {g1, g2}
    MaxRelations = 2
    NoRelation = NoRelation
    NoRead = NoRead
    n1 = n1
    n2 = n2
    n3 = n3
    Editors = {v1, v2}
    Dates = {1, 2}
    MaxPeriods = 2
    MaxPlans = 2
    MaxEdits = 4
    Nobody = Nobody
    NoEdit = NoEdit
    DeviceIds = {i1}
    Fingerprints = {f1, f2}
    Staff = {s1, s2}
    Reports = {r1, r2}
    OnlineAfter = 0
    Counts = {3}
    MaxClock = 1
    MaxDevices = 2
    MaxActs = 2
    NoKey = NoKey
    NoAct = NoAct
    Protocols = {"modbus", "bacnet", "opcua", "mqtt"}
    Mappings <- MCMappings
    Policies <- MCPolicies
    PointUnits <- MCPointUnits
    RegisterUnits <- MCRegisterUnits
    Commandable = {"power", "relay"}
    Roles = {"admin"}
    Levels = {1}
    Callers = {z1}
    MaxChanges = 2
    MaxOrders = 2
    MaxRounds = 2
    MaxOutages = 1
    NoMapping = NoMapping
    NoPolicy = NoPolicy
    NoCaller = NoCaller
    Everything = Everything
    Unreachable = Unreachable
    Subjects = {j1}
    Files = {file1}
    Keepers = {y1, y2}
    Targets = {target1}
    MaxKeys = 2
    MaxDrawn = 2
    MaxFilings = 3
    NoOne = NoOne
    Unstarted = Unstarted
    PerDay = 1
    Days = 3
    Periods <- MCPeriods
    ObservedDays = {1}
    Courses <- MCCourses
    Doubtful = 9
    Base = 18
    Kind = "heating"
    ReferenceStart = 0
    ReferenceEnd = 1
    Temperatures = {15, 20}
    Clerks = {y1, y2}
    Prices = {3}
    MaxMeterRows = 3
    MaxObserved = 2
    MaxResults = 2
    NoRow = NoRow
    NoEntry = NoEntry
    NoResult = NoResult
    Equipments = {"e1", "e2"}
    StatusTable <- MCStatusTable
    Samples <- MCSamples
    StatusInstants = {2, 5}
    MaxSamples = 3
    NoSample = NoSample
    Every = 10
    Delays = {0}
    Watts = 2
    MIN_COMPARABLE_ENERGY = 10
    MaxCycles = 9
    MaxCuts = 2
    MaxFaulty = 1
    NoCut = NoCut
    MeasureIds = {m1, m2}
    MeasureDates = {1, 2}
    SignalIds = {s1}
    NotThere = NotThere
    MaxWrites = 2
    FoundObjects <- MCFound
    ClassesTyped = {"temperature_sensor", "electric_power_sensor"}
    UnitsTyped = {"W", "kW"}
    VocCallers = {k1, k2}
    MaxVocCalls = 3
    Unknown = Unknown
INVARIANTS
    TypeOK
    OneFindingOneOrder
    OneActiveApproved
    JournalVerifies
    EdgeAsRegistered
    ActiveOnArchivedIsStray
    FiredApart
    UndisturbedConsistent
    RegistryConsistent
    ComputedAsDefined
    VerdictFair
    WalkMissesOnlyTies
PROPERTIES
    HistoryKept
CHECK_DEADLOCK FALSE
