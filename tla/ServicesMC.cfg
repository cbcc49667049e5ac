SPECIFICATION SumSpec
CHECK_DEADLOCK FALSE
CONSTANTS
    Ecos = {e1}
    Users = {u1, u2}
    Admins = {u2}
    LastStage = 2
    Gated = {1}
    AutoStages = {1, 2}
    MinApprovals = 2
    Requests = {r1}
    MaxVersions = 3
    e1 = e1
    u1 = u1
    u2 = u2
    r1 = r1
    Items = {"i1", "i2", "i3"}
    Callers = {"r1", "r2"}
    FirstNumber = 1
    TokenMode = FALSE
    MaxNumber = 2
    MaxActivities = 3
    Blocking = {1, 2}
    Targets = {"completed"}
    Deliveries = {1, 2, 3}
    NoAddress = {3}
    Workers = {"w1"}
    BatchSize = 2
    MaxAttempts = 2
    MaxCrashes = 1
    MaxOverruns = 1
    Keys = {"k1"}
    Payloads = {"p1", "p2"}
    Drains = {"d1", "d2"}
    LifeStates <- StateNames
    Arcs <- ArcsOfMap
    StartState = "Draft"
    ReleasedState = "Released"
    Obsolete = "Obsolete"
    Permission <- PermissionOfState
    Flow <- FlowOfState
    FlowSteps = {"a1", "a2"}
    Route <- RouteOfActivity
    IndexedItems = {"i1"}
    ItemContents = {"v1", "v2"}
    MaxPending = 2
    Parts = {"p1", "p2", "p3"}
    MaxLines = 3
    Lines = {"l1"}
    Cells = {"quantity", "refdes"}
    Values = {"v1"}
    CellKeys = {"k1", "k2"}
    MaxWrites = 2
    MaxEdits = 1
    Calls = {"c1", "c2", "c3"}
    Threshold = 2
    MaxProbes = 2
    Jobs = {1, 2, 3, 4}
    JobKeys = {"k1"}
    Priorities = {1}
    Indexing = {FALSE}
    Clients = {"c1", "c2", "c3"}
    JobWorkers = {"w1", "w2"}
    JobAttempts = 1
    Limit = 1
    Rows = {1}
    Lineage <- OneLineage
    Fps = {"f1", "f2"}
    EcmWorkers = {"w1"}
    EcmBatch = 1
    MaxReplays = 1
    EcmOverruns = 0
    MaxRaces = 1
INVARIANTS
    TypeOK
    ApprovedIsComplete
    NumbersUnique
    BulkIsComplete
    BulkKeepsOrder
    SendsWithinBudget
    ProcessedIsRecorded
    
    PermissionFollowsState
    ReleasedHasVersion
    IndexFollowsStore
    CheckedIsDag
    AuditMatchesLine
    SlotsAreProbes
    LimitKept
    DedupeUnique
    EcmSendsWithinBudget
PROPERTIES
    OutboxSpec
    CompletionProgresses
    AppliedIsApproved
    SuspensionHolds
