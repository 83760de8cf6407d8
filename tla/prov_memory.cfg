SPECIFICATION FairSpec
CONSTANTS
    u1 = u1
    u2 = u2
    g1 = g1
    t1 = t1
    t2 = t2
    lower = lower
    upper = upper
    NonUser = NonUser
    Ids <- MCIds
    Groups <- MCGroups
    Tasks <- MCTasks
    Emails <- OneAddress
    Fold <- OneFold
    AskedRoles <- MCAsked
    WorkspaceRoles <- OwnerFloor
    CacheBackend = "memory"
    MaxAttempts = 1
    MaxFaults = 2
    MaxAdmin = 0
INVARIANTS
    TypeOK
    SuccessMeansApplied
    NoSpuriousFailure
    NoUnreportedWrite
    SoleWriterExact
    OnceTrue
PROPERTIES
    TaskReports
    TaskProgress
