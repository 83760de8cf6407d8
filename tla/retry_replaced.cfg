SPECIFICATION Spec
CONSTANTS
    u1 = u1
    u2 = u2
    g1 = g1
    t1 = t1
    t2 = t2
    lower = lower
    upper = upper
    NonUser = NonUser
    Ids <- MCIds
    Groups <- MCGroups
    Tasks <- OneTask
    Emails <- Spellings
    Fold <- SameFold
    AskedRoles <- MCAsked
    WorkspaceRoles <- MCWorkspace
    CacheBackend = "memory"
    MaxAttempts = 1
    MaxFaults = 1
    MaxAdmin = 0
INVARIANTS
    ReplacedReported
