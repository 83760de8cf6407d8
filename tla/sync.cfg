SPECIFICATION FairSpec
CONSTANTS
    Ids <- MCIds
    Groups <- MCGroups
    Emails <- MCEmails
    Fold <- MCFold
    UserNames <- MCUserNames
    Filters <- MCFilters
    Workspaces <- MCWorkspaces
    WorkspaceRoles <- OneKnown
    PerPage = 2
    MaxFaults = 1
    MaxMoves = 2
INVARIANTS
    TypeOK
    FactsWereTrue
    LastingFactsSynced
    OneRolePerUser
    NoDanglingGrants
PROPERTIES
    SyncEnds
    SyncAdvances
