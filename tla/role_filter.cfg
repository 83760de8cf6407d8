SPECIFICATION Spec
CONSTANTS
    Ids <- MCIds
    Groups <- MCGroups
    Emails <- MCEmails
    Fold <- MCFold
    UserNames <- MCUserNames
    Filters <- MismatchFilters
    Workspaces <- MCWorkspaces
    WorkspaceRoles <- OneKnown
    PerPage = 2
    MaxFaults = 0
    MaxMoves = 0
INVARIANTS
    RoleGrantsWhenSynced
