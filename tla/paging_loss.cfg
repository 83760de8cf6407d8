SPECIFICATION Spec
CONSTANTS
    PerPage = 5
    maxItemsPerPage = 3
    maxPerPage = 4
    defaultPerPage = 2
    MaxEntries = 9
    MaxInserts = 0
    MaxRemoves = 0
INVARIANTS
    CompleteListing
