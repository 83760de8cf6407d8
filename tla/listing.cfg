SPECIFICATION FairSpec
CONSTANTS
    PerPage = 5
    maxItemsPerPage = 3
    maxPerPage = 4
    defaultPerPage = 2
    MaxEntries = 9
    MaxInserts = 1
    MaxRemoves = 2
INVARIANTS
    TypeOK
    StaticListing
    InsertsHideNothing
    RemovesHideOneEach
    TokenMoves
PROPERTIES
    ListingEnds
    PagesAdvance
