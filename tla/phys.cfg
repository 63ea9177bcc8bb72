SPECIFICATION FairSpec
CONSTANTS
    PageSize = 4
    TopPage = 9
    LowLimit = 2
    IdentityLimit = 8
    MaxRegions = 4
    BootInfos <- MCBootInfos
INVARIANTS
    FreeListIntact
    OnlyUsablePages
    NoPageLost
    StatisticsExact
    Inv
PROPERTIES
    AllocatorSpec
    CallsReturn
CHECK_DEADLOCK FALSE
