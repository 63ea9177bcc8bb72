SPECIFICATION Spec
CONSTANTS
    PageSize = 4
    TopPage = 9
    LowLimit = 2
    IdentityLimit = 8
    MaxRegions = 4
    BootInfos <- MCBootInfos
INVARIANTS
    PhysicalMemoryMapped
CHECK_DEADLOCK FALSE
