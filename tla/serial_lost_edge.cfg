SPECIFICATION FairSpec
CONSTANTS
    BuffSize = 2
    EarlyChars = 3
    FifoSize = 2
    ErrChars = 2
    FaultChars = 2
    MaxWrite = 2
    MaxOffered = 2
    MaxErrors = 1
PROPERTIES
    EverythingSent
CHECK_DEADLOCK FALSE
