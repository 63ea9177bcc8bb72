SPECIFICATION FairSpec
CONSTANTS
    BuffSize = 3
    EarlyChars = 5
    FifoSize = 2
    ErrChars = 2
    FaultChars = 2
    MaxWrite = 4
    MaxOffered = 6
    MaxErrors = 1
INVARIANTS
    RingConsistent
    SentInOrder
    NoOverrun
    NoLostWakeup
    SetUpSendsNoText
    SerialInv
PROPERTIES
    EverythingSentWithoutErrors
CHECK_DEADLOCK FALSE
