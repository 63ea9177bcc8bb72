SPECIFICATION FairSpec
CONSTANTS
    Devices = {1, 4, 12}
    Firmware <- Masks
    Exceptions = {0, 2, 3, 8, 14, 17}
    MaxEvents = 3
INVARIANTS
    TypeOK
    OneHandlerAtATime
    InServiceWhileHandled
    HandledAsWhatItIs
    OnlyExpectedLines
PROPERTIES
    RequestsAreTaken
CHECK_DEADLOCK FALSE
