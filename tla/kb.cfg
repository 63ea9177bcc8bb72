SPECIFICATION Spec
CONSTANTS
    Keys <- AllKeys
    Paired = FALSE
    CapsRepeats = FALSE
    MaxEvents = 4
INVARIANTS
    PrintedAsTyped
    DecoderInStep
CHECK_DEADLOCK FALSE
