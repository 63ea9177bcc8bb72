SPECIFICATION FairSpec
CONSTANTS
    Configs <- FirmwareConfigs
    MaxKeys = 3
    MaxResends = 1
    MaxInput = 1
INVARIANTS
    TypeOK
    SerialSetUp
    ConfigAsIntended
    KbInitUndisturbed
    AtMostOneKeyMisread
PROPERTIES
    BootEnds
    KeyboardServed
CHECK_DEADLOCK FALSE
