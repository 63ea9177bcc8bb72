SPECIFICATION Spec
CONSTANTS
    Dec = 10
    Hex = 16
    ShortBits = 4
    IntBits = 6
    LongBits = 8
    BufLen = 5
    Letters = {"t"}
    Formats <- SomeFormats
    Arguments <- LongArguments
    LsrValues <- SomeLsr
    MaxCalls = 1
    KeyPrints = 0
    ErrorPrints = 1
INVARIANTS
    PrintsAsPrintf
CHECK_DEADLOCK FALSE
