SPECIFICATION Spec
CONSTANTS
    Dec = 10
    Hex = 16
    ShortBits = 4
    IntBits = 6
    LongBits = 8
    BufLen = 5
    Letters = {"t"}
    Formats <- SomeFormats
    Arguments <- LongArguments
    LsrValues <- SomeLsr
    MaxCalls = 2
    KeyPrints = 1
    ErrorPrints = 1
INVARIANTS
    ConversionsAsPrintf
    PrintsAsPrintfUnlessTorn
    CountsCharacters
CHECK_DEADLOCK FALSE
