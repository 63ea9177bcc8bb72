SPECIFICATION Spec
CONSTANTS
    Width = 3
    Height = 2
    TabStop = 2
    Ascii <- AsciiChars
    Latin <- LatinChars
    MaxChars = 7
INVARIANTS
    BelowIsBlank
PROPERTIES
    TerminalSpec
CHECK_DEADLOCK FALSE
