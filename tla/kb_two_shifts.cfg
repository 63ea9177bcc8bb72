SPECIFICATION Spec
CONSTANTS
    Keys <- ShiftsAndA
    Paired = TRUE
    CapsRepeats = FALSE
    MaxEvents = 5
INVARIANTS
    ShiftedIsUppercase
CHECK_DEADLOCK FALSE
