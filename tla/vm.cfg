SPECIFICATION Spec
CONSTANTS
    Frames = {f1, f2, f3, f4, f5, f6}
    Root = Root
    PdptHeap = PdptHeap
    BootSlot = 1
    Entries = 3
    HeapBase = 56
    MaxPages = 3
    MaxCall = 3
    Windows <- OneWindow
    Values = {0, 1}
    Absent = Absent
    Demand = Demand
    None = None
SYMMETRY Symmetry
INVARIANTS
    FramesUsedOnce
    TlbCoherent
    HeapMatchesTables
    HaltsOnlyWhenFull
PROPERTIES
    HeapSpec
    CallsShorten
CHECK_DEADLOCK FALSE
