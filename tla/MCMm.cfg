CONSTANTS
    Words = 4
    HalfBits = 1
    SizeMod = 9
    Procs = {p1, p2}
    VPages <- MCVPages
    PtSpan = 2
    PdSpan = 1
    PageStep = 2
    AvailSets <- MCAvailSets
    BootFrames <- MCBootFrames
    KheapFrames <- MCKheapFrames
    NoFrame = NoFrame
SYMMETRY ProcSymmetry
SPECIFICATION Spec
INVARIANTS
    UserPagesExclusive
    TablesFreedOnce
PROPERTIES
    UserFramesFresh
CHECK_DEADLOCK FALSE
