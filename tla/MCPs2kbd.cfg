SPECIFICATION Spec
CONSTANTS
    CachedEvents = 3
    MaxEntries = 2
    MaxTime = 2
INVARIANTS
    StrokesDecoded
PROPERTIES
    ReadInOrder
    WaitingReadGetsEvent
