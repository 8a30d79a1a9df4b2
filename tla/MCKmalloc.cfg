CONSTANTS
    PageSize = 1024
    HeapVaddr = 4096
    PageSpans = {1, 2}
    Sizes = {20, 40, 64, 200}
    Alignments = {16, 256}
    MaxLive = 3
    MaxFailures = 1
SPECIFICATION Spec
INVARIANTS
    HeapSound
    ContentsKept
CHECK_DEADLOCK FALSE
