SPECIFICATION Spec
CONSTANTS
    ULong = 64
    Strings <- MCStrings
    Bases = {2, 10, 16}
    Formats <- MCFormats
    Sizes = {1, 2, 4, 8}
    Node = {n1, n2, n3, n4}
    Data = {d1, d2}
    NoNode = NoNode
    Key = {"k1", "k2", "k3", "k4"}
    Value = {v1, v2}
    NoValue = NoValue
    Slot = {0, 1}
    Hash <- MCHash
    ByteBits = 3
    Bytes = 3
    MaxPages = 4
    U64 = 64
    Page = 2
    Mib = 4
    KernelSizes = {2, 3, 5}
    FirmwareMaps <- MCFirmwareMaps
    Capacity = 5
INVARIANTS
    StringsExact
    PrintfExact
    ListIsSequence
    HashtableIsMap
    DmaExclusive
    
    
CHECK_DEADLOCK FALSE
