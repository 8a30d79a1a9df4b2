SPECIFICATION FatSpec
CONSTANTS
    Images <- MCImages
    U32 = 256
    SectorSizes = {2, 4}
    DiskSector = 2
    EntrySize = 1
    Fat16From = 2
    Fat32From = 6
    OffHalf = 8
    MaxRead = 4
    MaxNodes = 5
    MaxDepth = 3
    Eof = 250
INVARIANTS
    
    ReadsAreExact
    ClustersInsideVolume

    
CHECK_DEADLOCK FALSE
