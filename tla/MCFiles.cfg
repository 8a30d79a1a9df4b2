SPECIFICATION FilesSpec
CONSTANTS
    Chars <- MCChars
    MountPoints <- MCMountPoints
    DevMount <- MCDevMount
    Volumes <- MCVolumes
    Sources <- MCSources
    VolumeFiles <- MCVolumeFiles
    DevNames <- MCDevNames
    Paths <- MCPaths
    NewPaths <- MCNewPaths
    StartingFiles = 2
    MaxMounts = 3
    MaxEntries = 3
    MaxNodes = 3
INVARIANTS
    PathsLeadToVnodes
    DevicesAnswer
CHECK_DEADLOCK FALSE
