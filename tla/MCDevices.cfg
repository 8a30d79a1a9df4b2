SPECIFICATION Spec
CONSTANTS
    SinksCapacity = 2
    Columns <- MCColumns
    Rows <- MCRows
    KprintfMax = 11
    MaxLevel = 3
    Timestamp <- MCTimestamp
    LogLevels = {2, 5}
    Messages <- MCMessages
    Junk = {"black", "white"}
    MaxCalls = 2
    Second = 4
    TickNs = 3
    LowRange = 2
    Rounding <- MCRounding
    MaxTicks = 5
    DriverSpecs <- MCDriverSpecs
    DeviceSpecs <- MCDeviceSpecs
    Address = {1, 2, 3, 4}
    Ids <- MCIds
    Timeout = 2
    Modules <- MCModules
    Tables <- MCTables
    Addresses = {0, 1, 2, 3, 4, 5, 6}
    WordSize = 16
INVARIANTS
    ConsoleShowsText
    ElapsedExact
    LinksAgree
    KeyboardIdentified
    ModulesOnce
    KsymsExact
PROPERTIES
    Ps2ioEnds
CHECK_DEADLOCK FALSE
