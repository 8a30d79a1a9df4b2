SPECIFICATION Spec
CONSTANTS
    Buses = 2
    Devices = 2
    Functions = 2
    Letters = 2
    Chunk = 2
    Chunk48 = 4
    Lba28 = 16
    Timeout = 1
    Machines <- MCMachines
    Layouts <- MCLayouts
    Lbas = {0, 3}
INVARIANTS
    PciExact
    NamesFindPartitions
    TransferExact
PROPERTIES
    TransferEnds
CHECK_DEADLOCK FALSE
