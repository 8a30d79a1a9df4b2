SPECIFICATION Spec
CONSTANTS
    Pids = {p1, p2}
    Files = {a, b}
    FdStep = 1
    StartingFiles = 2
    MaxFds = 2
    MaxFiles = 4
    MaxRefs = 3
    NoFile = NoFile
    Freed = Freed
SYMMETRY PathsAndPids
INVARIANTS
    NoDangling
    FdsMatchTable
PROPERTIES
    OwnDescriptorKept
