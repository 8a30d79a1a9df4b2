CONSTANTS
    AllocStep = 2
    MaxSlots = 5
    PoolOom = TRUE
    Nobody = Nobody
SPECIFICATION Spec
INVARIANTS
    StackInUseIsAllocated
PROPERTIES
    ImplementsSched
    YieldReturns
    NoStarvation
    ZombiesReaped
