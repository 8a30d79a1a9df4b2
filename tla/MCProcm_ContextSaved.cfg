CONSTANTS
    AllocStep = 2
    MaxSlots = 5
    PoolOom = TRUE
    Nobody = Nobody
SPECIFICATION SafetySpec
INVARIANTS
    ContextSaved
