SPECIFICATION Spec
CONSTANTS
    NLayers = 3
    Options <- TwoLayouts
    MaxExports = 2
    MaxCompiles = 1
    MaxLive = 2
    Prompt = 2
    NGen = 2
    Generations = 2
INVARIANTS
    DoneAsListed
    ContextIsItsShard
    LogitsExact
    CachesRoll
    PoolWithinLimit
CHECK_DEADLOCK FALSE
