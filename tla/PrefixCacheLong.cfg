SPECIFICATION Spec
CONSTANTS
    a = a
    b = b
    Tokens <- MCTokens
    Prompts <- LongPrompts
    NaNPrompts <- NoPrompts
    MC = 2
    WIN = 4
    MAXT = 11
    CACHE_MAX = 6
    MaxNew = 1
INVARIANT
    ReuseEqualsCold
