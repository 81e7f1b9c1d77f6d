SPECIFICATION Spec
CONSTANTS
    a = a
    b = b
    Tokens <- MCTokens
    Prompts <- Mixed
    NaNPrompts <- MixedNaN
    MC = 2
    WIN = 4
    MAXT = 11
    CACHE_MAX = 6
    MaxNew = 2
INVARIANTS
    IInv
    LedgerHonest
    DecodeReadsExact
    ChunkReadsExact
    WarmAfterOneTurn
PROPERTY
    ImplementsColdEngine
