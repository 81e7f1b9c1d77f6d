SPECIFICATION GraphSpec
CONSTANTS
    LayerTypes <- ThreeLayers
    Chunk = 2
    Chunks = 2
    Tokens = 2
    Directs <- UnsplitSets
    GroupSizes = {1, 2}
INVARIANTS
    NothingStale
    LogitsOfOwnToken
    CacheFollowsHost
