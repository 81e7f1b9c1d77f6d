SPECIFICATION Spec
CHECK_DEADLOCK FALSE
CONSTANTS
    Words = {"x"}
    Bytes = {"lead3", "cont"}
    UStates <- MCUStates
    Utf8 <- MCUtf8
    StopStrs <- MCStopStrs
    PromptLens = {0, 2, 10, 14}
    ReqMaxes = {3, 12}
    OUTPUT_CAP = 9
    MAXT = 12
    THINK_BUDGET = 2
    REPEAT_LIMIT = 4
    REPW_SLACK = 4
INVARIANTS
    IInv
    ShownIsAnswer
    ThinkingBounded
    ContextEndIsLength
    LoopGuardExact
    SentIsText
