SPECIFICATION FairSpec
CHECK_DEADLOCK FALSE
CONSTANTS
    Requests = {r1, r2, r3}
    Kinds = {"chat", "chatStream"}
    Threads = 2
    Steps = 1
PROPERTY
    EveryRequestEnds
