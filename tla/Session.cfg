SPECIFICATION FairSpec
CONSTANTS
    Sessions = {s1, s2}
    MaxTurns = 2
    MaxDeltas = 2
INVARIANTS
    IInv
    ConversationAgrees
PROPERTIES
    TurnsEnd
    WorkersEnd
CHECK_DEADLOCK FALSE
