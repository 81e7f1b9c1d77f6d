SPECIFICATION FairSpec
CONSTANTS
    Requests = {r1, r2, r3}
    Kinds <- EveryDiscipline
    Threads = 3
    Steps = 1
INVARIANTS
    IInv
    OneGeneration
    LatchMeansWedge
PROPERTY
    EveryRequestEnds
