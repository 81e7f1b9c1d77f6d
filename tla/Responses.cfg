SPECIFICATION Spec
CHECK_DEADLOCK FALSE
CONSTANTS
    Requests = {r1, r2, r3}
    Shapes <- MCShapes
    Inputs <- MCInputs
    MaxDeltas = 1
SYMMETRY Interchangeable
INVARIANTS
    IInv
    ChainExact
PROPERTIES
    StoreGrows
    ContinuesWhatItNames
