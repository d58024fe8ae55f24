SPECIFICATION Spec
CONSTANTS
    Matrices <- MCMatrices
    Offsets <- MCOffsets
    MemSize = 8
    WordSize = 16
INVARIANTS
    SilentMeansInside
    LegalCallsFit
    LoopsStayInPlace
CHECK_DEADLOCK FALSE
