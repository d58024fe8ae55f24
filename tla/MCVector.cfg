SPECIFICATION VectorSpec
CONSTANTS
    Bufs = {b1, b2}
    Handles = {h1, h2}
    Requests = {256, 400}
    Classes = {256, 512}
    SizeLimit = 400
    NoBuf = NoBuf
    Vectors = {v1, v2, v3}
    Lengths = {64, 100}
    Starts = {0, 32}
    FarthestStart = 32
    SizeOf = 4
    NoHandle = NoHandle
SYMMETRY Symmetry
INVARIANTS
    OwnersHaveRoom
    ViewsHoldWhileOwned
CHECK_DEADLOCK FALSE
