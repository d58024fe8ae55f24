SPECIFICATION Spec
CONSTANTS
    Bufs = {b1, b2, b3, b4}
    Handles = {h1, h2, h3}
    Requests = {1, 300, 1500, 70000}
    Classes = {256, 512, 2048, 70000}
    SizeLimit = 2500
    NoBuf = NoBuf
SYMMETRY Symmetry
INVARIANTS
    NoSharedBuffer
    BlocksFit
    NoLeak
PROPERTIES
    DriftsOnlyByReuse
CHECK_DEADLOCK FALSE
