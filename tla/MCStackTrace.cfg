SPECIFICATION Spec
CONSTANTS
    Threads = {t1, t2}
    Keys <- MCKeys
    Layers = {"a", "b"}
    MaxLives = 2
    MaxCalls = 4
    NoThread = NoThread
INVARIANTS
    OwnUseIsSafe
    LayersKept
PROPERTIES
    MapsStandStill
    CallsReturn
CHECK_DEADLOCK FALSE
