SPECIFICATION FairSpec
CONSTANTS
    Threads = {t1, t2, t3}
    Values = {v1, v2}
    NoElem = NoElem
    NoThread = NoThread
    MaxCalls = 2
    MaxSpurious = 1
INVARIANTS
    NoLostWakeup
PROPERTIES
    ImplementsFifo
    AllServed
CHECK_DEADLOCK FALSE
