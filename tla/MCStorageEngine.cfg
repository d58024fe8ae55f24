SPECIFICATION FairSpec
CONSTANTS
    Threads = {t1, t2, t3, t4}
    NoThread = NoThread
    MaxCalls = 2
INVARIANTS
    NoDataRace
PROPERTIES
    ImplementsOnceCell
    CallsReturn
CHECK_DEADLOCK FALSE
