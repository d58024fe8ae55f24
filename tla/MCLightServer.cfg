SPECIFICATION FairSpec
CONSTANTS
    Clients = {c1, c2, c3}
    Trigger = trigger
    NoConn = NoConn
    MaxFds = 3
    MaxPending = 2
    MaxRequests = 1
INVARIANTS
    AllAccounted
    QuietShutdown
PROPERTIES
    DestructorReturns
    ClientsServed
CHECK_DEADLOCK FALSE
