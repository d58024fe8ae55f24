SPECIFICATION FairSpec
CONSTANTS
    Clients = {owner, c1, c2}
    Owner = owner
    MaxJobs = 4
INVARIANTS
    RunsInOrder
    DestructorRunsAll
PROPERTIES
    StaleOnlyByOverlap
    WaitReturns
    DestructorReturns
CHECK_DEADLOCK FALSE
