SPECIFICATION FairSpec
CONSTANTS
    MaxBlocks = 4
    MaxLength = 2
    MaxIovs = 2
    MaxFailures = 2
    SizeMax = 15
INVARIANTS
    InOrder
    PlaceKept
    CompleteMeansAll
PROPERTIES
    Returns
CHECK_DEADLOCK FALSE
