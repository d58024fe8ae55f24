SPECIFICATION Spec
CONSTANTS
    Numeral <- MCNumeral
    Width <- MCWidth
    Commands <- MCCommands
    Defaults <- MCDefaults
    LevelNumber <- MCLevelNumber
    LevelNames <- MCLevelNames
    Functions = {"storage", "stats"}
    Priority <- MCPriority
    ArgumentLists <- MCArgumentLists
    Environments <- MCEnvironments
    Levels = {3}
INVARIANTS
    CompactionInPlace
    LastWins
    SevereMeansMore
    RunInOrderOnce
    EverySlotServes
CHECK_DEADLOCK FALSE
