SPECIFICATION Spec
CONSTANTS
    Word = 65536
    SaturatingCasts = TRUE
    Precision = 8388608
    MeasuredUnknown = 65535
    Triggers <- MCTriggers
    Lboards <- MCLboards
    Scripts <- MCScripts
    Addresses = {0, 1}
    Memories <- MCMemories
    Past <- MCPast
    LineUps <- MCLineUps
    Activations <- MCActivations
    BoardActivations <- MCBoardActivations
    Ids = {1, 2}
    MaxFrames = 3
    MaxCalls = 1
CHECK_DEADLOCK FALSE
INVARIANTS
    TypeOK
    HitsWithinTarget
    PoolInOrder
    DamagedStartsOver
    AskingCountsNothing
PROPERTIES
    RestoreCarriesOn
    TriggersOnce
    ValueCountsFromStart
