SPECIFICATION FairSpec
CONSTANTS
    None = None
    Shapes <- MCShapes
    MAX_EVENTS = 3
INVARIANTS
    RecoveryBeforeDestruction
PROPERTIES
    RestoredMeansWhole
    RecordedSwapsPutBack
    OnlyTheOperatorDestroys
    NothingPlacedOverAnUnwind
    AbandonEnds
CHECK_DEADLOCK FALSE
