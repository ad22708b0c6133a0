SPECIFICATION FairSpec
CONSTANTS
    None = None
    Shapes <- MCShapes
    MAX_EVENTS = 3
PROPERTY
    AbandonPutsBack
CHECK_DEADLOCK FALSE
