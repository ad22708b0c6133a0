SPECIFICATION Spec
CONSTANTS
    None = None
    Shapes <- MCShapes
    MAX_EVENTS = 3
INVARIANT
    JournalIsRecognised
CHECK_DEADLOCK FALSE
