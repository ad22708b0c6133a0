SPECIFICATION ScheduledSpec
CONSTANTS
    Entries = {e1}
    Publishers = {p1, p2}
    Retirements = {r1}
    MaxSequence = 4
    Bounds <- MCBounds
    Edits = 2
    Deaths = 1
    Sessions = 1
    Stops = 1
    Files = 1
    MaxFaults = 2
INVARIANTS
    DirectoryNeverAhead
    ChainAdmissible
    OneDeletionPerRetirement
    NeverOutrun
PROPERTIES
    DirectoryCatchesUp
