SPECIFICATION CommandsSpec
CONSTANTS
    Items = {r1, r2}
    LibraryOf <- MCLibraryOf
    Passes = {p1, p2}
    MaxAttempts = 1
    MaxCopies <- MCMaxCopies
    KeyFiles = {f1, f2}
    MaxGeneration = 3
    MaxSets = 2
    MaxDeaths = 1
INVARIANTS
    OneCopy
    ForgottenIsTracked
    EveryKeyOpens
PROPERTIES
    RemovesOnlyUnwanted
    ActivationCovers
SYMMETRY Symmetry
CHECK_DEADLOCK FALSE
