SPECIFICATION ScenesSpec
CONSTANTS
    Items = {i1}
    Keys = {k1, k2, k3}
    Clients = {c1, c2}
    Reconciler = reconciler
    ShredOps = {1, 2, 3, 4}
    NoItem = NoItem
    NoKey = NoKey
    Kinds = {"add", "restore", "forget", "update"}
    Failures = 1
    Lost = 1
    Rollbacks = 1
    Updates = 1
    ReadKeys = 2
    Budget <- MCBudget
INVARIANTS
    IInv
    ErasedMeansDestroyed
    ProjectionAgreesWithLineage
    FencedNeverCommits
PROPERTIES
    KeepsPromise
    BoundaryDisclosesCurrent
    ErasedNeverDisclosed
SYMMETRY Symmetry
