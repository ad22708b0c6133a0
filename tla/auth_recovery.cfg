SPECIFICATION RecoverySpec
CONSTANTS
    Items = {i1}
    Keys = {k1, k2}
    Clients = {c1}
    Reconciler = reconciler
    ShredOps = {1, 2, 3, 4}
    NoItem = NoItem
    NoKey = NoKey
    Kinds = {"add", "hydrate", "forget", "update"}
    Failures = 1
    Lost = 1
    Rollbacks = 1
    Updates = 1
    Budget <- MCBudget
PROPERTIES
    PendingShredsComplete
    StaleActiveHealed
    ProvisionalResolved
