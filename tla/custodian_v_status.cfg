SPECIFICATION FileSpec
CONSTANTS
    Items = {i1}
    Keys = {k1}
    Writers = {w1}
    ShredOps = {1}
    NoItem = NoItem
    NoKey = NoKey
    MaxCrashes = 0
    MaxErrors = 1
INVARIANTS
    NotFoundMeansNeverExisted
CHECK_DEADLOCK FALSE
