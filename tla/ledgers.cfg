SPECIFICATION LedgersSpec
CONSTANTS
    Items = {i1}
    Keys = {k1, k2}
    Writers = {w1, w2}
    ShredOps = {1, 2}
    NoItem = NoItem
    NoKey = NoKey
    MaxCrashes = 2
    MaxErrors = 1
    Intents = {n1}
    Reconcilers = {q1, q2}
    MAX_ATTEMPTS = 2
    MaxArtifacts = 3
INVARIANTS
    DestroyedForGood
    ReconcilersCreateOnce
PROPERTIES
    KeepsLifecycle
    JournalCarriedOut
    LostReplyIsAdopted
    ForgottenIsRevoked
CHECK_DEADLOCK FALSE
