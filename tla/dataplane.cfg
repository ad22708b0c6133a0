SPECIFICATION DataPlaneSpec
CONSTANTS
    Paths = {p1}
    Versions = {v1, v2}
    Requests = {r1, r2}
    NoVersion = NoVersion
    MaxGenerations = 3
    h1 = h1
    h2 = h2
    Handles = {h1, h2}
    Demands = {d1}
    HandleOf <- MCHandleOf
    Prefetchers = {h2}
    Windows = {w1}
    Chunks = {k1, k2}
    Flights = {f1, f2}
    NoBlock = NoBlock
    NoFlight = NoFlight
    NoHandle = NoHandle
    MaxPlayback = 1
    MaxPerHandle = 1
    MaxPins = 1
    Records = {s1, s2}
    Workers = {g1, g2, g3}
    NoRecord = NoRecord
    MaxTotal = 1
    MaxRestarts = 1
    MaxDamage = 1
    Readers = {b1, b2}
    Objects = {o1, o2}
    NoReader = NoReader
    NoObject = NoObject
    MaxSlots = 1
    MaxAttempts = 2
    Threshold = 2
    PerEndpoint = 2
    Global = 1
    MaxLeases = 2
INVARIANTS
    PinsExact
    HandleOfItsGeneration
    LedgerExact
    FlightsServeWaiters
    DiskWithinBudget
    SingleResolution
    RefreshIsNew
    PermitsExact
SYMMETRY Symmetry
