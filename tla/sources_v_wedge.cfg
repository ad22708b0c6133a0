SPECIFICATION SourceSpec
CONSTANTS
    Readers = {b1, b2}
    Objects = {o1}
    NoReader = NoReader
    NoObject = NoObject
    MaxSlots = 1
    MaxAttempts = 2
    Threshold = 2
    PerEndpoint = 2
    Global = 1
    MaxLeases = 2
INVARIANTS
    ProbeOutstanding
