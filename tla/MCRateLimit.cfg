SPECIFICATION LimiterSpec
CONSTANTS
    c1 = c1
    c2 = c2
    r1 = r1
    r2 = r2
    Clients = {c1, c2}
    Senders = {c1, Unknown}
    Requests = {r1, r2}
    Second = 2
    One = 2
    Rate = 1
    Burst = 2
    BucketPruneAt = 1
    MaxTime = 4
    MaxForged = 1
    None = None
    Private = Private
    Garbage = Garbage
    Unknown = Unknown
SYMMETRY Symmetry
CHECK_DEADLOCK FALSE
INVARIANTS
    WindowBounded
    MapBounded
PROPERTIES
    PromiseKept
