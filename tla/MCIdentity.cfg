SPECIFICATION Spec
CONSTANTS
    t1 = t1
    t2 = t2
    r1 = r1
    r2 = r2
    Tokens = {t1, t2}
    Requests = {r1, r2}
    TopRole = 2
    Lifetimes = {1, 4}
    MaxCacheTTL = 2
    Timeout = 1
    PruneAt = 1
    MaxTime = 4
    None = None
SYMMETRY Symmetry
INVARIANTS
    CacheBounded
PROPERTIES
    PassesOnTime
    
