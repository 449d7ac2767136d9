SPECIFICATION Spec
CONSTANTS
    k1 = k1
    k2 = k2
    t1 = t1
    t2 = t2
    s1 = s1
    s2 = s2
    n1 = n1
    n2 = n2
    KeyIds = {k1, k2}
    TagIds = {t1, t2}
    Names = {n1, n2}
    Sessions = {s1, s2}
    None = None
    Gone = Gone
SYMMETRY Symmetry
INVARIANTS
    
    LinksHaveTags

    
