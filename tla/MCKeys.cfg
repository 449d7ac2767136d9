SPECIFICATION Spec
CONSTANTS
    k1 = k1
    k2 = k2
    b1 = b1
    n1 = n1
    n2 = n2
    KeyIds = {k1, k2}
    Names = {n1, n2}
    Branches = {b1}
    Editors = {"e", "f"}
    MaxVersion = 3
    None = None
SYMMETRY Symmetry
CHECK_DEADLOCK FALSE
INVARIANTS
    NamesAreUnique
    MetaConflictIffMoved
    KeyHistoryExplains
PROPERTIES
    NoSilentMetaOverwrite
    NoLostKeyUpdate
    DraftsStayHidden
