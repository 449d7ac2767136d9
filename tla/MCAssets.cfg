SPECIFICATION Spec
CONSTANTS
    f1 = f1
    f2 = f2
    f3 = f3
    r1 = r1
    r2 = r2
    Files = {f1, f2, f3}
    Size <- MCSize
    MaxBytes = 1
    KeyIds = {k1}
    Requests = {r1, r2}
    MaxId = 2
    MaxOrder = 2
    k1 = k1
    None = None
SYMMETRY Symmetry
INVARIANTS
    OneAnswer
    ShownInOrder
PROPERTIES
    RowsAreGenuine
