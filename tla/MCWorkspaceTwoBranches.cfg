SPECIFICATION Spec
CONSTANTS
    c1 = c1
    b1 = b1
    b2 = b2
    r1 = r1
    r2 = r2
    x = x
    y = y
    Cells <- OneCell
    Texts <- OneText
    Branches <- TwoBranches
    Requests <- TwoRequests
    BranchOf <- OwnBranch
    MaxVersion = 2
    Absent = Absent
    Removed = Removed
    Untouched = Untouched
SYMMETRY OwnBranchSymmetry
INVARIANTS
    ConflictIffMoved
    ApprovalEndorsesDraft
    HistoryExplainsMaster
PROPERTIES
    NoSilentOverwrite
    MergedBranchFrozen
    ImplementsOverlay
