SPECIFICATION Spec
CONSTANTS
    c1 = c1
    b1 = b1
    b2 = b2
    r1 = r1
    r2 = r2
    x = x
    y = y
    Cells <- OneCell
    Texts <- TwoTexts
    Branches <- OneBranch
    Requests <- OneRequest
    BranchOf <- OnlyRequest
    MaxVersion = 3
    Absent = Absent
    Removed = Removed
    Untouched = Untouched
PROPERTIES
    EveryOverwriteIsChosen
