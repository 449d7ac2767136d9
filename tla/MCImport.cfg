SPECIFICATION Spec
CONSTANTS
    n1 = n1
    n2 = n2
    d1 = d1
    x = x
    RemoteIds = {1, 2}
    Names = {n1, n2}
    Descriptions = {d1, NoDescription}
    Texts = {x}
    PageSize = 1
    MaxAttempts = 2
    MaxEdits = 2
    MaxRuns = 2
    Blank = Blank
    Absent = Absent
    NoDescription = NoDescription
    None = None
SYMMETRY Symmetry
CHECK_DEADLOCK FALSE
INVARIANTS
    TypeOK
    FilesKeepTexts
    MembershipRecovered
PROPERTIES
    NothingSkipped
    PresenceKept
    RerunIsQuiet
