SPECIFICATION Spec
CONSTANTS
    s1 = s1
    s2 = s2
    Sessions <- TwoSessions
    Texts = {"x"}
    Actions = {"approve"}
    MaxTx = 3
    Absent = Absent
    Removed = Removed
    Untouched = Untouched
    Nobody = Nobody
PROPERTIES
    ApprovalCoversWhatLands
