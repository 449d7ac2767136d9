SPECIFICATION Spec
CONSTANTS
    s1 = s1
    s2 = s2
    Sessions <- TwoSessions
    Texts = {"x"}
    Actions = {"approve", "reject", "reopen_request"}
    MaxTx = 4
    Absent = Absent
    Removed = Removed
    Untouched = Untouched
    Nobody = Nobody
PROPERTIES
    NoLostUpdate
    MergedIsFinal
    LaterEditsNeedApproval
    LockedRowsRespected
    TransactionsEnd
