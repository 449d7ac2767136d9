-------------------------- MODULE WorkspaceProofs --------------------------
(***************************************************************************)
(* What holds of Workspace for every set of cells, texts, branches and     *)
(* requests, and for every bound on the versions.                          *)
(***************************************************************************)
EXTENDS Workspace, TLAPS

USE BranchOfAssumption, MaxVersionAssumption, SentinelAssumption

(***************************************************************************)
(* Type correctness.                                                       *)
(***************************************************************************)
LEMMA RememberType ==
    ASSUME TypeOK, NEW W \in SUBSET Cells, NEW gone \in SUBSET Cells,
           NEW imp \in BOOLEAN, Remember(W, gone, imp)
    PROVE  /\ moved' \in [Branches -> SUBSET Cells]
           /\ dropped' \in [Branches -> SUBSET Cells]
           /\ imported' \in SUBSET Cells
BY DEF TypeOK, Remember, Touched

LEMMA RememberApprovalsType ==
    ASSUME TypeOK, RememberApprovals
    PROVE  endorsed' \in [Requests -> [Cells -> Deltas]]
BY DEF TypeOK, RememberApprovals, Nothing, Deltas

LEMMA InitType == Init => TypeOK
<1> SUFFICES ASSUME Init PROVE TypeOK
    OBVIOUS
<1>1. /\ value \in [Cells -> MasterTexts]
      /\ version \in [Cells -> Nat]
      /\ logged \in [Cells -> [text : MasterTexts, version : Nat]]
      /\ shipped \in [Cells -> MasterTexts]
      /\ imported \in SUBSET Cells
  BY DEF Init, MasterTexts
<1>2. /\ draft \in [Branches -> [Cells -> Deltas]]
      /\ base \in [Branches -> [Cells -> Nat]]
      /\ branchStatus \in [Branches -> BranchStatuses]
      /\ moved \in [Branches -> SUBSET Cells]
      /\ dropped \in [Branches -> SUBSET Cells]
  BY DEF Init, Deltas, BranchStatuses
<1>3. /\ mrStatus \in [Requests -> MRStatuses]
      /\ resolution \in [Requests -> [Cells -> Resolutions]]
      /\ endorsed \in [Requests -> [Cells -> Deltas]]
  BY DEF Init, Deltas, MRStatuses, Resolutions
<1> QED
  BY <1>1, <1>2, <1>3 DEF TypeOK

LEMMA WriteRowType ==
    ASSUME TypeOK, NEW c \in Cells, NEW t \in Texts, WriteRow(c, t)
    PROVE  /\ value' \in [Cells -> MasterTexts]
           /\ version' \in [Cells -> Nat]
           /\ version[c] + 1 \in Nat
BY DEF TypeOK, WriteRow, MasterTexts

LEMMA RecordHistoryType ==
    ASSUME TypeOK, NEW c \in Cells, NEW t \in MasterTexts, NEW v \in Nat,
           RecordHistory(c, t, v)
    PROVE  logged' \in [Cells -> [text : MasterTexts, version : Nat]]
BY DEF TypeOK, RecordHistory

LEMMA EditMasterType == TypeOK /\ EditMaster => TypeOK'
<1> SUFFICES ASSUME TypeOK, EditMaster PROVE TypeOK'
    OBVIOUS
<1>1. ASSUME NEW c \in Cells, NEW t \in Texts, SetOnMaster(c, t) PROVE TypeOK'
  <2>1. Remember({c}, {}, FALSE)
    BY <1>1 DEF SetOnMaster
  <2>2. /\ moved' \in [Branches -> SUBSET Cells]
        /\ dropped' \in [Branches -> SUBSET Cells]
        /\ imported' \in SUBSET Cells
    BY <2>1, RememberType
  <2>3. /\ value' \in [Cells -> MasterTexts]
        /\ version' \in [Cells -> Nat]
        /\ version[c] + 1 \in Nat
    BY <1>1, WriteRowType DEF SetOnMaster
  <2>4. logged' \in [Cells -> [text : MasterTexts, version : Nat]]
    BY <1>1, <2>3, RecordHistoryType DEF SetOnMaster, MasterTexts
  <2> QED
    BY <1>1, <2>2, <2>3, <2>4 DEF TypeOK, SetOnMaster
<1>2. ASSUME NEW c \in Cells, NEW t \in Texts, Import(c, t) PROVE TypeOK'
  <2>1. Remember({c}, {}, TRUE)
    BY <1>2 DEF Import
  <2>2. /\ moved' \in [Branches -> SUBSET Cells]
        /\ dropped' \in [Branches -> SUBSET Cells]
        /\ imported' \in SUBSET Cells
    BY <2>1, RememberType
  <2>3. /\ value' \in [Cells -> MasterTexts]
        /\ version' \in [Cells -> Nat]
    BY <1>2, WriteRowType DEF Import
  <2> QED
    BY <1>2, <2>2, <2>3 DEF TypeOK, Import
<1>3. ASSUME NEW c \in Cells, DeleteOnMaster(c) PROVE TypeOK'
  <2>1. Remember({c}, {c}, FALSE)
    BY <1>3 DEF DeleteOnMaster
  <2> QED
    BY <1>3, <2>1, RememberType
       DEF TypeOK, DeleteOnMaster, DeleteRow, RecordHistory, MasterTexts
<1> QED
  BY <1>1, <1>2, <1>3 DEF EditMaster

LEMMA EditBranchType == TypeOK /\ EditBranch => TypeOK'
<1> SUFFICES ASSUME TypeOK, EditBranch PROVE TypeOK'
    OBVIOUS
<1>1. ASSUME NEW b \in Branches, CreateBranch(b) \/ CloseBranch(b) \/ ReopenBranch(b)
      PROVE  TypeOK'
  <2>1. PICK s \in BranchStatuses : SetBranchStatus(b, s)
    BY <1>1 DEF CreateBranch, CloseBranch, ReopenBranch, BranchStatuses
  <2> QED
    BY <2>1 DEF TypeOK, SetBranchStatus, ghosts
<1>2. ASSUME NEW b \in Branches, NEW c \in Cells, NEW d \in Texts \cup {Removed},
             WriteDelta(b, c, d)
      PROVE  TypeOK'
  <2>1. draft' \in [Branches -> [Cells -> Deltas]]
    BY <1>2 DEF TypeOK, WriteDelta, Deltas
  <2>2. base' \in [Branches -> [Cells -> Nat]]
    BY <1>2 DEF TypeOK, WriteDelta, DeltaBase
  <2>3. mrStatus' \in [Requests -> MRStatuses]
    BY <1>2 DEF TypeOK, WriteDelta, ApprovalsInvalidated, MRStatuses
  <2>4. endorsed' \in [Requests -> [Cells -> Deltas]]
    BY <1>2, RememberApprovalsType DEF WriteDelta
  <2> QED
    BY <1>2, <2>1, <2>2, <2>3, <2>4 DEF TypeOK, WriteDelta
<1> QED
  BY <1>1, <1>2 DEF EditBranch, SetOnBranch, RemoveOnBranch

LEMMA MergeType == ASSUME TypeOK, NEW r \in Requests, Merge(r) PROVE TypeOK'
<1> DEFINE b == BranchOf[r]
<1>1. b \in Branches
  OBVIOUS
<1>2. /\ Upserted(r) \in SUBSET Cells
      /\ Deleted(r) \in SUBSET Cells
      /\ \A c \in Upserted(r) : draft[b][c] \in Texts
  BY <1>1 DEF TypeOK, Upserted, Deleted, Eligible, Touched, Deltas
<1>3. MergedValue(r) \in [Cells -> MasterTexts]
  BY <1>2 DEF TypeOK, MergedValue, MasterTexts
<1>4. MergedVersion(r) \in [Cells -> Nat]
  BY <1>2 DEF TypeOK, MergedVersion
<1>5. MergedLog(r) \in [Cells -> [text : MasterTexts, version : Nat]]
  BY <1>2 DEF TypeOK, MergedLog, MasterTexts
<1>6. /\ moved' \in [Branches -> SUBSET Cells]
      /\ dropped' \in [Branches -> SUBSET Cells]
      /\ imported' \in SUBSET Cells
  <2>1. Remember(Written(r), Deleted(r), FALSE)
    BY DEF Merge
  <2> QED
    BY <2>1, <1>2, RememberType DEF Written
<1>7. endorsed' \in [Requests -> [Cells -> Deltas]]
  BY RememberApprovalsType DEF Merge
<1>8. /\ mrStatus' \in [Requests -> MRStatuses]
      /\ branchStatus' \in [Branches -> BranchStatuses]
  BY DEF TypeOK, Merge, MRStatuses, BranchStatuses
<1>9. UNCHANGED <<draft, base, resolution>> /\ shipped' = value'
  BY DEF Merge, BundlesAtMerge
<1> QED
  BY <1>3, <1>4, <1>5, <1>6, <1>7, <1>8, <1>9 DEF TypeOK, Merge

LEMMA ReviewType == TypeOK /\ Review => TypeOK'
<1> SUFFICES ASSUME TypeOK, Review PROVE TypeOK'
    OBVIOUS
<1>1. ASSUME NEW r \in Requests, NEW s \in MRStatuses, SetMRStatus(r, s) PROVE TypeOK'
  <2>1. endorsed' \in [Requests -> [Cells -> Deltas]]
    BY <1>1, RememberApprovalsType DEF SetMRStatus
  <2> QED
    BY <1>1, <2>1 DEF TypeOK, SetMRStatus
<1>2. ASSUME NEW r \in Requests,
             \/ CreateRequest(r) \/ Approve(r) \/ RequestChanges(r)
             \/ Reject(r) \/ CloseRequest(r) \/ ReopenRequest(r)
      PROVE  TypeOK'
  BY <1>1, <1>2 DEF CreateRequest, Approve, RequestChanges, Reject, CloseRequest,
     ReopenRequest, MRStatuses
<1>3. ASSUME NEW r \in Requests, NEW c \in Cells, NEW choice \in {"mine", "master"},
             Resolve(r, c, choice)
      PROVE  TypeOK'
  BY <1>3 DEF TypeOK, Resolve, Resolutions
<1>4. ASSUME NEW r \in Requests, Merge(r) PROVE TypeOK'
  BY <1>4, MergeType
<1> QED
  BY <1>2, <1>3, <1>4 DEF Review

LEMMA NextType == TypeOK /\ [Next]_vars => TypeOK'
<1> SUFFICES ASSUME TypeOK, [Next]_vars PROVE TypeOK'
    OBVIOUS
<1>1. CASE EditMaster
  BY <1>1, EditMasterType
<1>2. CASE Publish
  BY <1>2 DEF TypeOK, Publish, ghosts
<1>3. CASE EditBranch
  BY <1>3, EditBranchType
<1>4. CASE Review
  BY <1>4, ReviewType
<1>5. CASE UNCHANGED vars
  BY <1>5 DEF TypeOK, vars, database, ghosts
<1> QED
  BY <1>1, <1>2, <1>3, <1>4, <1>5 DEF Next

\* Every reachable state is well typed: no handler leaves a status, a version
\* or a delta outside the values the schema's checks allow.
THEOREM TypeCorrect == Spec => []TypeOK
<1>1. Init => TypeOK
  BY InitType
<1>2. TypeOK /\ [Next]_vars => TypeOK'
  BY NextType
<1> QED
  BY <1>1, <1>2, PTL DEF Spec

(***************************************************************************)
(* The conflict rule.  ConflictIffMoved is not inductive alone: the first  *)
(* edit of a cell takes master's present version as the base, and is       *)
(* uncontested only because nothing can be moved that is not yet touched.  *)
(* A tombstoned base then matters only to cells master rewrote as well.    *)
(***************************************************************************)
MovedAreTouched == \A b \in Branches : moved[b] \subseteq Touched(b)
DroppedAreMoved == \A b \in Branches : dropped[b] \subseteq moved[b]
ConflictInv == TypeOK /\ MovedAreTouched /\ DroppedAreMoved /\ ConflictIffMoved

\* Every write of master, whoever makes it, keeps the rule: the rows at W move
\* on by one version, except those in gone, which go away.
LEMMA MasterWriteKeepsRule ==
    ASSUME ConflictInv, NEW W \in SUBSET Cells, NEW gone \in SUBSET W,
           NEW imp \in BOOLEAN, Remember(W, gone, imp), TypeOK',
           UNCHANGED <<draft, base>>,
           \A c \in Cells \ W : version'[c] = version[c],
           \A c \in W \ gone : version'[c] = version[c] + 1
    PROVE  ConflictInv'
<1>1. ASSUME NEW b \in Branches
      PROVE  /\ Touched(b)' = Touched(b)
             /\ moved'[b] = moved[b] \cup (W \cap Touched(b))
             /\ dropped'[b] = dropped[b] \cup (gone \cap Touched(b))
  BY <1>1 DEF Touched, Remember
<1>2. MovedAreTouched'
  BY <1>1 DEF ConflictInv, MovedAreTouched
<1>3. DroppedAreMoved'
  BY <1>1 DEF ConflictInv, DroppedAreMoved
<1>4. ASSUME NEW b \in Branches, NEW c \in Touched(b) \ dropped'[b]
      PROVE  /\ version'[c] >= base'[b][c]
             /\ Conflicted(b, c)' <=> c \in moved'[b]
  <2>1. c \in Cells /\ c \in Touched(b) \ dropped[b] /\ c \notin gone
    BY <1>1, <1>4 DEF Touched
  <2>2. /\ version[c] \in Nat /\ base[b][c] \in Nat /\ version[c] >= base[b][c]
        /\ version[c] # base[b][c] <=> c \in moved[b]
    BY <2>1 DEF ConflictInv, ConflictIffMoved, Conflicted, TypeOK, Touched
  <2>3. Conflicted(b, c)' <=> version'[c] # base[b][c]
    BY <2>1 DEF Conflicted, Touched
  <2>4. CASE c \in W
    BY <2>1, <2>2, <2>3, <2>4, <1>1
  <2>5. CASE c \notin W
    BY <2>1, <2>2, <2>3, <2>5, <1>1
  <2> QED
    BY <2>4, <2>5
<1> QED
  BY <1>1, <1>2, <1>3, <1>4 DEF ConflictInv, ConflictIffMoved

\* A branch edit keeps the rule: the base is taken once, and is then current.
LEMMA DeltaKeepsRule ==
    ASSUME ConflictInv, TypeOK', NEW b \in Branches, NEW c \in Cells,
           NEW d \in Texts \cup {Removed}, WriteDelta(b, c, d)
    PROVE  ConflictInv'
<1>1. ASSUME NEW p \in Branches
      PROVE  Touched(p)' = IF p = b THEN Touched(p) \cup {c} ELSE Touched(p)
  BY <1>1 DEF WriteDelta, Touched, ConflictInv, TypeOK
<1>2. UNCHANGED <<version, moved, dropped>>
  BY DEF WriteDelta
<1>3. MovedAreTouched' /\ DroppedAreMoved'
  BY <1>1, <1>2 DEF ConflictInv, MovedAreTouched, DroppedAreMoved
<1>4. ASSUME NEW p \in Branches, NEW e \in Touched(p)' \ dropped[p]
      PROVE  /\ version[e] >= base'[p][e]
             /\ Conflicted(p, e)' <=> e \in moved[p]
  <2>1. e \in Cells /\ draft'[p][e] # Untouched /\ version[e] \in Nat
    BY <1>4 DEF Touched, ConflictInv, TypeOK
  <2>2. Conflicted(p, e)' <=> version[e] # base'[p][e]
    BY <2>1, <1>2 DEF Conflicted
  <2>3. CASE p = b /\ e = c /\ draft[b][c] = Untouched
    <3>1. base'[p][e] = version[e]
      BY <2>3 DEF WriteDelta, DeltaBase, ConflictInv, TypeOK
    <3>2. e \notin moved[p]
      BY <2>3 DEF ConflictInv, MovedAreTouched, Touched
    <3> QED
      BY <3>1, <3>2, <2>1, <2>2
  <2>4. CASE ~(p = b /\ e = c /\ draft[b][c] = Untouched)
    <3>1. base'[p][e] = base[p][e] /\ e \in Touched(p)
      BY <1>4, <2>1, <2>4 DEF WriteDelta, DeltaBase, ConflictInv, TypeOK, Touched
    <3>2. /\ version[e] >= base[p][e]
          /\ version[e] # base[p][e] <=> e \in moved[p]
      BY <1>4, <3>1 DEF ConflictInv, ConflictIffMoved, Conflicted, Touched
    <3> QED
      BY <3>1, <3>2, <2>2
  <2> QED
    BY <2>3, <2>4
<1> QED
  BY <1>2, <1>3, <1>4 DEF ConflictInv, ConflictIffMoved

LEMMA EditMasterKeepsRule == ConflictInv /\ TypeOK' /\ EditMaster => ConflictInv'
<1> SUFFICES ASSUME ConflictInv, TypeOK', EditMaster PROVE ConflictInv'
    OBVIOUS
<1>1. ASSUME NEW c \in Cells, NEW t \in Texts, SetOnMaster(c, t) \/ Import(c, t)
      PROVE  ConflictInv'
  <2>1. PICK imp \in BOOLEAN : Remember({c}, {}, imp)
    BY <1>1 DEF SetOnMaster, Import
  <2>2. UNCHANGED <<draft, base>> /\ version' = [version EXCEPT ![c] = @ + 1]
    BY <1>1 DEF SetOnMaster, Import, WriteRow
  <2>3. /\ \A e \in Cells \ {c} : version'[e] = version[e]
        /\ \A e \in {c} \ {} : version'[e] = version[e] + 1
    BY <2>2 DEF ConflictInv, TypeOK
  <2> QED
    BY <2>1, <2>2, <2>3, MasterWriteKeepsRule
<1>2. ASSUME NEW c \in Cells, DeleteOnMaster(c) PROVE ConflictInv'
  <2>1. Remember({c}, {c}, FALSE)
    BY <1>2 DEF DeleteOnMaster
  <2>2. UNCHANGED <<draft, base>> /\ version' = [version EXCEPT ![c] = 0]
    BY <1>2 DEF DeleteOnMaster, DeleteRow
  <2>3. /\ \A e \in Cells \ {c} : version'[e] = version[e]
        /\ \A e \in {c} \ {c} : version'[e] = version[e] + 1
    BY <2>2 DEF ConflictInv, TypeOK
  <2> QED
    BY <2>1, <2>2, <2>3, MasterWriteKeepsRule
<1> QED
  BY <1>1, <1>2 DEF EditMaster

LEMMA MergeKeepsRule ==
    ASSUME ConflictInv, TypeOK', NEW r \in Requests, Merge(r) PROVE ConflictInv'
<1>1. Remember(Written(r), Deleted(r), FALSE) /\ UNCHANGED <<draft, base>>
  BY DEF Merge
<1>2. /\ Written(r) \in SUBSET Cells
      /\ Deleted(r) \in SUBSET Written(r)
  BY DEF Written, Deleted, Upserted, Eligible, Touched
<1>3. /\ \A c \in Cells \ Written(r) : version'[c] = version[c]
      /\ \A c \in Written(r) \ Deleted(r) : version'[c] = version[c] + 1
  BY <1>2 DEF Merge, MergedVersion, Written
<1> QED
  BY <1>1, <1>2, <1>3, MasterWriteKeepsRule

\* Steps that write neither master nor a delta leave the rule alone.
LEMMA OthersKeepRule ==
    ASSUME ConflictInv, TypeOK', UNCHANGED <<version, draft, base, moved, dropped>>
    PROVE  ConflictInv'
BY DEF ConflictInv, MovedAreTouched, DroppedAreMoved, ConflictIffMoved,
       Conflicted, Touched

LEMMA NextKeepsRule == ConflictInv /\ [Next]_vars => ConflictInv'
<1> SUFFICES ASSUME ConflictInv, [Next]_vars PROVE ConflictInv'
    OBVIOUS
<1>0. TypeOK'
  BY NextType DEF ConflictInv
<1>1. CASE EditMaster
  BY <1>0, <1>1, EditMasterKeepsRule
<1>2. CASE Publish \/ UNCHANGED vars
  BY <1>0, <1>2, OthersKeepRule DEF Publish, vars, database, ghosts
<1>3. CASE EditBranch
  <2>1. ASSUME NEW b \in Branches, CreateBranch(b) \/ CloseBranch(b) \/ ReopenBranch(b)
        PROVE  ConflictInv'
    BY <1>0, <2>1, OthersKeepRule
       DEF CreateBranch, CloseBranch, ReopenBranch, SetBranchStatus, ghosts
  <2>2. ASSUME NEW b \in Branches, NEW c \in Cells, NEW d \in Texts \cup {Removed},
               WriteDelta(b, c, d)
        PROVE  ConflictInv'
    BY <1>0, <2>2, DeltaKeepsRule
  <2> QED
    BY <1>3, <2>1, <2>2 DEF EditBranch, SetOnBranch, RemoveOnBranch
<1>4. CASE Review
  <2>1. ASSUME NEW r \in Requests,
               \/ CreateRequest(r) \/ Approve(r) \/ RequestChanges(r)
               \/ Reject(r) \/ CloseRequest(r) \/ ReopenRequest(r)
        PROVE  ConflictInv'
    BY <1>0, <2>1, OthersKeepRule DEF CreateRequest, Approve, RequestChanges,
       Reject, CloseRequest, ReopenRequest, SetMRStatus
  <2>2. ASSUME NEW r \in Requests, NEW c \in Cells, NEW choice \in {"mine", "master"},
               Resolve(r, c, choice)
        PROVE  ConflictInv'
    BY <1>0, <2>2, OthersKeepRule DEF Resolve
  <2>3. ASSUME NEW r \in Requests, Merge(r) PROVE ConflictInv'
    BY <1>0, <2>3, MergeKeepsRule
  <2> QED
    BY <1>4, <2>1, <2>2, <2>3 DEF Review
<1> QED
  BY <1>1, <1>2, <1>3, <1>4 DEF Next

LEMMA InitRule == Init => ConflictInv
<1> SUFFICES ASSUME Init PROVE ConflictInv
    OBVIOUS
<1>1. TypeOK
  BY InitType
<1>2. \A b \in Branches : Touched(b) = {} /\ moved[b] = {} /\ dropped[b] = {}
  BY DEF Init, Touched
<1> QED
  BY <1>1, <1>2 DEF ConflictInv, MovedAreTouched, DroppedAreMoved, ConflictIffMoved

LEMMA RuleInvariant == Spec => []ConflictInv
<1>1. Init => ConflictInv
  BY InitRule
<1>2. ConflictInv /\ [Next]_vars => ConflictInv'
  BY NextKeepsRule
<1> QED
  BY <1>1, <1>2, PTL DEF Spec

\* The comparison of conflictsSQL is exact for every number of branches, edits
\* and merges: a cell whose master row was not deleted since the branch first
\* touched it conflicts precisely when master rewrote it.
THEOREM ConflictsAreExact == Spec => []ConflictIffMoved
<1>1. ConflictInv => ConflictIffMoved
  BY DEF ConflictInv
<1> QED
  BY <1>1, RuleInvariant, PTL

(***************************************************************************)
(* What a step does, whoever takes it.  Most properties are about one or   *)
(* two of the variables, and only these few actions write them.            *)
(***************************************************************************)

\* Every step writes one cell of master, one delta, or merges, or leaves
\* master, the deltas and the log of master alone.
MasterStep(c) == (\E t \in Texts : SetOnMaster(c, t) \/ Import(c, t)) \/ DeleteOnMaster(c)
StatusStep ==
    \/ \E b \in Branches : CreateBranch(b) \/ CloseBranch(b) \/ ReopenBranch(b)
    \/ \E r \in Requests, s \in MRStatuses \ {"merged"} : SetMRStatus(r, s)
    \/ \E r \in Requests, c \in Cells, choice \in {"mine", "master"} :
           Resolve(r, c, choice)

LEMMA StepCases ==
    ASSUME [Next]_vars
    PROVE  \/ \E c \in Cells : MasterStep(c)
           \/ Publish
           \/ \E b \in Branches, c \in Cells, d \in Texts \cup {Removed} :
                  WriteDelta(b, c, d)
           \/ StatusStep
           \/ \E r \in Requests : Merge(r)
           \/ UNCHANGED vars
<1>1. CASE EditMaster
  BY <1>1 DEF EditMaster, MasterStep
<1>2. CASE Publish \/ UNCHANGED vars
  BY <1>2
<1>3. CASE EditBranch
  BY <1>3 DEF EditBranch, SetOnBranch, RemoveOnBranch, StatusStep
<1>4. CASE Review
  <2>1. ASSUME NEW r \in Requests,
               \/ CreateRequest(r) \/ Approve(r) \/ RequestChanges(r)
               \/ Reject(r) \/ CloseRequest(r) \/ ReopenRequest(r)
        PROVE  \E s \in MRStatuses \ {"merged"} : SetMRStatus(r, s)
    BY <2>1 DEF CreateRequest, Approve, RequestChanges, Reject, CloseRequest,
       ReopenRequest, MRStatuses
  <2>2. PICK r \in Requests :
            \/ CreateRequest(r) \/ Approve(r) \/ RequestChanges(r)
            \/ Reject(r) \/ CloseRequest(r) \/ ReopenRequest(r)
            \/ \E c \in Cells, choice \in {"mine", "master"} : Resolve(r, c, choice)
            \/ Merge(r)
    BY <1>4 DEF Review
  <2> QED
    BY <2>1, <2>2 DEF StatusStep
<1> QED
  BY <1>1, <1>2, <1>3, <1>4 DEF Next

\* Only a merge makes a request merged.
LEMMA OnlyMergeMerges ==
    ASSUME TypeOK, [Next]_vars, NEW r \in Requests, Merges(r)
    PROVE  Merge(r)
<1>1. CASE \E c \in Cells : MasterStep(c)
  BY <1>1 DEF MasterStep, SetOnMaster, Import, DeleteOnMaster, Merges
<1>2. CASE Publish \/ UNCHANGED vars
  BY <1>2 DEF Publish, vars, database, Merges
<1>3. ASSUME NEW b \in Branches, NEW c \in Cells, NEW d \in Texts \cup {Removed},
             WriteDelta(b, c, d)
      PROVE  FALSE
  BY <1>3 DEF WriteDelta, ApprovalsInvalidated, Merges
<1>4. CASE StatusStep
  <2>1. ASSUME NEW q \in Requests, NEW s \in MRStatuses \ {"merged"}, SetMRStatus(q, s)
        PROVE  FALSE
    BY <2>1 DEF SetMRStatus, Merges, TypeOK
  <2> QED
    BY <1>4, <2>1 DEF StatusStep, CreateBranch, CloseBranch, ReopenBranch,
       SetBranchStatus, Resolve, Merges
<1>5. ASSUME NEW q \in Requests, Merge(q) PROVE Merge(r)
  <2>1. r = q
    BY <1>5 DEF Merge, Merges, TypeOK
  <2> QED
    BY <1>5, <2>1
<1> QED
  BY <1>1, <1>2, <1>3, <1>4, <1>5, StepCases

(***************************************************************************)
(* The merge and the conflict rule.                                        *)
(***************************************************************************)
LEMMA MergeOverwritesNothingSilently ==
    ASSUME ConflictInv, NEW r \in Requests, Merge(r),
           NEW c \in moved[BranchOf[r]] \ dropped[BranchOf[r]], value'[c] # value[c]
    PROVE  resolution[r][c] = "mine"
<1> DEFINE b == BranchOf[r]
<1>1. b \in Branches /\ c \in Touched(b) \ dropped[b] /\ c \in Cells
  BY DEF ConflictInv, MovedAreTouched, Touched
<1>2. Conflicted(b, c)
  BY <1>1 DEF ConflictInv, ConflictIffMoved
<1>3. c \in Eligible(r)
  BY <1>1 DEF Merge, MergedValue, Upserted, Deleted
<1> QED
  BY <1>2, <1>3 DEF Merge, Applicable

\* No merge, on any branch and after any history of edits, replaces a text that
\* master gained behind the branch's back without a 'mine' resolution for it.
THEOREM NothingOverwrittenSilently == Spec => NoSilentOverwrite
<1>1. ConflictInv /\ [Next]_vars =>
        \A r \in Requests : Merges(r) =>
           \A c \in moved[BranchOf[r]] \ dropped[BranchOf[r]] :
              value'[c] # value[c] => resolution[r][c] = "mine"
  <2> SUFFICES ASSUME ConflictInv, [Next]_vars, NEW r \in Requests, Merges(r),
                      NEW c \in moved[BranchOf[r]] \ dropped[BranchOf[r]],
                      value'[c] # value[c]
               PROVE  resolution[r][c] = "mine"
      OBVIOUS
  <2>1. Merge(r)
    BY OnlyMergeMerges DEF ConflictInv
  <2> QED
    BY <2>1, MergeOverwritesNothingSilently
<1> QED
  BY <1>1, RuleInvariant, PTL DEF Spec, NoSilentOverwrite

(***************************************************************************)
(* Merged branches and standing approvals.                                 *)
(***************************************************************************)

\* A merged branch is out of reach of every later step, so its deltas stay as
\* the record of what was merged, for every number of branches and requests.
THEOREM MergedBranchesStay == Spec => MergedBranchFrozen
<1> DEFINE Frozen(b) == /\ branchStatus'[b] = "merged"
                        /\ draft'[b] = draft[b]
                        /\ base'[b] = base[b]
<1>1. TypeOK /\ [Next]_vars =>
        \A b \in Branches : branchStatus[b] = "merged" => Frozen(b)
  <2> SUFFICES ASSUME TypeOK, [Next]_vars, NEW b \in Branches, branchStatus[b] = "merged"
               PROVE  Frozen(b)
      OBVIOUS
  <2>1. CASE \E c \in Cells : MasterStep(c)
    BY <2>1 DEF MasterStep, SetOnMaster, Import, DeleteOnMaster
  <2>2. CASE Publish \/ UNCHANGED vars
    BY <2>2 DEF Publish, vars, database
  <2>3. ASSUME NEW p \in Branches, NEW c \in Cells, NEW d \in Texts \cup {Removed},
               WriteDelta(p, c, d)
        PROVE  Frozen(b)
    <3>1. p # b /\ UNCHANGED branchStatus
      BY <2>3 DEF WriteDelta
    <3> QED
      BY <2>3, <3>1 DEF WriteDelta, TypeOK
  <2>4. CASE StatusStep
    <3>1. ASSUME NEW p \in Branches, CreateBranch(p) \/ CloseBranch(p) \/ ReopenBranch(p)
          PROVE  Frozen(b)
      BY <3>1 DEF CreateBranch, CloseBranch, ReopenBranch, SetBranchStatus, TypeOK
    <3> QED
      BY <2>4, <3>1 DEF StatusStep, SetMRStatus, Resolve
  <2>5. ASSUME NEW r \in Requests, Merge(r) PROVE Frozen(b)
    BY <2>5 DEF Merge, TypeOK
  <2> QED
    BY <2>1, <2>2, <2>3, <2>4, <2>5, StepCases
<1> QED
  BY <1>1, TypeCorrect, PTL DEF Spec, MergedBranchFrozen

LEMMA StepKeepsEndorsement ==
    ASSUME TypeOK, ApprovalEndorsesDraft, [Next]_vars
    PROVE  ApprovalEndorsesDraft'
<1> SUFFICES ASSUME NEW r \in Requests, mrStatus'[r] = "approved"
             PROVE  draft'[BranchOf[r]] = endorsed'[r]
    BY DEF ApprovalEndorsesDraft
<1>1. mrStatus[r] = "approved" => draft[BranchOf[r]] = endorsed[r]
  BY DEF ApprovalEndorsesDraft
<1>2. CASE UNCHANGED <<draft, endorsed, mrStatus>>
  BY <1>1, <1>2
<1>3. CASE RememberApprovals /\ UNCHANGED draft
  BY <1>1, <1>3 DEF RememberApprovals
<1>4. ASSUME NEW b \in Branches, NEW c \in Cells, NEW d \in Texts \cup {Removed},
             WriteDelta(b, c, d)
      PROVE  draft'[BranchOf[r]] = endorsed'[r]
  <2>1. mrStatus[r] = "approved" /\ BranchOf[r] # b
    BY <1>4 DEF WriteDelta, ApprovalsInvalidated
  <2>2. draft'[BranchOf[r]] = draft[BranchOf[r]]
    BY <1>4, <2>1 DEF WriteDelta, TypeOK
  <2>3. endorsed'[r] = endorsed[r]
    BY <1>4, <2>1 DEF WriteDelta, RememberApprovals
  <2> QED
    BY <1>1, <2>1, <2>2, <2>3
<1>5. ASSUME NEW c \in Cells, MasterStep(c) PROVE UNCHANGED <<draft, endorsed, mrStatus>>
  BY <1>5 DEF MasterStep, SetOnMaster, Import, DeleteOnMaster
<1>6. CASE Publish \/ UNCHANGED vars
  BY <1>2, <1>6 DEF Publish, vars, database, ghosts
<1>7. CASE StatusStep
  <2>1. ASSUME NEW b \in Branches, CreateBranch(b) \/ CloseBranch(b) \/ ReopenBranch(b)
        PROVE  UNCHANGED <<draft, endorsed, mrStatus>>
    BY <2>1 DEF CreateBranch, CloseBranch, ReopenBranch, SetBranchStatus, ghosts
  <2> QED
    BY <1>2, <1>3, <1>7, <2>1 DEF StatusStep, SetMRStatus, Resolve
<1>8. ASSUME NEW q \in Requests, Merge(q) PROVE RememberApprovals /\ UNCHANGED draft
  BY <1>8 DEF Merge
<1> QED
  BY <1>2, <1>3, <1>4, <1>5, <1>6, <1>7, <1>8, StepCases

\* An approval never outlives the drafts it was given to, whatever the number
\* of requests on the branch: an edit always takes it back.
THEOREM ApprovalsEndorse == Spec => []ApprovalEndorsesDraft
<1>1. Init => ApprovalEndorsesDraft
  BY DEF Init, ApprovalEndorsesDraft
<1>2. TypeOK /\ ApprovalEndorsesDraft /\ [Next]_vars => ApprovalEndorsesDraft'
  BY StepKeepsEndorsement
<1> QED
  BY <1>1, <1>2, TypeCorrect, PTL DEF Spec

(***************************************************************************)
(* The rows of master and their history.                                   *)
(***************************************************************************)

\* A row has a version exactly while it exists.
RowsHaveVersions == \A c \in Cells : value[c] = Absent <=> version[c] = 0
HistoryInv == TypeOK /\ RowsHaveVersions /\ HistoryExplainsMaster

LEMMA MasterStepKeepsHistory ==
    ASSUME HistoryInv, TypeOK', NEW c \in Cells, MasterStep(c)
    PROVE  HistoryInv'
<1>1. ASSUME NEW t \in Texts, SetOnMaster(c, t) \/ Import(c, t)
      PROVE  value' = [value EXCEPT ![c] = t] /\ version' = [version EXCEPT ![c] = @ + 1]
  BY <1>1 DEF SetOnMaster, Import, WriteRow
<1>2. ASSUME DeleteOnMaster(c)
      PROVE  value' = [value EXCEPT ![c] = Absent] /\ version' = [version EXCEPT ![c] = 0]
  BY <1>2 DEF DeleteOnMaster, DeleteRow
<1>3. RowsHaveVersions'
  <2>0. /\ value \in [Cells -> MasterTexts]
        /\ version \in [Cells -> Nat]
        /\ RowsHaveVersions
    BY DEF HistoryInv, TypeOK
  <2>1. ASSUME NEW t \in Texts, SetOnMaster(c, t) \/ Import(c, t)
        PROVE  RowsHaveVersions'
    BY <1>1, <2>0, <2>1 DEF RowsHaveVersions
  <2>2. ASSUME DeleteOnMaster(c) PROVE RowsHaveVersions'
    BY <1>2, <2>0, <2>2 DEF RowsHaveVersions
  <2> QED
    BY <2>1, <2>2 DEF MasterStep
<1>4. ASSUME NEW e \in Cells \ imported'
      PROVE  /\ logged'[e].text = value'[e]
             /\ value'[e] # Absent => logged'[e].version = version'[e]
  <2>1. ASSUME NEW t \in Texts, Import(c, t) PROVE e # c /\ UNCHANGED logged
    BY <1>4, <2>1 DEF Import, Remember
  <2>2. e # c => e \notin imported
    BY <1>4 DEF MasterStep, SetOnMaster, Import, DeleteOnMaster, Remember
  <2>3. e # c => /\ logged[e].text = value[e]
                 /\ value[e] # Absent => logged[e].version = version[e]
    BY <2>2 DEF HistoryInv, HistoryExplainsMaster
  <2>4. ASSUME NEW t \in Texts, SetOnMaster(c, t)
        PROVE  logged' = [logged EXCEPT ![c] = [text |-> t, version |-> version[c] + 1]]
    BY <2>4 DEF SetOnMaster, RecordHistory
  <2>5. ASSUME DeleteOnMaster(c)
        PROVE  logged' = [logged EXCEPT ![c] = [text |-> Absent, version |-> version[c]]]
    BY <2>5 DEF DeleteOnMaster, RecordHistory
  <2> QED
    BY <1>1, <1>2, <2>1, <2>3, <2>4, <2>5 DEF MasterStep, HistoryInv, TypeOK
<1> QED
  BY <1>3, <1>4 DEF HistoryInv, HistoryExplainsMaster

LEMMA MergeKeepsHistory ==
    ASSUME HistoryInv, TypeOK', NEW r \in Requests, Merge(r)
    PROVE  HistoryInv'
<1>1. /\ value' = MergedValue(r)
      /\ version' = MergedVersion(r)
      /\ logged' = MergedLog(r)
      /\ imported' = imported \ Written(r)
  BY DEF Merge, Remember
<1>2. \A c \in Upserted(r) : c \in Cells /\ draft[BranchOf[r]][c] \in Texts
  BY DEF HistoryInv, TypeOK, Upserted, Eligible, Touched, Deltas
<1>3. Upserted(r) \cap Deleted(r) = {}
  BY DEF Upserted, Deleted
<1>4. RowsHaveVersions'
  BY <1>1, <1>2 DEF MergedValue, MergedVersion, HistoryInv, TypeOK, RowsHaveVersions
<1>5. ASSUME NEW c \in Cells \ imported'
      PROVE  /\ logged'[c].text = value'[c]
             /\ value'[c] # Absent => logged'[c].version = version'[c]
  <2>1. CASE c \in Upserted(r)
    BY <1>1, <1>2, <2>1 DEF MergedValue, MergedVersion, MergedLog
  <2>2. CASE c \in Deleted(r)
    BY <1>1, <1>3, <2>2 DEF MergedValue, MergedVersion, MergedLog
  <2>3. CASE c \notin Written(r)
    <3>1. /\ value'[c] = value[c]
          /\ version'[c] = version[c]
          /\ logged'[c] = logged[c]
          /\ c \notin imported
      BY <1>1, <1>5, <2>3 DEF MergedValue, MergedVersion, MergedLog, Written
    <3> QED
      BY <3>1 DEF HistoryInv, HistoryExplainsMaster
  <2> QED
    BY <2>1, <2>2, <2>3 DEF Written
<1> QED
  BY <1>4, <1>5 DEF HistoryInv, HistoryExplainsMaster

LEMMA StepKeepsHistory == HistoryInv /\ [Next]_vars => HistoryInv'
<1> SUFFICES ASSUME HistoryInv, [Next]_vars PROVE HistoryInv'
    OBVIOUS
<1>0. TypeOK'
  BY NextType DEF HistoryInv
<1>1. CASE UNCHANGED <<value, version, logged, imported>>
  BY <1>0, <1>1 DEF HistoryInv, RowsHaveVersions, HistoryExplainsMaster
<1>2. CASE Publish \/ UNCHANGED vars
  BY <1>1, <1>2 DEF Publish, vars, database, ghosts
<1>3. ASSUME NEW b \in Branches, NEW c \in Cells, NEW d \in Texts \cup {Removed},
             WriteDelta(b, c, d)
      PROVE  HistoryInv'
  BY <1>1, <1>3 DEF WriteDelta
<1>4. CASE StatusStep
  <2>1. ASSUME NEW b \in Branches, CreateBranch(b) \/ CloseBranch(b) \/ ReopenBranch(b)
        PROVE  UNCHANGED <<value, version, logged, imported>>
    BY <2>1 DEF CreateBranch, CloseBranch, ReopenBranch, SetBranchStatus, ghosts
  <2> QED
    BY <1>1, <1>4, <2>1 DEF StatusStep, SetMRStatus, Resolve
<1>5. ASSUME NEW c \in Cells, MasterStep(c) PROVE HistoryInv'
  BY <1>0, <1>5, MasterStepKeepsHistory
<1>6. ASSUME NEW r \in Requests, Merge(r) PROVE HistoryInv'
  BY <1>0, <1>6, MergeKeepsHistory
<1> QED
  BY <1>2, <1>3, <1>4, <1>5, <1>6, StepCases

LEMMA HistoryInvariant == Spec => []HistoryInv
<1>1. Init => HistoryInv
  <2> SUFFICES ASSUME Init PROVE HistoryInv
      OBVIOUS
  <2>1. ASSUME NEW c \in Cells
        PROVE  /\ value[c] = Absent
               /\ version[c] = 0
               /\ logged[c].text = Absent
    <3>1. logged[c] = [text |-> Absent, version |-> 0]
      BY DEF Init
    <3> QED
      BY <3>1 DEF Init
  <2> QED
    BY <2>1, InitType DEF HistoryInv, RowsHaveVersions, HistoryExplainsMaster
<1>2. HistoryInv /\ [Next]_vars => HistoryInv'
  BY StepKeepsHistory
<1> QED
  BY <1>1, <1>2, PTL DEF Spec

\* The history of a cell that no import wrote last ends in what master says
\* now, after any interleaving of direct edits, deletions and merges.
THEOREM HistoryIsComplete == Spec => []HistoryExplainsMaster
<1>1. HistoryInv => HistoryExplainsMaster
  BY DEF HistoryInv
<1> QED
  BY <1>1, HistoryInvariant, PTL

(***************************************************************************)
(* The refinement.  A merge is Land with the cells it leaves to master as  *)
(* `kept`; that these are contested cells is the exactness of the conflict *)
(* rule, and that a tombstone over an absent row rewrites nothing is       *)
(* RowsHaveVersions.                                                       *)
(***************************************************************************)
LEMMA MergeLands ==
    ASSUME ConflictInv, RowsHaveVersions, TypeOK', NEW r \in Requests, Merge(r)
    PROVE  Promise!Next
<1> DEFINE b == BranchOf[r]
           kept == Touched(b) \ Eligible(r)
<1>1. b \in Branches /\ Promise!Overlaid(b) = Touched(b)
  BY DEF Promise!Overlaid, Touched
<1>2. Eligible(r) \subseteq Touched(b) /\ Touched(b) \subseteq Cells
  BY DEF Eligible, Touched
<1>3. kept \subseteq moved[b]
  <2> SUFFICES ASSUME NEW c \in kept PROVE c \in moved[b]
      OBVIOUS
  <2>1. Conflicted(b, c)
    BY <1>2 DEF Eligible
  <2>2. CASE c \in dropped[b]
    BY <1>1, <2>2 DEF ConflictInv, DroppedAreMoved
  <2>3. CASE c \notin dropped[b]
    BY <1>1, <2>1, <2>3 DEF ConflictInv, ConflictIffMoved
  <2> QED
    BY <2>2, <2>3
<1>4. Touched(b) \ kept = Eligible(r)
  BY <1>2
<1>5. value' = [c \in Cells |->
          IF c \notin Eligible(r) THEN value[c]
          ELSE IF draft[b][c] = Removed THEN Absent ELSE draft[b][c]]
  <2>1. ASSUME NEW c \in Eligible(r), draft[b][c] = Removed, c \notin Deleted(r)
        PROVE  value[c] = Absent
    BY <1>2, <2>1 DEF Deleted, RowsHaveVersions
  <2>2. \A c \in Cells : MergedValue(r)[c] =
          IF c \notin Eligible(r) THEN value[c]
          ELSE IF draft[b][c] = Removed THEN Absent ELSE draft[b][c]
    BY <2>1 DEF MergedValue, Upserted, Deleted
  <2> QED
    BY <2>2 DEF Merge, MergedValue
<1>6. Written(r) = {c \in Eligible(r) : ~(value[c] = Absent /\ value'[c] = Absent)}
  <2>1. ASSUME NEW c \in Eligible(r)
        PROVE  /\ c \in Cells
               /\ draft[b][c] # Removed => draft[b][c] # Absent
               /\ value[c] = Absent <=> version[c] = 0
               /\ value'[c] = IF draft[b][c] = Removed THEN Absent ELSE draft[b][c]
    BY <1>2, <1>5, <1>1 DEF ConflictInv, TypeOK, Deltas, RowsHaveVersions, Touched
  <2> QED
    BY <2>1 DEF Written, Upserted, Deleted
<1>7. Promise!Rewrite(Written(r))
  <2>1. moved' = [p \in Branches |-> moved[p] \cup (Written(r) \cap Touched(p))]
    BY DEF Merge, Remember
  <2> QED
    BY <2>1 DEF Promise!Rewrite, Promise!Overlaid, Touched
<1>8. Promise!Land(b, kept)
  <2>1. Promise!Overlaid(b) \ kept = Eligible(r)
    BY <1>1, <1>4
  <2>2. UNCHANGED draft /\ shipped' = value'
        /\ branchStatus' = [branchStatus EXCEPT ![b] = "merged"]
    BY DEF Merge, BundlesAtMerge
  <2> QED
    BY <1>3, <1>5, <1>6, <1>7, <2>1, <2>2 DEF Promise!Land
<1> QED
  BY <1>1, <1>3, <1>8 DEF Promise!Next

LEMMA MasterStepIsEdit ==
    ASSUME NEW c \in Cells, MasterStep(c)
    PROVE  Promise!Next
<1>1. ASSUME NEW t \in Texts \cup {Absent}, value' = [value EXCEPT ![c] = t],
             UNCHANGED <<draft, branchStatus, shipped>>,
             moved' = [b \in Branches |-> moved[b] \cup ({c} \cap Touched(b))]
      PROVE  Promise!Next
  <2>1. Promise!Edit(c, t)
    BY <1>1 DEF Promise!Edit, Promise!Rewrite, Promise!Overlaid, Touched
  <2> QED
    BY <2>1 DEF Promise!Next
<1>2. ASSUME NEW t \in Texts, SetOnMaster(c, t) \/ Import(c, t) PROVE Promise!Next
  BY <1>1, <1>2 DEF SetOnMaster, Import, WriteRow, Remember
<1>3. ASSUME DeleteOnMaster(c) PROVE Promise!Next
  BY <1>1, <1>3 DEF DeleteOnMaster, DeleteRow, Remember
<1> QED
  BY <1>2, <1>3 DEF MasterStep

LEMMA StatusStepMovesOrStutters ==
    ASSUME StatusStep
    PROVE  [Promise!Next]_Promise!vars
<1>1. ASSUME NEW b \in Branches, CreateBranch(b) \/ CloseBranch(b) \/ ReopenBranch(b)
      PROVE  Promise!Next
  <2>1. Promise!Move(b)
    BY <1>1 DEF CreateBranch, CloseBranch, ReopenBranch, SetBranchStatus, ghosts,
       Promise!Move
  <2> QED
    BY <2>1 DEF Promise!Next
<1>2. ASSUME UNCHANGED <<value, draft, moved, branchStatus, shipped>>
      PROVE  UNCHANGED Promise!vars
  BY <1>2 DEF Promise!vars
<1> QED
  BY <1>1, <1>2 DEF StatusStep, SetMRStatus, Resolve

LEMMA StepImplementsOverlay ==
    ASSUME ConflictInv, RowsHaveVersions, [Next]_vars
    PROVE  [Promise!Next]_Promise!vars
<1>0. TypeOK'
  BY NextType DEF ConflictInv
<1>1. CASE Publish
  <2>1. Promise!Release
    BY <1>1 DEF Publish, ghosts, Promise!Release
  <2> QED
    BY <2>1 DEF Promise!Next
<1>2. ASSUME NEW b \in Branches, NEW c \in Cells, NEW d \in Texts \cup {Removed},
             WriteDelta(b, c, d)
      PROVE  Promise!Next
  <2>1. Promise!Draft(b, c, d)
    BY <1>2 DEF WriteDelta, Promise!Draft
  <2> QED
    BY <2>1 DEF Promise!Next
<1>3. CASE UNCHANGED vars
  BY <1>3 DEF vars, database, ghosts, Promise!vars
<1> QED
  BY <1>0, <1>1, <1>2, <1>3, StepCases, MasterStepIsEdit, StatusStepMovesOrStutters,
     MergeLands

\* Branches, requests, versions and resolutions together keep the promise of
\* Overlay: a merge is one atomic landing that loses no uncontested delta.
THEOREM WorkspaceImplementsOverlay == Spec => ImplementsOverlay
<1>1. Init => Promise!Init
  BY DEF Init, Promise!Init
<1>2. ConflictInv /\ RowsHaveVersions /\ [Next]_vars => [Promise!Next]_Promise!vars
  BY StepImplementsOverlay
<1>3. HistoryInv => RowsHaveVersions
  BY DEF HistoryInv
<1> QED
  BY <1>1, <1>2, <1>3, RuleInvariant, HistoryInvariant, PTL
     DEF Spec, ImplementsOverlay, Promise!Spec
=============================================================================
