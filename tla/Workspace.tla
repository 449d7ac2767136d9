----------------------------- MODULE Workspace -----------------------------
(***************************************************************************)
(* Branches, merge requests and the merge, one database transaction per    *)
(* step.                                                                   *)
(*                                                                         *)
(* A branch is a set of copy-on-write deltas over master.  Each delta      *)
(* keeps the master version its branch first saw, and that one integer is  *)
(* the whole conflict rule: at merge time a delta is contested exactly     *)
(* when master's version is no longer that base.  A human resolves each    *)
(* contested delta ('mine' or 'master') before the merge may land it.      *)
(*                                                                         *)
(* Every action is one request handler run as one transaction, from its    *)
(* first read to its last write.  What READ COMMITTED lets two of them do  *)
(* to each other while they overlap is the subject of ReadCommitted.       *)
(* Because a branch edit runs the approval check inside its own            *)
(* transaction, and here no other transaction runs meanwhile, the          *)
(* comparison of last_edited_at with approved_at always finds the edit     *)
(* newer; timestamps are therefore left out of this module and kept in     *)
(* ReadCommitted, where the comparison can go wrong.                       *)
(*                                                                         *)
(* A cell is one (key, locale) pair of an active key: names and statuses   *)
(* of keys are metadata, which this module leaves out.  A rejected request *)
(* changes nothing and is no step.                                         *)
(***************************************************************************)
EXTENDS Naturals

CONSTANTS
    Cells,       \* the (key_id, locale_id) pairs
    Texts,       \* what a translation can say, the blank text included
    Branches,    \* branch ids
    Requests,    \* merge request ids
    BranchOf,    \* merge_requests.branch_id
    MaxVersion,  \* bound: no write takes a translation beyond this version
    Absent,      \* no translations row: untranslated, which is not blank
    Removed,     \* a tombstone delta
    Untouched    \* no branch_translations row

ASSUME BranchOfAssumption == BranchOf \in [Requests -> Branches]
ASSUME MaxVersionAssumption == MaxVersion \in Nat
ASSUME SentinelAssumption ==
    /\ Absent \notin Texts
    /\ Removed \notin Texts
    /\ Untouched \notin Texts
    /\ Removed # Untouched

VARIABLES
    value,         \* translations.value, Absent where there is no row
    version,       \* translations.version, 0 where there is no row
    draft,         \* branch_translations: a text, Removed or Untouched
    base,          \* branch_translations.base_master_version
    branchStatus,  \* branches.status, "none" before the branch exists
    mrStatus,      \* merge_requests.status, "none" before the request exists
    resolution,    \* merge_conflict_resolutions, "" where there is no row
    logged,        \* newest translation_history row that speaks of master
    shipped        \* the texts in the newest release's bundles

database == <<value, version, draft, base, branchStatus, mrStatus, resolution,
              logged, shipped>>

(***************************************************************************)
(* History variables.  The program keeps none of them; the properties      *)
(* compare what it does with what they remember.                           *)
(***************************************************************************)
VARIABLES
    moved,      \* moved[b]: cells b drafts that master has rewritten since
    dropped,    \* dropped[b]: cells b drafts whose master row went away since
    imported,   \* cells whose current master text came from the importer
    endorsed    \* endorsed[r]: the drafts r's standing approval was given to

ghosts == <<moved, dropped, imported, endorsed>>
vars == <<database, ghosts>>

Deltas == Texts \cup {Removed, Untouched}
MasterTexts == Texts \cup {Absent}
BranchStatuses == {"none", "open", "closed", "merged"}
MRStatuses == {"none", "open", "changes_requested", "approved", "rejected",
               "closed", "merged"}
Resolutions == {"", "mine", "master"}

\* The states ByBranch and the one-live-request index call live.
LiveStatuses == {"open", "changes_requested", "approved"}
Live(r) == mrStatus[r] \in LiveStatuses
OthersLive(r) == \E q \in Requests \ {r} : BranchOf[q] = BranchOf[r] /\ Live(q)

TypeOK ==
    /\ value \in [Cells -> MasterTexts]
    /\ version \in [Cells -> Nat]
    /\ draft \in [Branches -> [Cells -> Deltas]]
    /\ base \in [Branches -> [Cells -> Nat]]
    /\ branchStatus \in [Branches -> BranchStatuses]
    /\ mrStatus \in [Requests -> MRStatuses]
    /\ resolution \in [Requests -> [Cells -> Resolutions]]
    /\ logged \in [Cells -> [text : MasterTexts, version : Nat]]
    /\ shipped \in [Cells -> MasterTexts]
    /\ moved \in [Branches -> SUBSET Cells]
    /\ dropped \in [Branches -> SUBSET Cells]
    /\ imported \in SUBSET Cells
    /\ endorsed \in [Requests -> [Cells -> Deltas]]

Init ==
    /\ value = [c \in Cells |-> Absent]
    /\ version = [c \in Cells |-> 0]
    /\ draft = [b \in Branches |-> [c \in Cells |-> Untouched]]
    /\ base = [b \in Branches |-> [c \in Cells |-> 0]]
    /\ branchStatus = [b \in Branches |-> "none"]
    /\ mrStatus = [r \in Requests |-> "none"]
    /\ resolution = [r \in Requests |-> [c \in Cells |-> ""]]
    /\ logged = [c \in Cells |-> [text |-> Absent, version |-> 0]]
    /\ shipped = [c \in Cells |-> Absent]
    /\ moved = [b \in Branches |-> {}]
    /\ dropped = [b \in Branches |-> {}]
    /\ imported = {}
    /\ endorsed = [r \in Requests |-> [c \in Cells |-> Untouched]]
-----------------------------------------------------------------------------
(* What a write to master makes the history variables remember.            *)

Touched(b) == {c \in Cells : draft[b][c] # Untouched}

\* Master's rows at W changed, those in gone by being deleted.
Remember(W, gone, fromImport) ==
    /\ moved' = [b \in Branches |-> moved[b] \cup (W \cap Touched(b))]
    /\ dropped' = [b \in Branches |-> dropped[b] \cup (gone \cap Touched(b))]
    /\ imported' = IF fromImport THEN imported \cup W ELSE imported \ W

Nothing == [c \in Cells |-> Untouched]

\* An approval is given to the drafts as they then are, and stands for them
\* until the request leaves 'approved'.
RememberApprovals ==
    endorsed' = [r \in Requests |->
        IF mrStatus'[r] # "approved" THEN Nothing
        ELSE IF mrStatus[r] = "approved" THEN endorsed[r]
        ELSE draft[BranchOf[r]]]
-----------------------------------------------------------------------------
(* Direct edits of master.                                                 *)

\* UpdateWithVersion adds one to the version the caller was shown; CreateCell,
\* for a cell the caller was shown as untranslated, starts at one.
WriteRow(c, t) ==
    /\ version[c] < MaxVersion
    /\ value' = [value EXCEPT ![c] = t]
    /\ version' = [version EXCEPT ![c] = @ + 1]

\* The row goes, and its version with it.
DeleteRow(c) ==
    /\ version[c] # 0
    /\ value' = [value EXCEPT ![c] = Absent]
    /\ version' = [version EXCEPT ![c] = 0]

RecordHistory(c, t, v) ==
    logged' = [logged EXCEPT ![c] = [text |-> t, version |-> v]]

\* SetTranslation on master, with the current version as its base_version.
SetOnMaster(c, t) ==
    /\ WriteRow(c, t)
    /\ RecordHistory(c, t, version[c] + 1)
    /\ Remember({c}, {}, FALSE)
    /\ UNCHANGED <<draft, base, branchStatus, mrStatus, resolution, shipped, endorsed>>

\* DeleteTranslation on master records the version the deleted row held.
DeleteOnMaster(c) ==
    /\ DeleteRow(c)
    /\ RecordHistory(c, Absent, version[c])
    /\ Remember({c}, {c}, FALSE)
    /\ UNCHANGED <<draft, base, branchStatus, mrStatus, resolution, shipped, endorsed>>

\* UpsertBatch writes, and bumps the version, only where the text differs.
Differs(c, t) == value[c] # t

\* The bulk importer upserts and deliberately writes no history.
Import(c, t) ==
    /\ Differs(c, t)
    /\ WriteRow(c, t)
    /\ Remember({c}, {}, TRUE)
    /\ UNCHANGED <<draft, base, branchStatus, mrStatus, resolution, logged, shipped,
                   endorsed>>

\* A release cut on request, from master as it stands.
Publish ==
    /\ shipped' = value
    /\ UNCHANGED <<value, version, draft, base, branchStatus, mrStatus,
                   resolution, logged, ghosts>>
-----------------------------------------------------------------------------
(* Branches.                                                               *)

SetBranchStatus(b, s) ==
    /\ branchStatus' = [branchStatus EXCEPT ![b] = s]
    /\ UNCHANGED <<value, version, draft, base, mrStatus, resolution, logged,
                   shipped, ghosts>>

CreateBranch(b) == branchStatus[b] = "none" /\ SetBranchStatus(b, "open")

\* Close and Reopen refuse a merged branch and look at no merge request.
CloseEvenMerged(b) ==
    branchStatus[b] \in {"open", "merged"} /\ SetBranchStatus(b, "closed")
CloseBranch(b) == branchStatus[b] = "open" /\ SetBranchStatus(b, "closed")
ReopenBranch(b) == branchStatus[b] = "closed" /\ SetBranchStatus(b, "open")

\* base_master_version is captured on the delta's insert and never refreshed.
RefreshedBase(b, c) == version[c]
DeltaBase(b, c) == IF draft[b][c] = Untouched THEN version[c] ELSE base[b][c]

\* InvalidateApprovalIfEdited, in the transaction of the edit itself.
ApprovalsKept(b) == mrStatus
ApprovalsReopened(b) ==
    [r \in Requests |-> IF BranchOf[r] = b /\ mrStatus[r] = "approved"
                        THEN "reopened" ELSE mrStatus[r]]
ApprovalsInvalidated(b) ==
    [r \in Requests |-> IF BranchOf[r] = b /\ mrStatus[r] = "approved"
                        THEN "open" ELSE mrStatus[r]]

WriteDelta(b, c, d) ==
    /\ branchStatus[b] = "open"
    /\ draft' = [draft EXCEPT ![b][c] = d]
    /\ base' = [base EXCEPT ![b][c] = DeltaBase(b, c)]
    /\ mrStatus' = ApprovalsInvalidated(b)
    /\ RememberApprovals
    /\ UNCHANGED <<value, version, branchStatus, resolution, logged, shipped,
                   moved, dropped, imported>>

\* SetTranslation on a branch.
SetOnBranch(b, c, t) == WriteDelta(b, c, t)

\* Resolve: what the branch shows, its delta over master.
Found(b, c) ==
    IF draft[b][c] = Untouched THEN version[c] # 0 ELSE draft[b][c] # Removed

\* DeleteTranslation on a branch refuses a cell already untranslated there.
RemoveOnBranch(b, c) == Found(b, c) /\ WriteDelta(b, c, Removed)
-----------------------------------------------------------------------------
(* Merge requests.                                                         *)

SetMRStatus(r, s) ==
    /\ mrStatus' = [mrStatus EXCEPT ![r] = s]
    /\ RememberApprovals
    /\ UNCHANGED <<value, version, draft, base, branchStatus, resolution,
                   logged, shipped, moved, dropped, imported>>

CreateRequest(r) ==
    /\ mrStatus[r] = "none"
    /\ branchStatus[BranchOf[r]] = "open"
    /\ ~OthersLive(r)
    /\ SetMRStatus(r, "open")

\* The transition table of mrsvc.  Only a reopen can meet the index that
\* allows a branch one live request; none of them reads the branch.
Approve(r) ==
    /\ mrStatus[r] \in {"open", "changes_requested"}
    /\ SetMRStatus(r, "approved")

RequestChanges(r) ==
    /\ mrStatus[r] \in {"open", "approved"}
    /\ SetMRStatus(r, "changes_requested")

Reject(r) == Live(r) /\ SetMRStatus(r, "rejected")
CloseRequest(r) == Live(r) /\ SetMRStatus(r, "closed")

ReopenRequest(r) ==
    /\ mrStatus[r] \in {"rejected", "closed"}
    /\ ~OthersLive(r)
    /\ SetMRStatus(r, "open")

\* conflictsSQL: one integer comparison.
Conflicted(b, c) == draft[b][c] # Untouched /\ version[c] # base[b][c]

\* Resolve records a decision only for a conflict that exists.
Resolve(r, c, choice) ==
    /\ Live(r)
    /\ Conflicted(BranchOf[r], c)
    /\ resolution' = [resolution EXCEPT ![r][c] = choice]
    /\ UNCHANGED <<value, version, draft, base, branchStatus, mrStatus, logged,
                   shipped, moved, dropped, imported, endorsed>>
-----------------------------------------------------------------------------
(* The merge.                                                              *)

AllResolved(r) ==
    \A c \in Cells : Conflicted(BranchOf[r], c) => resolution[r][c] # ""

\* `eligible`: every delta but those whose live conflict went to master.
EligibleAcrossCells(r) ==
    {c \in Touched(BranchOf[r]) :
        ~\E d \in Cells : resolution[r][d] = "master" /\ Conflicted(BranchOf[r], d)}
Eligible(r) ==
    {c \in Touched(BranchOf[r]) :
        ~(resolution[r][c] = "master" /\ Conflicted(BranchOf[r], c))}

\* `applicable`: the version guard repeated in the statement that writes.  One
\* eligible delta that is not applicable rolls the whole merge back.
Applicable(r, c) ==
    ~Conflicted(BranchOf[r], c) \/ resolution[r][c] = "mine"

\* removeDeltasSQL deletes and records only the rows that are there.
Deleted(r) ==
    {c \in Eligible(r) : draft[BranchOf[r]][c] = Removed /\ version[c] # 0}
Upserted(r) == {c \in Eligible(r) : draft[BranchOf[r]][c] # Removed}
Written(r) == Deleted(r) \cup Upserted(r)

MergedValue(r) ==
    [c \in Cells |-> IF c \in Upserted(r) THEN draft[BranchOf[r]][c]
                     ELSE IF c \in Deleted(r) THEN Absent ELSE value[c]]

\* The upsert's ON CONFLICT arm adds one; its insert arm starts at one.
MergedVersion(r) ==
    [c \in Cells |-> IF c \in Upserted(r) THEN version[c] + 1
                     ELSE IF c \in Deleted(r) THEN 0 ELSE version[c]]

UpsertsLogged(r) ==
    [c \in Cells |-> IF c \in Upserted(r)
                     THEN [text |-> draft[BranchOf[r]][c], version |-> version[c] + 1]
                     ELSE logged[c]]
MergedLog(r) ==
    [c \in Cells |-> IF c \in Upserted(r)
                     THEN [text |-> draft[BranchOf[r]][c], version |-> version[c] + 1]
                     ELSE IF c \in Deleted(r)
                     THEN [text |-> Absent, version |-> version[c]]
                     ELSE logged[c]]

\* The release is read inside the same transaction, after the deltas land.
BundlesBeforeApply(r) == value
BundlesAtMerge(r) == MergedValue(r)

\* Merge reads branch.id and not branch.status.
Merge(r) ==
    /\ mrStatus[r] = "approved"
    /\ AllResolved(r)
    /\ \A c \in Eligible(r) : Applicable(r, c)
    /\ \A c \in Upserted(r) : version[c] < MaxVersion
    /\ value' = MergedValue(r)
    /\ version' = MergedVersion(r)
    /\ logged' = MergedLog(r)
    /\ shipped' = BundlesAtMerge(r)
    /\ mrStatus' = [mrStatus EXCEPT ![r] = "merged"]
    /\ branchStatus' = [branchStatus EXCEPT ![BranchOf[r]] = "merged"]
    /\ Remember(Written(r), Deleted(r), FALSE)
    /\ RememberApprovals
    /\ UNCHANGED <<draft, base, resolution>>
-----------------------------------------------------------------------------
EditMaster ==
    \E c \in Cells :
        \/ \E t \in Texts : SetOnMaster(c, t) \/ Import(c, t)
        \/ DeleteOnMaster(c)

EditBranch ==
    \E b \in Branches :
        \/ CreateBranch(b)
        \/ CloseBranch(b)
        \/ ReopenBranch(b)
        \/ \E c \in Cells :
               \/ \E t \in Texts : SetOnBranch(b, c, t)
               \/ RemoveOnBranch(b, c)

Review ==
    \E r \in Requests :
        \/ CreateRequest(r)
        \/ Approve(r)
        \/ RequestChanges(r)
        \/ Reject(r)
        \/ CloseRequest(r)
        \/ ReopenRequest(r)
        \/ \E c \in Cells, choice \in {"mine", "master"} : Resolve(r, c, choice)
        \/ Merge(r)

Next == EditMaster \/ Publish \/ EditBranch \/ Review

Spec == Init /\ [][Next]_vars
-----------------------------------------------------------------------------
(* Properties.                                                             *)

Merges(r) == mrStatus[r] # "merged" /\ mrStatus'[r] = "merged"

\* The integer comparison finds exactly the cells that master rewrote after
\* the branch first touched them, as long as master's row was never deleted in
\* between (conflictsSQL with the base that setValueSQL captures once).
ConflictIffMoved ==
    \A b \in Branches : \A c \in Touched(b) \ dropped[b] :
        /\ version[c] >= base[b][c]
        /\ Conflicted(b, c) <=> c \in moved[b]

\* What an approved request would merge is what its approver saw: every edit
\* of the branch takes the approval back (afterBranchWrite).
ApprovalEndorsesDraft ==
    \A r \in Requests :
        mrStatus[r] = "approved" => draft[BranchOf[r]] = endorsed[r]

\* Replaying translation_history gives master, cell by cell: direct edits,
\* deletions and all merges record the text and the version they left behind.
\* Cells whose text the importer wrote are the gap the code declares.
HistoryExplainsMaster ==
    \A c \in Cells \ imported :
        /\ logged[c].text = value[c]
        /\ value[c] # Absent => logged[c].version = version[c]

\* A merge replaces a text that master gained behind the branch's back only
\* where someone resolved that conflict for the branch (Merge, steps 4 and 5).
NoSilentOverwrite ==
    [][\A r \in Requests : Merges(r) =>
          \A c \in moved[BranchOf[r]] \ dropped[BranchOf[r]] :
              value'[c] # value[c] => resolution[r][c] = "mine"]_vars

\* A merged branch keeps its deltas as a read-only record: no close, reopen or
\* edit reaches it again, in any order of legal calls (transition, WriteDelta).
MergedBranchFrozen ==
    [][\A b \in Branches : branchStatus[b] = "merged" =>
          /\ branchStatus'[b] = "merged"
          /\ draft'[b] = draft[b]
          /\ base'[b] = base[b]]_vars

\* What the data model says of the comparison: it covers the edit races, so no
\* text that master gained behind the branch's back is replaced unless someone
\* chose the branch's side.  NoSilentOverwrite without its exception.
EveryOverwriteIsChosen ==
    [][\A r \in Requests : Merges(r) =>
          \A c \in moved[BranchOf[r]] :
              value[c] # Absent /\ value'[c] # value[c] => resolution[r][c] = "mine"]_vars
-----------------------------------------------------------------------------
(* The abstract specification this module implements.                      *)

Promise == INSTANCE Overlay WITH
    corpus <- value, overlay <- draft, contested <- moved,
    status <- branchStatus, released <- shipped

\* Every transaction is one step of Overlay or leaves it alone: in particular
\* a merge lands every uncontested delta whole, drops only contested ones and
\* releases exactly the corpus it leaves behind.
ImplementsOverlay == Promise!Spec
=============================================================================
