-------------------------------- MODULE Keys --------------------------------
(***************************************************************************)
(* Key metadata: names and statuses, on master and as branch deltas.       *)
(*                                                                         *)
(* A key created on a branch is at once a real row of master with status   *)
(* 'draft', and a delta that says 'active'; only the merge promotes it.    *)
(* Deltas are contested by version, like values; besides, two active keys  *)
(* may not share a name, and that is checked before a merge applies.       *)
(*                                                                         *)
(* An edit of master reads the whole key, patches what was asked for, and  *)
(* writes all of it back in a second statement; another transaction can    *)
(* commit in between.  Every other handler is one step.  The approval      *)
(* workflow is Workspace's: a branch here has one request, and it is       *)
(* approved whenever it is merged.                                         *)
(***************************************************************************)
EXTENDS Naturals, FiniteSets

CONSTANTS
    KeyIds,
    Names,
    Branches,
    Editors,     \* connections that may be editing a key of master
    MaxVersion,  \* bound: no step takes a key beyond this version
    None         \* no branch, no delta, no name

ASSUME MaxVersionAssumption == MaxVersion \in Nat
VARIABLES
    keys,        \* the keys table
    delta,       \* branch_keys
    merged,      \* the branches whose status is 'merged'
    resolution,  \* merge_conflict_resolutions with a NULL locale
    editor,      \* edits of master between their read and their write
    logged       \* newest key_history row that speaks of master

database == <<keys, delta, merged, resolution, editor, logged>>

(***************************************************************************)
(* History variables.                                                      *)
(***************************************************************************)
VARIABLES
    moved,     \* moved[b]: keys b has a delta of that master changed since
    imported,  \* keys whose current row the importer wrote
    origin     \* the branch a key was created on, None for master

vars == <<database, moved, imported, origin>>

Statuses == {"none", "draft", "active", "deleted"}
Key == [name : Names \cup {None}, status : Statuses, version : Nat]
Delta == [name : Names, status : Statuses \ {"none"}, base : Nat]
Edit == [key : KeyIds, row : Key]

ASSUME NoneAssumption ==
    None \notin Branches /\ None \notin Names /\ None \notin Delta /\ None \notin Edit

TypeOK ==
    /\ keys \in [KeyIds -> Key]
    /\ delta \in [Branches -> [KeyIds -> Delta \cup {None}]]
    /\ merged \subseteq Branches
    /\ resolution \in [Branches -> [KeyIds -> {"", "mine", "master"}]]
    /\ editor \in [Editors -> Edit \cup {None}]
    /\ logged \in [KeyIds -> Key]
    /\ moved \in [Branches -> SUBSET KeyIds]
    /\ imported \subseteq KeyIds
    /\ origin \in [KeyIds -> Branches \cup {None}]

NoKey == [name |-> None, status |-> "none", version |-> 0]

Init ==
    /\ keys = [k \in KeyIds |-> NoKey]
    /\ delta = [b \in Branches |-> [k \in KeyIds |-> None]]
    /\ merged = {}
    /\ resolution = [b \in Branches |-> [k \in KeyIds |-> ""]]
    /\ editor = [e \in Editors |-> None]
    /\ logged = [k \in KeyIds |-> NoKey]
    /\ moved = [b \in Branches |-> {}]
    /\ imported = {}
    /\ origin = [k \in KeyIds |-> None]
-----------------------------------------------------------------------------
(* Names and versions.                                                     *)

AnyId(k) == TRUE
Exists(k) == keys[k].status # "none"
Active(k) == keys[k].status = "active"
Touched(b) == {k \in KeyIds : delta[b][k] # None}

\* idx_keys_name_active, for a key other than k.
NameFree(k, n) == ~\E j \in KeyIds \ {k} : Active(j) /\ keys[j].name = n

\* idx_branch_keys_branch_name: whatever the statuses.
BranchNameFree(b, k, n) == ~\E j \in Touched(b) \ {k} : delta[b][j].name = n

\* Master's rows at K change.
Remember(K, fromImport) ==
    /\ moved' = [b \in Branches |-> moved[b] \cup (K \cap Touched(b))]
    /\ imported' = IF fromImport THEN imported \cup K ELSE imported \ K

WriteKey(k, n, s) ==
    /\ keys[k].version < MaxVersion
    /\ keys' = [keys EXCEPT ![k] = [name |-> n, status |-> s, version |-> @.version + 1]]

RecordHistory(k) == logged' = [logged EXCEPT ![k] = keys'[k]]
-----------------------------------------------------------------------------
(* Master.                                                                 *)

\* CreateKey: ON CONFLICT DO NOTHING over the active names.
CreateOnMaster(k, n) ==
    /\ ~Exists(k)
    /\ NameFree(k, n)
    /\ WriteKey(k, n, "active")
    /\ RecordHistory(k)
    /\ Remember({k}, FALSE)
    /\ UNCHANGED <<delta, merged, resolution, editor, origin>>

\* UpdateKey reads the key, whatever its status.
BeginEdit(e, k) ==
    /\ editor[e] = None
    /\ Exists(k)
    /\ editor' = [editor EXCEPT ![e] = [key |-> k, row |-> keys[k]]]
    /\ UNCHANGED <<keys, delta, merged, resolution, logged, moved, imported, origin>>

\* updateKeySQL writes every column back, the status as it was read.  What the
\* request asks for is looked at only now: the new name, and whether it carries
\* a base_version, which is optional.
Unnoticed(d, checked) == FALSE
Overtaken(d, checked) == checked /\ keys[d.key].version # d.row.version
Taken(d, n) == d.row.status = "active" /\ ~NameFree(d.key, n)

WriteEdit(e, n, checked) ==
    LET d == editor[e]
    IN /\ d # None
       /\ editor' = [editor EXCEPT ![e] = None]
       /\ IF Overtaken(d, checked) \/ Taken(d, n)
          THEN UNCHANGED <<keys, logged, moved, imported>>
          ELSE /\ WriteKey(d.key, n, d.row.status)
               /\ RecordHistory(d.key)
               /\ Remember({d.key}, FALSE)
       /\ UNCHANGED <<delta, merged, resolution, origin>>

\* softDeleteKeySQL.
DeleteOnMaster(k) ==
    /\ Exists(k) /\ keys[k].status # "deleted"
    /\ WriteKey(k, keys[k].name, "deleted")
    /\ RecordHistory(k)
    /\ Remember({k}, FALSE)
    /\ UNCHANGED <<delta, merged, resolution, editor, origin>>

\* UpsertByName: a new active key, or a change of the active key's other
\* columns, its version with them.  No history either way.
Import(k, n) ==
    /\ NameFree(k, n)
    /\ ~Exists(k) \/ (Active(k) /\ keys[k].name = n)
    /\ WriteKey(k, n, "active")
    /\ Remember({k}, TRUE)
    /\ UNCHANGED <<delta, merged, resolution, editor, logged, origin>>
-----------------------------------------------------------------------------
(* Branches.                                                               *)

Open(b) == b \notin merged

\* setKeyMetaSQL: the base is keys.version, on the first touch only.
RefreshedBase(b, k) == keys'[k].version
DeltaBase(b, k) == IF delta[b][k] = None THEN keys'[k].version ELSE delta[b][k].base

SetKeyMeta(b, k, n, s) ==
    /\ BranchNameFree(b, k, n)
    /\ delta' = [delta EXCEPT ![b][k] =
                    [name |-> n, status |-> s, base |-> DeltaBase(b, k)]]

\* CreateKey on a branch: the draft row and the delta that will promote it.
\* Drafts reserve no name, so the names of active keys are looked up.
LiveAtOnce == "active"
CreatedStatus == "draft"

CreateOnBranch(b, k, n) ==
    /\ Open(b)
    /\ ~Exists(k)
    /\ NameFree(k, n)
    /\ WriteKey(k, n, CreatedStatus)
    /\ SetKeyMeta(b, k, n, "active")
    /\ origin' = [origin EXCEPT ![k] = b]
    /\ UNCHANGED <<merged, resolution, editor, logged, moved, imported>>

\* UpdateKey on a branch patches the branch's own delta when it has one.
OnBranch(b, k) == IF delta[b][k] = None THEN keys[k] ELSE delta[b][k]

UpdateOnBranch(b, k, n) ==
    /\ Open(b)
    /\ Exists(k)
    /\ keys' = keys
    /\ SetKeyMeta(b, k, n, OnBranch(b, k).status)
    /\ UNCHANGED <<merged, resolution, editor, logged, moved, imported, origin>>

\* DeleteKey on a branch marks master's row, not the delta.
DeleteOnBranch(b, k) ==
    /\ Open(b)
    /\ Exists(k)
    /\ keys' = keys
    /\ SetKeyMeta(b, k, keys[k].name, "deleted")
    /\ UNCHANGED <<merged, resolution, editor, logged, moved, imported, origin>>
-----------------------------------------------------------------------------
(* The merge.                                                              *)

\* metaConflictsSQL.
Conflicted(b, k) == delta[b][k] # None /\ keys[k].version # delta[b][k].base

ResolveMeta(b, k, choice) ==
    /\ Open(b)
    /\ Conflicted(b, k)
    /\ resolution' = [resolution EXCEPT ![b][k] = choice]
    /\ UNCHANGED <<keys, delta, merged, editor, logged, moved, imported, origin>>

AllResolved(b) == \A k \in KeyIds : Conflicted(b, k) => resolution[b][k] # ""

\* nameCollisionsSQL, over every delta that says 'active'.
NoCollisionCheck(b) == {}
NameCollisions(b) ==
    {k \in Touched(b) : delta[b][k].status = "active" /\ ~NameFree(k, delta[b][k].name)}

\* applyKeyMetaSQL: `eligible`, all of which are applicable once every conflict
\* has its decision.
EveryDelta(b) == Touched(b)
Applied(b) ==
    {k \in Touched(b) : ~(resolution[b][k] = "master" /\ Conflicted(b, k))}

AfterMerge(b) ==
    [k \in KeyIds |->
        IF k \in Applied(b)
        THEN [name |-> delta[b][k].name, status |-> delta[b][k].status,
              version |-> keys[k].version + 1]
        ELSE keys[k]]

NothingLogged(b) == logged
MergeLogged(b) == [k \in KeyIds |-> IF k \in Applied(b) THEN AfterMerge(b)[k] ELSE logged[k]]

Merge(b) ==
    /\ Open(b)
    /\ AllResolved(b)
    /\ NameCollisions(b) = {}
    /\ \A k \in Applied(b) : keys[k].version < MaxVersion
    /\ keys' = AfterMerge(b)
    /\ logged' = MergeLogged(b)
    /\ merged' = merged \cup {b}
    /\ Remember(Applied(b), FALSE)
    /\ UNCHANGED <<delta, resolution, editor, origin>>
-----------------------------------------------------------------------------
Next ==
    \/ \E k \in KeyIds, n \in Names :
           \/ CreateOnMaster(k, n)
           \/ Import(k, n)
           \/ \E b \in Branches : CreateOnBranch(b, k, n) \/ UpdateOnBranch(b, k, n)
    \/ \E e \in Editors :
           \/ \E k \in KeyIds : BeginEdit(e, k)
           \/ \E n \in Names, checked \in BOOLEAN : WriteEdit(e, n, checked)
    \/ \E k \in KeyIds :
           \/ DeleteOnMaster(k)
           \/ \E b \in Branches :
                  \/ DeleteOnBranch(b, k)
                  \/ \E choice \in {"mine", "master"} : ResolveMeta(b, k, choice)
    \/ \E b \in Branches : Merge(b)

Spec == Init /\ [][Next]_vars
-----------------------------------------------------------------------------
(* Properties.                                                             *)

\* No two active keys share a name.  The index would refuse the second; what is
\* checked here is that no merge ever meets the index, because NameCollisions
\* looked before it applied, for any mix of renames, drafts and resolutions.
NamesAreUnique ==
    \A j, k \in KeyIds :
        Active(j) /\ Active(k) /\ keys[j].name = keys[k].name => j = k

\* Keys are never deleted from the table, so their versions never restart and
\* the comparison is exact without exception: a delta is contested just when
\* master rewrote its key since the branch first touched it.
MetaConflictIffMoved ==
    \A b \in Branches : \A k \in Touched(b) :
        /\ keys[k].version >= delta[b][k].base
        /\ Conflicted(b, k) <=> k \in moved[b]

\* A merge changes a key that master changed behind the branch's back only if
\* someone resolved that conflict for the branch.
NoSilentMetaOverwrite ==
    [][\A b \in merged' \ merged : \A k \in moved[b] :
          keys'[k] # keys[k] => resolution[b][k] = "mine"]_vars

\* A key drafted on a branch becomes visible on master in one way only: the
\* merge of that branch, with every other branch and every edit in between.
DraftsStayHidden ==
    [][\A k \in KeyIds :
          keys'[k].status = "active" /\ ~Active(k) /\ origin'[k] # None =>
              origin[k] \in merged']_vars

\* Replaying key_history gives the keys table, for every key that has been on
\* master and whose row was not written by the importer, which records nothing.
KeyHistoryExplains ==
    \A k \in KeyIds \ imported :
        keys[k].status \in {"active", "deleted"} => logged[k] = keys[k]

\* An edit that names the version it saw replaces that very row, whatever
\* committed between its read and its write.
NoLostKeyUpdate ==
    [][\A e \in Editors, n \in Names :
          WriteEdit(e, n, TRUE) /\ keys' # keys =>
              keys[editor[e].key] = editor[e].row]_vars
=============================================================================
