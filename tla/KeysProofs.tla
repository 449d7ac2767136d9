---------------------------- MODULE KeysProofs -----------------------------
(***************************************************************************)
(* What holds of Keys for every set of keys, names, branches and editors,  *)
(* and for every bound on the versions.                                    *)
(***************************************************************************)
EXTENDS Keys, TLAPS

USE MaxVersionAssumption, NoneAssumption

(***************************************************************************)
(* Type correctness.  A delta of a removed key copies the name from the    *)
(* key's row, so that types hold only while every key that exists is named *)
(* and every delta, edit and origin is that of a key that exists.          *)
(***************************************************************************)
KeysAreNamed == \A k \in KeyIds : Exists(k) => keys[k].name \in Names

DeltasHaveKeys == \A b \in Branches : \A k \in Touched(b) : Exists(k)

EditsHaveKeys ==
    \A e \in Editors : editor[e] # None =>
        Exists(editor[e].key) /\ editor[e].row.status # "none"

OriginsHaveKeys == \A k \in KeyIds : origin[k] # None => Exists(k)

WellFormed ==
    TypeOK /\ KeysAreNamed /\ DeltasHaveKeys /\ EditsHaveKeys /\ OriginsHaveKeys

LEMMA InitWellFormed == Init => WellFormed
<1> SUFFICES ASSUME Init PROVE WellFormed
    OBVIOUS
<1>1. NoKey \in Key
  BY DEF NoKey, Key, Statuses
<1>2. TypeOK
  BY <1>1 DEF Init, TypeOK
<1>3. \A k \in KeyIds : ~Exists(k) /\ origin[k] = None
  BY DEF Init, Exists, NoKey
<1>4. /\ \A b \in Branches : Touched(b) = {}
      /\ \A e \in Editors : editor[e] = None
  BY DEF Init, Touched
<1> QED
  BY <1>2, <1>3, <1>4
     DEF WellFormed, KeysAreNamed, DeltasHaveKeys, EditsHaveKeys, OriginsHaveKeys

LEMMA RememberType ==
    ASSUME TypeOK, NEW K \in SUBSET KeyIds, NEW imp \in BOOLEAN, Remember(K, imp)
    PROVE  moved' \in [Branches -> SUBSET KeyIds] /\ imported' \in SUBSET KeyIds
BY DEF TypeOK, Remember, Touched

\* A row written to the table is a key that exists and has a name, one version
\* further than the row it replaces.
LEMMA WriteKeyRow ==
    ASSUME TypeOK, NEW k \in KeyIds, NEW n \in Names, NEW s \in Statuses, WriteKey(k, n, s)
    PROVE  /\ keys' \in [KeyIds -> Key]
           /\ keys'[k] = [name |-> n, status |-> s, version |-> keys[k].version + 1]
           /\ keys'[k].version = keys[k].version + 1
           /\ keys[k].version \in Nat
           /\ \A j \in KeyIds \ {k} : keys'[j] = keys[j]
<1> DEFINE row == [name |-> n, status |-> s, version |-> keys[k].version + 1]
<1>1. keys \in [KeyIds -> Key]
  BY DEF TypeOK
<1>2. keys[k].version \in Nat
  BY <1>1 DEF Key
<1>3. row \in Key
  BY <1>2 DEF Key
<1>4. keys' = [keys EXCEPT ![k] = row]
  BY DEF WriteKey
<1> HIDE DEF row
<1>5. /\ keys' \in [KeyIds -> Key]
      /\ keys'[k] = row
      /\ \A j \in KeyIds \ {k} : keys'[j] = keys[j]
  BY <1>1, <1>3, <1>4
<1> QED
  BY <1>2, <1>5 DEF row

\* No row is ever taken out of the table.
KeysKept == \A j \in KeyIds : Exists(j) => keys'[j].status # "none"

LEMMA WriteKeyNames ==
    ASSUME WellFormed, NEW k \in KeyIds, NEW n \in Names,
           NEW s \in Statuses \ {"none"}, WriteKey(k, n, s)
    PROVE  /\ keys' \in [KeyIds -> Key]
           /\ KeysAreNamed'
           /\ KeysKept
           /\ keys'[k].status # "none"
<1>1. /\ keys' \in [KeyIds -> Key]
      /\ keys'[k] = [name |-> n, status |-> s, version |-> keys[k].version + 1]
      /\ \A j \in KeyIds \ {k} : keys'[j] = keys[j]
  BY WriteKeyRow DEF WellFormed
<1>2. keys'[k].name = n /\ keys'[k].status = s
  BY <1>1
<1> QED
  BY <1>1, <1>2 DEF WellFormed, KeysAreNamed, KeysKept, Exists

\* While keys are only added, deltas, edits and origins keep their keys.
LEMMA KeysRemain ==
    ASSUME WellFormed, KeysKept
    PROVE  /\ UNCHANGED delta => DeltasHaveKeys'
           /\ UNCHANGED editor => EditsHaveKeys'
           /\ UNCHANGED origin => OriginsHaveKeys'
<1>1. ASSUME UNCHANGED delta PROVE DeltasHaveKeys'
  BY <1>1 DEF WellFormed, DeltasHaveKeys, KeysKept, Touched, Exists
<1>2. ASSUME UNCHANGED editor PROVE EditsHaveKeys'
  <2> SUFFICES ASSUME NEW e \in Editors, editor[e] # None
               PROVE  keys'[editor[e].key].status # "none" /\ editor[e].row.status # "none"
    BY <1>2 DEF EditsHaveKeys, Exists
  <2>1. editor[e].key \in KeyIds
    BY DEF WellFormed, TypeOK, Edit
  <2> QED
    BY <2>1 DEF WellFormed, EditsHaveKeys, KeysKept
<1>3. ASSUME UNCHANGED origin PROVE OriginsHaveKeys'
  BY <1>3 DEF WellFormed, OriginsHaveKeys, KeysKept, Exists
<1> QED
  BY <1>1, <1>2, <1>3

LEMMA MasterWritePreserves ==
    ASSUME WellFormed, NEW k \in KeyIds, NEW n \in Names, NEW s \in Statuses \ {"none"},
           NEW imp \in BOOLEAN, WriteKey(k, n, s), Remember({k}, imp),
           UNCHANGED <<delta, merged, resolution, origin>>,
           logged' \in [KeyIds -> Key], editor' \in [Editors -> Edit \cup {None}], EditsHaveKeys'
    PROVE  WellFormed'
<1>1. keys' \in [KeyIds -> Key] /\ KeysAreNamed' /\ KeysKept
  BY WriteKeyNames
<1>2. moved' \in [Branches -> SUBSET KeyIds] /\ imported' \in SUBSET KeyIds
  BY RememberType DEF WellFormed
<1>3. TypeOK'
  BY <1>1, <1>2 DEF WellFormed, TypeOK
<1>4. DeltasHaveKeys' /\ OriginsHaveKeys'
  BY <1>1, KeysRemain
<1> QED
  BY <1>1, <1>3, <1>4 DEF WellFormed

LEMMA LoggedType ==
    ASSUME TypeOK, NEW k \in KeyIds, keys' \in [KeyIds -> Key], RecordHistory(k)
    PROVE  logged' \in [KeyIds -> Key]
BY DEF TypeOK, RecordHistory

LEMMA CreateOnMasterPreserves ==
    ASSUME WellFormed, NEW k \in KeyIds, NEW n \in Names, CreateOnMaster(k, n)
    PROVE  WellFormed'
<1>1. /\ WriteKey(k, n, "active") /\ RecordHistory(k) /\ Remember({k}, FALSE)
      /\ UNCHANGED <<delta, merged, resolution, editor, origin>>
      /\ "active" \in Statuses \ {"none"}
  BY DEF CreateOnMaster, Statuses
<1>2. keys' \in [KeyIds -> Key] /\ KeysKept
  BY <1>1, WriteKeyNames
<1>3. logged' \in [KeyIds -> Key] /\ editor' \in [Editors -> Edit \cup {None}]
  BY <1>1, <1>2, LoggedType DEF WellFormed, TypeOK
<1>4. EditsHaveKeys'
  BY <1>1, <1>2, KeysRemain
<1> QED
  BY <1>1, <1>3, <1>4, MasterWritePreserves

LEMMA ImportPreserves ==
    ASSUME WellFormed, NEW k \in KeyIds, NEW n \in Names, Import(k, n)
    PROVE  WellFormed'
<1>1. /\ WriteKey(k, n, "active") /\ Remember({k}, TRUE)
      /\ UNCHANGED <<delta, merged, resolution, editor, logged, origin>>
      /\ "active" \in Statuses \ {"none"}
  BY DEF Import, Statuses
<1>2. KeysKept
  BY <1>1, WriteKeyNames
<1>3. logged' \in [KeyIds -> Key] /\ editor' \in [Editors -> Edit \cup {None}]
  BY <1>1 DEF WellFormed, TypeOK
<1>4. EditsHaveKeys'
  BY <1>1, <1>2, KeysRemain
<1> QED
  BY <1>1, <1>3, <1>4, MasterWritePreserves

LEMMA DeleteOnMasterPreserves ==
    ASSUME WellFormed, NEW k \in KeyIds, DeleteOnMaster(k)
    PROVE  WellFormed'
<1>1. /\ WriteKey(k, keys[k].name, "deleted") /\ RecordHistory(k) /\ Remember({k}, FALSE)
      /\ UNCHANGED <<delta, merged, resolution, editor, origin>>
      /\ "deleted" \in Statuses \ {"none"}
      /\ keys[k].name \in Names
  BY DEF DeleteOnMaster, Statuses, WellFormed, KeysAreNamed
<1>2. keys' \in [KeyIds -> Key] /\ KeysKept
  BY <1>1, WriteKeyNames
<1>3. logged' \in [KeyIds -> Key] /\ editor' \in [Editors -> Edit \cup {None}]
  BY <1>1, <1>2, LoggedType DEF WellFormed, TypeOK
<1>4. EditsHaveKeys'
  BY <1>1, <1>2, KeysRemain
<1> QED
  BY <1>1, <1>3, <1>4, MasterWritePreserves

LEMMA BeginEditPreserves ==
    ASSUME WellFormed, NEW e \in Editors, NEW k \in KeyIds, BeginEdit(e, k)
    PROVE  WellFormed'
<1>1. /\ editor' = [editor EXCEPT ![e] = [key |-> k, row |-> keys[k]]]
      /\ UNCHANGED <<keys, delta, merged, resolution, logged, moved, imported, origin>>
      /\ keys[k].status # "none"
  BY DEF BeginEdit, Exists
<1>2. [key |-> k, row |-> keys[k]] \in Edit
  BY DEF WellFormed, TypeOK, Edit
<1>3. TypeOK'
  BY <1>1, <1>2 DEF WellFormed, TypeOK
<1>4. EditsHaveKeys'
  <2> SUFFICES ASSUME NEW f \in Editors, editor'[f] # None
               PROVE  keys[editor'[f].key].status # "none" /\ editor'[f].row.status # "none"
    BY <1>1 DEF EditsHaveKeys, Exists
  <2>1. CASE f = e
    BY <1>1, <2>1 DEF WellFormed, TypeOK
  <2>2. CASE f # e
    BY <1>1, <2>2 DEF WellFormed, TypeOK, EditsHaveKeys, Exists
  <2> QED
    BY <2>1, <2>2
<1>5. KeysAreNamed' /\ DeltasHaveKeys' /\ OriginsHaveKeys'
  BY <1>1 DEF WellFormed, KeysAreNamed, DeltasHaveKeys, OriginsHaveKeys, Touched, Exists
<1> QED
  BY <1>3, <1>4, <1>5 DEF WellFormed

LEMMA WriteEditPreserves ==
    ASSUME WellFormed, NEW e \in Editors, NEW n \in Names, NEW checked \in BOOLEAN,
           WriteEdit(e, n, checked)
    PROVE  WellFormed'
<1> DEFINE d == editor[e]
<1>1. d \in Edit /\ d.key \in KeyIds /\ d.row.status \in Statuses \ {"none"}
  BY DEF WriteEdit, WellFormed, TypeOK, EditsHaveKeys, Edit, Key
<1>2. editor' = [editor EXCEPT ![e] = None] /\ UNCHANGED <<delta, merged, resolution, origin>>
  BY DEF WriteEdit
<1>3. editor' \in [Editors -> Edit \cup {None}]
  BY <1>2 DEF WellFormed, TypeOK
<1>4. ASSUME KeysKept PROVE EditsHaveKeys'
  <2> SUFFICES ASSUME NEW f \in Editors, editor'[f] # None
               PROVE  keys'[editor'[f].key].status # "none" /\ editor'[f].row.status # "none"
    BY DEF EditsHaveKeys, Exists
  <2>1. f # e /\ editor'[f] = editor[f] /\ editor[f].key \in KeyIds
    BY <1>2, <1>3 DEF WellFormed, TypeOK, Edit
  <2> QED
    BY <2>1, <1>4 DEF WellFormed, EditsHaveKeys, KeysKept
<1>5. CASE Overtaken(d, checked) \/ Taken(d, n)
  <2>1. UNCHANGED <<keys, logged, moved, imported>>
    BY <1>5 DEF WriteEdit
  <2>2. KeysKept
    BY <2>1 DEF KeysKept, Exists
  <2>3. TypeOK'
    BY <2>1, <1>2, <1>3 DEF WellFormed, TypeOK
  <2>4. KeysAreNamed'
    BY <2>1 DEF WellFormed, KeysAreNamed, Exists
  <2> QED
    BY <1>2, <1>4, <2>2, <2>3, <2>4, KeysRemain DEF WellFormed
<1>6. CASE ~(Overtaken(d, checked) \/ Taken(d, n))
  <2>1. WriteKey(d.key, n, d.row.status) /\ RecordHistory(d.key) /\ Remember({d.key}, FALSE)
    BY <1>6 DEF WriteEdit
  <2> HIDE DEF d
  <2>2. keys' \in [KeyIds -> Key] /\ KeysKept
    BY <1>1, <2>1, WriteKeyNames
  <2>3. logged' \in [KeyIds -> Key]
    BY <1>1, <2>1, <2>2, LoggedType DEF WellFormed
  <2> QED
    BY <1>1, <1>2, <1>3, <1>4, <2>1, <2>2, <2>3, MasterWritePreserves
<1> QED
  BY <1>5, <1>6

LEMMA DeltaType ==
    ASSUME TypeOK, NEW b \in Branches, NEW k \in KeyIds, delta[b][k] # None
    PROVE  /\ delta[b][k].name \in Names
           /\ delta[b][k].status \in Statuses \ {"none"}
           /\ delta[b][k].base \in Nat
<1>1. delta[b] \in [KeyIds -> Delta \cup {None}]
  BY DEF TypeOK
<1>2. delta[b][k] \in Delta
  BY <1>1
<1> QED
  BY <1>2 DEF Delta

LEMMA SetKeyMetaPreserves ==
    ASSUME WellFormed, NEW b \in Branches, NEW k \in KeyIds, NEW n \in Names,
           NEW s \in Statuses \ {"none"}, SetKeyMeta(b, k, n, s),
           keys' \in [KeyIds -> Key], KeysKept, keys'[k].status # "none"
    PROVE  delta' \in [Branches -> [KeyIds -> Delta \cup {None}]] /\ DeltasHaveKeys'
<1> DEFINE new == [name |-> n, status |-> s, base |-> DeltaBase(b, k)]
<1>1. delta' = [delta EXCEPT ![b][k] = new]
  BY DEF SetKeyMeta
<1>2. DeltaBase(b, k) \in Nat
  <2>1. CASE delta[b][k] = None
    BY <2>1 DEF DeltaBase, Key
  <2>2. CASE delta[b][k] # None
    BY <2>2, DeltaType DEF DeltaBase, WellFormed
  <2> QED
    BY <2>1, <2>2
<1>3. new \in Delta
  BY <1>2 DEF Delta
<1> HIDE DEF new
<1>4. delta' \in [Branches -> [KeyIds -> Delta \cup {None}]]
  BY <1>1, <1>3 DEF WellFormed, TypeOK
<1>5. \A a \in Branches, j \in KeyIds : <<a, j>> # <<b, k>> => delta'[a][j] = delta[a][j]
  BY <1>1 DEF WellFormed, TypeOK
<1>6. DeltasHaveKeys'
  <2> SUFFICES ASSUME NEW a \in Branches, NEW j \in KeyIds, delta'[a][j] # None
               PROVE  keys'[j].status # "none"
    BY DEF DeltasHaveKeys, Touched, Exists
  <2>1. CASE j = k
    BY <2>1
  <2>2. CASE j # k
    <3>1. j \in Touched(a)
      BY <2>2, <1>5 DEF Touched
    <3> QED
      BY <3>1 DEF WellFormed, DeltasHaveKeys, KeysKept
  <2> QED
    BY <2>1, <2>2
<1> QED
  BY <1>4, <1>6

LEMMA CreateOnBranchPreserves ==
    ASSUME WellFormed, NEW b \in Branches, NEW k \in KeyIds, NEW n \in Names,
           CreateOnBranch(b, k, n)
    PROVE  WellFormed'
<1>1. /\ WriteKey(k, n, "draft") /\ SetKeyMeta(b, k, n, "active")
      /\ origin' = [origin EXCEPT ![k] = b]
      /\ UNCHANGED <<merged, resolution, editor, logged, moved, imported>>
      /\ {"draft", "active"} \subseteq Statuses \ {"none"}
  BY DEF CreateOnBranch, CreatedStatus, Statuses
<1>2. keys' \in [KeyIds -> Key] /\ KeysAreNamed' /\ KeysKept /\ keys'[k].status # "none"
  BY <1>1, WriteKeyNames
<1>3. delta' \in [Branches -> [KeyIds -> Delta \cup {None}]] /\ DeltasHaveKeys'
  BY <1>1, <1>2, SetKeyMetaPreserves
<1>4. EditsHaveKeys'
  BY <1>1, <1>2, KeysRemain
<1>5. origin' \in [KeyIds -> Branches \cup {None}] /\ OriginsHaveKeys'
  BY <1>1, <1>2 DEF WellFormed, TypeOK, OriginsHaveKeys, KeysKept, Exists
<1>6. TypeOK'
  BY <1>1, <1>2, <1>3, <1>5 DEF WellFormed, TypeOK
<1> QED
  BY <1>2, <1>3, <1>4, <1>5, <1>6 DEF WellFormed

\* A delta over a key that exists, and nothing else.
LEMMA DeltaAlonePreserves ==
    ASSUME WellFormed, NEW b \in Branches, NEW k \in KeyIds, NEW n \in Names,
           NEW s \in Statuses \ {"none"}, SetKeyMeta(b, k, n, s), Exists(k),
           UNCHANGED <<keys, merged, resolution, editor, logged, moved, imported, origin>>
    PROVE  WellFormed'
<1>1. /\ keys' \in [KeyIds -> Key] /\ KeysKept /\ keys'[k].status # "none"
      /\ KeysAreNamed'
  BY DEF WellFormed, TypeOK, KeysAreNamed, KeysKept, Exists
<1>2. delta' \in [Branches -> [KeyIds -> Delta \cup {None}]] /\ DeltasHaveKeys'
  BY <1>1, SetKeyMetaPreserves
<1>3. EditsHaveKeys' /\ OriginsHaveKeys'
  BY <1>1, KeysRemain
<1>4. TypeOK'
  BY <1>2 DEF WellFormed, TypeOK
<1> QED
  BY <1>1, <1>2, <1>3, <1>4 DEF WellFormed

LEMMA OnBranchStatus ==
    ASSUME WellFormed, NEW b \in Branches, NEW k \in KeyIds, Exists(k)
    PROVE  OnBranch(b, k).status \in Statuses \ {"none"}
<1>1. CASE delta[b][k] = None
  BY <1>1 DEF OnBranch, WellFormed, TypeOK, Exists, Key
<1>2. CASE delta[b][k] # None
  BY <1>2, DeltaType DEF OnBranch, WellFormed
<1> QED
  BY <1>1, <1>2

LEMMA UpdateOnBranchPreserves ==
    ASSUME WellFormed, NEW b \in Branches, NEW k \in KeyIds, NEW n \in Names,
           UpdateOnBranch(b, k, n)
    PROVE  WellFormed'
BY OnBranchStatus, DeltaAlonePreserves DEF UpdateOnBranch

LEMMA DeleteOnBranchPreserves ==
    ASSUME WellFormed, NEW b \in Branches, NEW k \in KeyIds, DeleteOnBranch(b, k)
    PROVE  WellFormed'
<1>1. keys[k].name \in Names /\ "deleted" \in Statuses \ {"none"}
  BY DEF DeleteOnBranch, WellFormed, KeysAreNamed, Statuses
<1> QED
  BY <1>1, DeltaAlonePreserves DEF DeleteOnBranch

LEMMA ResolveMetaPreserves ==
    ASSUME WellFormed, NEW b \in Branches, NEW k \in KeyIds, NEW choice \in {"mine", "master"},
           ResolveMeta(b, k, choice)
    PROVE  WellFormed'
<1>1. /\ UNCHANGED <<keys, delta, merged, editor, logged, moved, imported, origin>>
      /\ resolution' = [resolution EXCEPT ![b][k] = choice]
  BY DEF ResolveMeta
<1>2. TypeOK'
  BY <1>1 DEF WellFormed, TypeOK
<1> QED
  BY <1>1, <1>2
     DEF WellFormed, KeysAreNamed, DeltasHaveKeys, EditsHaveKeys, OriginsHaveKeys, Touched, Exists

\* What a merge makes of a row.
LEMMA MergedRow ==
    ASSUME WellFormed, NEW b \in Branches, NEW k \in KeyIds, k \in Applied(b)
    PROVE  /\ delta[b][k] # None
           /\ AfterMerge(b)[k] \in Key
           /\ AfterMerge(b)[k].name = delta[b][k].name
           /\ AfterMerge(b)[k].status = delta[b][k].status
           /\ AfterMerge(b)[k].version = keys[k].version + 1
           /\ keys[k].version \in Nat
<1>1. delta[b][k] # None
  BY DEF Applied, Touched
<1>2. keys[k].version \in Nat
  BY DEF WellFormed, TypeOK, Key
<1>3. AfterMerge(b)[k] = [name |-> delta[b][k].name, status |-> delta[b][k].status,
                          version |-> keys[k].version + 1]
  BY DEF AfterMerge
<1>4. AfterMerge(b)[k] \in Key
  BY <1>1, <1>2, <1>3, DeltaType DEF Key, WellFormed
<1> QED
  BY <1>1, <1>2, <1>3, <1>4

LEMMA UnmergedRow ==
    ASSUME NEW b \in Branches, NEW k \in KeyIds, k \notin Applied(b)
    PROVE  AfterMerge(b)[k] = keys[k]
BY DEF AfterMerge

LEMMA MergePreserves ==
    ASSUME WellFormed, NEW b \in Branches, Merge(b)
    PROVE  WellFormed'
<1>1. /\ keys' = AfterMerge(b) /\ logged' = MergeLogged(b)
      /\ merged' = merged \cup {b} /\ Remember(Applied(b), FALSE)
      /\ UNCHANGED <<delta, resolution, editor, origin>>
  BY DEF Merge
<1>2. \A k \in KeyIds : AfterMerge(b)[k] \in Key
  BY MergedRow, UnmergedRow DEF WellFormed, TypeOK
<1>3. keys' \in [KeyIds -> Key]
  BY <1>1, <1>2 DEF AfterMerge
<1>4. logged' \in [KeyIds -> Key]
  BY <1>1, <1>2 DEF MergeLogged, WellFormed, TypeOK
<1>5. Applied(b) \in SUBSET KeyIds
  BY DEF Applied, Touched
<1>6. moved' \in [Branches -> SUBSET KeyIds] /\ imported' \in SUBSET KeyIds
  BY <1>1, <1>5, RememberType DEF WellFormed
<1>7. TypeOK'
  BY <1>1, <1>3, <1>4, <1>6 DEF WellFormed, TypeOK
<1>8. \A k \in KeyIds : k \in Applied(b) =>
        keys'[k].status # "none" /\ keys'[k].name \in Names
  BY <1>1, MergedRow, DeltaType DEF WellFormed
<1>9. \A k \in KeyIds : k \notin Applied(b) => keys'[k] = keys[k]
  BY <1>1, UnmergedRow
<1>10. KeysKept /\ KeysAreNamed'
  BY <1>8, <1>9 DEF WellFormed, KeysKept, KeysAreNamed, Exists
<1> QED
  BY <1>1, <1>7, <1>10, KeysRemain DEF WellFormed

LEMMA StutterPreserves == WellFormed /\ UNCHANGED vars => WellFormed'
BY DEF vars, database, WellFormed, TypeOK, KeysAreNamed, DeltasHaveKeys, EditsHaveKeys,
       OriginsHaveKeys, Touched, Exists

LEMMA NextPreserves == WellFormed /\ [Next]_vars => WellFormed'
<1> SUFFICES ASSUME WellFormed, [Next]_vars PROVE WellFormed'
    OBVIOUS
<1>1. CASE Next
  BY <1>1, CreateOnMasterPreserves, ImportPreserves, CreateOnBranchPreserves,
     UpdateOnBranchPreserves, BeginEditPreserves, WriteEditPreserves,
     DeleteOnMasterPreserves, DeleteOnBranchPreserves, ResolveMetaPreserves, MergePreserves
     DEF Next
<1>2. CASE UNCHANGED vars
  BY <1>2, StutterPreserves
<1> QED
  BY <1>1, <1>2

LEMMA WellFormedInvariant == Spec => []WellFormed
BY InitWellFormed, NextPreserves, PTL DEF Spec

\* The types of the tables, and of what is in flight between an edit's read and
\* its write.
THEOREM KeysTypeCorrect == Spec => []TypeOK
<1>1. WellFormed => TypeOK
  BY DEF WellFormed
<1> QED
  BY <1>1, WellFormedInvariant, PTL

(***************************************************************************)
(* Conflicts.  A delta's base is captured on the first touch, when nothing *)
(* can yet have moved; from then on every write of master's row raises its *)
(* version and is remembered.                                              *)
(***************************************************************************)
MovedAreTouched == \A b \in Branches : moved[b] \subseteq Touched(b)

ConflictInv == WellFormed /\ MovedAreTouched /\ MetaConflictIffMoved

\* Master's rows at W go one version further, and no others change.
LEMMA MasterWriteKeepsRule ==
    ASSUME ConflictInv, NEW W \in SUBSET KeyIds, NEW imp \in BOOLEAN, Remember(W, imp),
           UNCHANGED delta,
           \A k \in W : keys'[k].version = keys[k].version + 1,
           \A k \in KeyIds \ W : keys'[k] = keys[k]
    PROVE  (MovedAreTouched /\ MetaConflictIffMoved)'
<1>1. \A b \in Branches : moved'[b] = moved[b] \cup (W \cap Touched(b))
  BY DEF Remember
<1>2. MovedAreTouched'
  BY <1>1 DEF ConflictInv, MovedAreTouched, Touched
<1>3. ASSUME NEW b \in Branches, NEW k \in KeyIds, delta[b][k] # None
      PROVE  /\ keys'[k].version >= delta[b][k].base
             /\ keys'[k].version # delta[b][k].base <=> k \in moved'[b]
  <2>1. k \in Touched(b)
    BY <1>3 DEF Touched
  <2>2. /\ keys[k].version >= delta[b][k].base
        /\ keys[k].version # delta[b][k].base <=> k \in moved[b]
    BY <1>3, <2>1 DEF ConflictInv, MetaConflictIffMoved, Conflicted
  <2>3. keys[k].version \in Nat /\ delta[b][k].base \in Nat
    BY <1>3, DeltaType DEF ConflictInv, WellFormed, TypeOK, Key
  <2>4. CASE k \in W
    BY <1>1, <2>1, <2>2, <2>3, <2>4
  <2>5. CASE k \notin W
    BY <1>1, <2>2, <2>5
  <2> QED
    BY <2>4, <2>5
<1> QED
  BY <1>2, <1>3 DEF MetaConflictIffMoved, Conflicted, Touched

\* A delta of k on b is written; no key with a delta changes on master.
LEMMA DeltaKeepsRule ==
    ASSUME ConflictInv, NEW b \in Branches, NEW k \in KeyIds, NEW n \in Names,
           NEW s \in Statuses \ {"none"}, SetKeyMeta(b, k, n, s), UNCHANGED moved,
           keys' \in [KeyIds -> Key],
           \A a \in Branches : \A j \in Touched(a) : keys'[j] = keys[j]
    PROVE  (MovedAreTouched /\ MetaConflictIffMoved)'
<1> DEFINE new == [name |-> n, status |-> s, base |-> DeltaBase(b, k)]
<1>1. delta \in [Branches -> [KeyIds -> Delta \cup {None}]]
  BY DEF ConflictInv, WellFormed, TypeOK
<1>2. delta' = [delta EXCEPT ![b][k] = new]
  BY DEF SetKeyMeta
<1>3. new.base = DeltaBase(b, k)
  OBVIOUS
<1> HIDE DEF new
<1>4. /\ delta'[b][k] = new
      /\ \A a \in Branches, j \in KeyIds : <<a, j>> # <<b, k>> => delta'[a][j] = delta[a][j]
  BY <1>1, <1>2
<1>5. \A a \in Branches, j \in KeyIds : delta[a][j] # None => delta'[a][j] # None
  <2>1. DeltaBase(b, k) \in Nat
    BY DeltaType DEF DeltaBase, Key, ConflictInv, WellFormed
  <2>2. new \in Delta
    BY <2>1 DEF new, Delta
  <2> QED
    BY <1>4, <2>2
<1>6. MovedAreTouched'
  BY <1>5 DEF ConflictInv, MovedAreTouched, Touched
<1>7. ASSUME NEW a \in Branches, NEW j \in KeyIds, delta'[a][j] # None
      PROVE  /\ keys'[j].version >= delta'[a][j].base
             /\ keys'[j].version # delta'[a][j].base <=> j \in moved[a]
  <2>1. ASSUME delta[a][j] # None
        PROVE  /\ delta'[a][j].base = delta[a][j].base
               /\ keys'[j] = keys[j]
               /\ keys[j].version >= delta[a][j].base
               /\ keys[j].version # delta[a][j].base <=> j \in moved[a]
    <3>1. j \in Touched(a)
      BY <2>1 DEF Touched
    <3>2. delta'[a][j].base = delta[a][j].base
      BY <1>3, <1>4, <2>1 DEF DeltaBase
    <3> QED
      BY <2>1, <3>1, <3>2 DEF ConflictInv, MetaConflictIffMoved, Conflicted
  <2>2. ASSUME delta[a][j] = None
        PROVE  /\ delta'[a][j].base = keys'[j].version
               /\ j \notin moved[a]
               /\ keys'[j].version \in Nat
    <3>1. a = b /\ j = k
      BY <1>4, <1>7, <2>2
    <3>2. j \notin moved[a]
      BY <2>2 DEF ConflictInv, MovedAreTouched, Touched
    <3>3. keys'[j].version \in Nat
      BY DEF Key
    <3> QED
      BY <1>3, <1>4, <2>2, <3>1, <3>2, <3>3 DEF DeltaBase
  <2> QED
    BY <2>1, <2>2
<1> QED
  BY <1>6, <1>7 DEF MetaConflictIffMoved, Conflicted, Touched

LEMMA MasterStepsKeepRule ==
    ASSUME ConflictInv, NEW k \in KeyIds, NEW n \in Names, NEW s \in Statuses \ {"none"},
           NEW imp \in BOOLEAN, WriteKey(k, n, s), Remember({k}, imp), UNCHANGED delta
    PROVE  (MovedAreTouched /\ MetaConflictIffMoved)'
<1>1. /\ keys'[k].version = keys[k].version + 1
      /\ \A j \in KeyIds \ {k} : keys'[j] = keys[j]
  BY WriteKeyRow DEF ConflictInv, WellFormed
<1> QED
  BY <1>1, MasterWriteKeepsRule

LEMMA WriteEditKeepsRule ==
    ASSUME ConflictInv, NEW e \in Editors, NEW n \in Names, NEW checked \in BOOLEAN,
           WriteEdit(e, n, checked)
    PROVE  (MovedAreTouched /\ MetaConflictIffMoved)'
<1> DEFINE d == editor[e]
<1>1. d.key \in KeyIds /\ d.row.status \in Statuses \ {"none"}
  BY DEF WriteEdit, ConflictInv, WellFormed, TypeOK, EditsHaveKeys, Edit, Key
<1>2. CASE Overtaken(d, checked) \/ Taken(d, n)
  BY <1>2 DEF WriteEdit, ConflictInv, MovedAreTouched, MetaConflictIffMoved, Conflicted, Touched
<1>3. CASE ~(Overtaken(d, checked) \/ Taken(d, n))
  <2>1. /\ WriteKey(d.key, n, d.row.status) /\ Remember({d.key}, FALSE)
        /\ UNCHANGED delta
    BY <1>3 DEF WriteEdit
  <2> HIDE DEF d
  <2> QED
    BY <1>1, <2>1, MasterStepsKeepRule
<1> QED
  BY <1>2, <1>3

LEMMA CreateOnBranchKeepsRule ==
    ASSUME ConflictInv, NEW b \in Branches, NEW k \in KeyIds, NEW n \in Names,
           CreateOnBranch(b, k, n)
    PROVE  (MovedAreTouched /\ MetaConflictIffMoved)'
<1>1. /\ WriteKey(k, n, "draft") /\ SetKeyMeta(b, k, n, "active") /\ UNCHANGED moved
      /\ {"draft", "active"} \subseteq Statuses \ {"none"} /\ ~Exists(k)
  BY DEF CreateOnBranch, CreatedStatus, Statuses
<1>2. keys' \in [KeyIds -> Key] /\ \A j \in KeyIds \ {k} : keys'[j] = keys[j]
  BY <1>1, WriteKeyRow DEF ConflictInv, WellFormed
<1>3. \A a \in Branches : \A j \in Touched(a) : j \in KeyIds \ {k}
  BY <1>1 DEF ConflictInv, WellFormed, DeltasHaveKeys, Touched
<1> QED
  BY <1>1, <1>2, <1>3, DeltaKeepsRule

LEMMA DeltaAloneKeepsRule ==
    ASSUME ConflictInv, NEW b \in Branches, NEW k \in KeyIds, NEW n \in Names,
           NEW s \in Statuses \ {"none"}, SetKeyMeta(b, k, n, s), UNCHANGED <<keys, moved>>
    PROVE  (MovedAreTouched /\ MetaConflictIffMoved)'
<1>1. keys' \in [KeyIds -> Key]
  BY DEF ConflictInv, WellFormed, TypeOK
<1>2. \A a \in Branches : \A j \in Touched(a) : keys'[j] = keys[j]
  OBVIOUS
<1> QED
  BY <1>1, <1>2, DeltaKeepsRule

LEMMA MergeKeepsRule ==
    ASSUME ConflictInv, NEW b \in Branches, Merge(b)
    PROVE  (MovedAreTouched /\ MetaConflictIffMoved)'
<1>1. Applied(b) \in SUBSET KeyIds
  BY DEF Applied, Touched
<1>2. keys' = AfterMerge(b) /\ Remember(Applied(b), FALSE) /\ UNCHANGED delta
  BY DEF Merge
<1>3. \A k \in Applied(b) : keys'[k].version = keys[k].version + 1
  BY <1>1, <1>2, MergedRow DEF ConflictInv
<1>4. \A k \in KeyIds \ Applied(b) : keys'[k] = keys[k]
  BY <1>2, UnmergedRow
<1> QED
  BY <1>1, <1>2, <1>3, <1>4, MasterWriteKeepsRule

LEMMA NextKeepsRule == ConflictInv /\ [Next]_vars => ConflictInv'
<1> SUFFICES ASSUME ConflictInv, [Next]_vars PROVE ConflictInv'
    OBVIOUS
<1>1. WellFormed'
  BY NextPreserves DEF ConflictInv
<1>2. {"active", "deleted"} \subseteq Statuses \ {"none"}
  BY DEF Statuses
<1> SUFFICES (MovedAreTouched /\ MetaConflictIffMoved)'
    BY <1>1 DEF ConflictInv
<1>3. ASSUME NEW k \in KeyIds, NEW n \in Names, CreateOnMaster(k, n) \/ Import(k, n)
      PROVE  (MovedAreTouched /\ MetaConflictIffMoved)'
  BY <1>2, <1>3, MasterStepsKeepRule DEF CreateOnMaster, Import
<1>4. ASSUME NEW k \in KeyIds, DeleteOnMaster(k)
      PROVE  (MovedAreTouched /\ MetaConflictIffMoved)'
  <2>1. keys[k].name \in Names
    BY <1>4 DEF DeleteOnMaster, ConflictInv, WellFormed, KeysAreNamed
  <2> QED
    BY <1>2, <1>4, <2>1, MasterStepsKeepRule DEF DeleteOnMaster
<1>5. ASSUME NEW b \in Branches, NEW k \in KeyIds, NEW n \in Names, UpdateOnBranch(b, k, n)
      PROVE  (MovedAreTouched /\ MetaConflictIffMoved)'
  BY <1>5, OnBranchStatus, DeltaAloneKeepsRule DEF UpdateOnBranch, ConflictInv
<1>6. ASSUME NEW b \in Branches, NEW k \in KeyIds, DeleteOnBranch(b, k)
      PROVE  (MovedAreTouched /\ MetaConflictIffMoved)'
  <2>1. keys[k].name \in Names
    BY <1>6 DEF DeleteOnBranch, ConflictInv, WellFormed, KeysAreNamed
  <2> QED
    BY <1>2, <1>6, <2>1, DeltaAloneKeepsRule DEF DeleteOnBranch
<1>7. ASSUME \/ \E e \in Editors, k \in KeyIds : BeginEdit(e, k)
             \/ \E b \in Branches, k \in KeyIds, choice \in {"mine", "master"} :
                    ResolveMeta(b, k, choice)
             \/ UNCHANGED vars
      PROVE  (MovedAreTouched /\ MetaConflictIffMoved)'
  <2>1. UNCHANGED <<keys, delta, moved>>
    BY <1>7 DEF BeginEdit, ResolveMeta, vars, database
  <2> QED
    BY <2>1 DEF ConflictInv, MovedAreTouched, MetaConflictIffMoved, Conflicted, Touched
<1> QED
  BY <1>3, <1>4, <1>5, <1>6, <1>7, WriteEditKeepsRule, CreateOnBranchKeepsRule, MergeKeepsRule
     DEF Next

LEMMA ConflictInvariant == Spec => []ConflictInv
<1>1. Init => ConflictInv
  <2>1. Init => MovedAreTouched /\ MetaConflictIffMoved
    BY DEF Init, MovedAreTouched, MetaConflictIffMoved, Touched
  <2> QED
    BY <2>1, InitWellFormed DEF ConflictInv
<1> QED
  BY <1>1, NextKeepsRule, PTL DEF Spec

\* A delta of a key is contested exactly when master changed the key since the
\* branch first touched it, for any number of branches and edits.
THEOREM MetaConflictsAreExact == Spec => []MetaConflictIffMoved
<1>1. ConflictInv => MetaConflictIffMoved
  BY DEF ConflictInv
<1> QED
  BY <1>1, ConflictInvariant, PTL

\* What a merge changes on keys that moved, someone resolved for the branch.
THEOREM MetaNotOverwrittenSilently == Spec => NoSilentMetaOverwrite
<1> DEFINE Kept == \A b \in merged' \ merged : \A k \in moved[b] :
                       keys'[k] # keys[k] => resolution[b][k] = "mine"
<1>1. ASSUME ConflictInv, [Next]_vars, NEW b \in merged' \ merged, NEW k \in moved[b],
             keys'[k] # keys[k]
      PROVE  resolution[b][k] = "mine"
  <2>1. PICK a \in Branches : Merge(a)
    BY <1>1 DEF Next, vars, database, CreateOnMaster, Import, CreateOnBranch, UpdateOnBranch,
                BeginEdit, WriteEdit, DeleteOnMaster, DeleteOnBranch, ResolveMeta
  <2>2. a = b
    BY <1>1, <2>1 DEF Merge
  <2>3. b \in Branches /\ k \in KeyIds /\ Conflicted(b, k)
    BY <1>1, <2>2 DEF ConflictInv, MovedAreTouched, MetaConflictIffMoved, Touched
  <2>4. resolution[b][k] # ""
    BY <2>1, <2>2, <2>3 DEF Merge, AllResolved
  <2>5. k \in Applied(b)
    BY <1>1, <2>1, <2>2, <2>3, UnmergedRow DEF Merge
  <2>6. resolution[b][k] # "master"
    BY <2>3, <2>5 DEF Applied
  <2>7. resolution[b][k] \in {"", "mine", "master"}
    <3>1. resolution[b] \in [KeyIds -> {"", "mine", "master"}]
      BY <1>1, <2>3 DEF ConflictInv, WellFormed, TypeOK
    <3> QED
      BY <2>3, <3>1
  <2> QED
    BY <2>4, <2>6, <2>7
<1>2. ConflictInv /\ [Next]_vars => [Kept]_vars
  BY <1>1
<1>3. Spec => [][Kept]_vars
  BY <1>2, ConflictInvariant, PTL DEF Spec
<1> QED
  BY <1>3 DEF NoSilentMetaOverwrite


(***************************************************************************)
(* Names.  Within a branch no two deltas share a name, whatever they say   *)
(* of the status, so that a merge that collides with no key that is active *)
(* now makes no two keys of its own collide.                               *)
(***************************************************************************)
BranchNamesAreUnique ==
    \A b \in Branches : \A j, k \in Touched(b) :
        delta[b][j].name = delta[b][k].name => j = k

NamesInv == WellFormed /\ NamesAreUnique /\ BranchNamesAreUnique

LEMMA WriteKeepsNames ==
    ASSUME NamesInv, NEW k \in KeyIds, NEW n \in Names, NEW s \in Statuses \ {"none"},
           WriteKey(k, n, s), s = "active" => NameFree(k, n)
    PROVE  NamesAreUnique'
<1>1. /\ keys'[k] = [name |-> n, status |-> s, version |-> keys[k].version + 1]
      /\ \A j \in KeyIds \ {k} : keys'[j] = keys[j]
  BY WriteKeyRow DEF NamesInv, WellFormed
<1>2. keys'[k].name = n /\ keys'[k].status = s
  BY <1>1
<1> QED
  BY <1>1, <1>2 DEF NamesInv, NamesAreUnique, Active, NameFree

LEMMA MergeKeepsNames ==
    ASSUME NamesInv, NEW b \in Branches, Merge(b)
    PROVE  NamesAreUnique'
<1> SUFFICES ASSUME NEW j \in KeyIds, NEW k \in KeyIds, keys'[j].status = "active",
                    keys'[k].status = "active", keys'[j].name = keys'[k].name
             PROVE  j = k
    BY DEF NamesAreUnique, Active
<1>1. keys' = AfterMerge(b) /\ NameCollisions(b) = {}
  BY DEF Merge
<1>2. ASSUME NEW i \in KeyIds, i \in Applied(b)
      PROVE  /\ keys'[i].name = delta[b][i].name /\ i \in Touched(b)
             /\ keys'[i].status = "active" => NameFree(i, keys'[i].name)
  <2>1. /\ keys'[i].name = delta[b][i].name /\ keys'[i].status = delta[b][i].status
        /\ i \in Touched(b)
    BY <1>1, <1>2, MergedRow DEF NamesInv, Applied
  <2> QED
    BY <1>1, <2>1 DEF NameCollisions
<1>3. \A i \in KeyIds : i \notin Applied(b) => keys'[i] = keys[i]
  BY <1>1, UnmergedRow
<1>4. CASE j \in Applied(b) /\ k \in Applied(b)
  BY <1>2, <1>4 DEF NamesInv, BranchNamesAreUnique
<1>5. CASE j \in Applied(b) /\ k \notin Applied(b)
  BY <1>2, <1>3, <1>5 DEF NameFree, Active
<1>6. CASE j \notin Applied(b) /\ k \in Applied(b)
  BY <1>2, <1>3, <1>6 DEF NameFree, Active
<1>7. CASE j \notin Applied(b) /\ k \notin Applied(b)
  BY <1>3, <1>7 DEF NamesInv, NamesAreUnique, Active
<1> QED
  BY <1>4, <1>5, <1>6, <1>7

LEMMA DeltaKeepsBranchNames ==
    ASSUME NamesInv, NEW b \in Branches, NEW k \in KeyIds, NEW n \in Names,
           NEW s \in Statuses, SetKeyMeta(b, k, n, s)
    PROVE  BranchNamesAreUnique'
<1> DEFINE new == [name |-> n, status |-> s, base |-> DeltaBase(b, k)]
<1>1. delta' = [delta EXCEPT ![b][k] = new] /\ BranchNameFree(b, k, n)
  BY DEF SetKeyMeta
<1>2. new.name = n
  OBVIOUS
<1> HIDE DEF new
<1>3. /\ delta'[b][k] = new
      /\ \A a \in Branches, j \in KeyIds : <<a, j>> # <<b, k>> => delta'[a][j] = delta[a][j]
  BY <1>1 DEF NamesInv, WellFormed, TypeOK
<1> SUFFICES ASSUME NEW a \in Branches, NEW i \in KeyIds, NEW j \in KeyIds,
                    delta'[a][i] # None, delta'[a][j] # None,
                    delta'[a][i].name = delta'[a][j].name
             PROVE  i = j
    BY DEF BranchNamesAreUnique, Touched
<1>4. CASE a = b /\ i = k
  BY <1>1, <1>2, <1>3, <1>4 DEF BranchNameFree, Touched
<1>5. CASE a = b /\ j = k
  BY <1>1, <1>2, <1>3, <1>5 DEF BranchNameFree, Touched
<1>6. CASE a # b \/ (i # k /\ j # k)
  BY <1>3, <1>6 DEF NamesInv, BranchNamesAreUnique, Touched
<1> QED
  BY <1>4, <1>5, <1>6

LEMMA NextKeepsNames == NamesInv /\ [Next]_vars => NamesInv'
<1> SUFFICES ASSUME NamesInv, [Next]_vars PROVE NamesInv'
    OBVIOUS
<1>1. WellFormed'
  BY NextPreserves DEF NamesInv
<1>2. {"draft", "active", "deleted"} \subseteq Statuses \ {"none"}
  BY DEF Statuses
<1>3. ASSUME UNCHANGED keys PROVE NamesAreUnique'
  BY <1>3 DEF NamesInv, NamesAreUnique, Active
<1>4. ASSUME UNCHANGED delta PROVE BranchNamesAreUnique'
  BY <1>4 DEF NamesInv, BranchNamesAreUnique, Touched
<1>5. ASSUME NEW k \in KeyIds, NEW n \in Names, CreateOnMaster(k, n) \/ Import(k, n)
      PROVE  NamesAreUnique' /\ BranchNamesAreUnique'
  BY <1>2, <1>4, <1>5, WriteKeepsNames DEF CreateOnMaster, Import
<1>6. ASSUME NEW k \in KeyIds, DeleteOnMaster(k) PROVE NamesAreUnique' /\ BranchNamesAreUnique'
  <2>1. keys[k].name \in Names
    BY <1>6 DEF DeleteOnMaster, NamesInv, WellFormed, KeysAreNamed
  <2> QED
    BY <1>2, <1>4, <1>6, <2>1, WriteKeepsNames DEF DeleteOnMaster
<1>7. ASSUME NEW b \in Branches, NEW k \in KeyIds, NEW n \in Names, CreateOnBranch(b, k, n)
      PROVE  NamesAreUnique' /\ BranchNamesAreUnique'
  <2>1. WriteKey(k, n, "draft") /\ SetKeyMeta(b, k, n, "active")
    BY <1>7 DEF CreateOnBranch, CreatedStatus
  <2> QED
    BY <1>2, <2>1, WriteKeepsNames, DeltaKeepsBranchNames
<1>8. ASSUME NEW b \in Branches, NEW k \in KeyIds, NEW n \in Names, UpdateOnBranch(b, k, n)
      PROVE  NamesAreUnique' /\ BranchNamesAreUnique'
  BY <1>3, <1>8, OnBranchStatus, DeltaKeepsBranchNames DEF UpdateOnBranch, NamesInv
<1>9. ASSUME NEW b \in Branches, NEW k \in KeyIds, DeleteOnBranch(b, k)
      PROVE  NamesAreUnique' /\ BranchNamesAreUnique'
  <2>1. keys[k].name \in Names
    BY <1>9 DEF DeleteOnBranch, NamesInv, WellFormed, KeysAreNamed
  <2> QED
    BY <1>2, <1>3, <1>9, <2>1, DeltaKeepsBranchNames DEF DeleteOnBranch
<1>10. ASSUME NEW e \in Editors, NEW n \in Names, NEW checked \in BOOLEAN, WriteEdit(e, n, checked)
       PROVE  NamesAreUnique' /\ BranchNamesAreUnique'
  <2> DEFINE d == editor[e]
  <2>1. d.key \in KeyIds /\ d.row.status \in Statuses \ {"none"}
    BY <1>10 DEF WriteEdit, NamesInv, WellFormed, TypeOK, EditsHaveKeys, Edit, Key
  <2>2. UNCHANGED delta
    BY <1>10 DEF WriteEdit
  <2>3. CASE Overtaken(d, checked) \/ Taken(d, n)
    BY <1>3, <1>4, <1>10, <2>3 DEF WriteEdit
  <2>4. CASE ~(Overtaken(d, checked) \/ Taken(d, n))
    <3>1. WriteKey(d.key, n, d.row.status) /\ (d.row.status = "active" => NameFree(d.key, n))
      BY <1>10, <2>4 DEF WriteEdit, Taken
    <3> HIDE DEF d
    <3> QED
      BY <1>4, <2>1, <2>2, <3>1, WriteKeepsNames
  <2> QED
    BY <2>3, <2>4
<1>11. ASSUME NEW b \in Branches, Merge(b) PROVE NamesAreUnique' /\ BranchNamesAreUnique'
  BY <1>4, <1>11, MergeKeepsNames DEF Merge
<1>12. ASSUME \/ \E e \in Editors, k \in KeyIds : BeginEdit(e, k)
              \/ \E b \in Branches, k \in KeyIds, choice \in {"mine", "master"} :
                     ResolveMeta(b, k, choice)
              \/ UNCHANGED vars
       PROVE  NamesAreUnique' /\ BranchNamesAreUnique'
  BY <1>3, <1>4, <1>12 DEF BeginEdit, ResolveMeta, vars, database
<1>13. NamesAreUnique' /\ BranchNamesAreUnique'
  BY <1>5, <1>6, <1>7, <1>8, <1>9, <1>10, <1>11, <1>12 DEF Next
<1> QED
  BY <1>1, <1>13 DEF NamesInv

\* No two active keys ever share a name, whatever was created, renamed, drafted
\* and merged: nothing depends on the unique index refusing a merge.
THEOREM ActiveNamesAreUnique == Spec => []NamesAreUnique
<1>1. Init => NamesInv
  <2>1. Init => NamesAreUnique /\ BranchNamesAreUnique
    <3> SUFFICES ASSUME Init PROVE NamesAreUnique /\ BranchNamesAreUnique
        OBVIOUS
    <3>1. /\ \A k \in KeyIds : ~Active(k)
          /\ \A b \in Branches : Touched(b) = {}
      BY DEF Init, Active, Touched, NoKey
    <3> QED
      BY <3>1 DEF NamesAreUnique, BranchNamesAreUnique
  <2> QED
    BY <2>1, InitWellFormed DEF NamesInv
<1>2. NamesInv => NamesAreUnique
  BY DEF NamesInv
<1> QED
  BY <1>1, <1>2, NextKeepsNames, PTL DEF Spec

(***************************************************************************)
(* Drafts.  An active row, the row an edit is about to write back, and a   *)
(* delta that would make a row active, all come from the key's own branch, *)
(* or from after its merge.                                                *)
(***************************************************************************)
ActiveKeysLanded ==
    \A k \in KeyIds : Active(k) /\ origin[k] # None => origin[k] \in merged

EditedKeysLanded ==
    \A e \in Editors :
        editor[e] # None /\ editor[e].row.status = "active" /\ origin[editor[e].key] # None =>
            origin[editor[e].key] \in merged

OwnDraftsOnly ==
    \A b \in Branches : \A k \in Touched(b) :
        delta[b][k].status = "active" /\ origin[k] # None =>
            origin[k] = b \/ origin[k] \in merged

DraftsLanded == ActiveKeysLanded /\ EditedKeysLanded /\ OwnDraftsOnly
DraftsInv == WellFormed /\ DraftsLanded

\* A row is written that is active only for a key that may be.
LEMMA WriteKeepsDrafts ==
    ASSUME DraftsInv, NEW k \in KeyIds, NEW n \in Names, NEW s \in Statuses \ {"none"},
           WriteKey(k, n, s), UNCHANGED <<delta, merged, origin>>,
           s = "active" /\ origin[k] # None => origin[k] \in merged,
           \A e \in Editors : editor'[e] \in {editor[e], None}
    PROVE  DraftsLanded'
<1>1. /\ keys'[k] = [name |-> n, status |-> s, version |-> keys[k].version + 1]
      /\ \A j \in KeyIds \ {k} : keys'[j] = keys[j]
  BY WriteKeyRow DEF DraftsInv, WellFormed
<1>2. keys'[k].status = s
  BY <1>1
<1>3. ActiveKeysLanded'
  BY <1>1, <1>2 DEF DraftsInv, DraftsLanded, ActiveKeysLanded, Active
<1>4. EditedKeysLanded'
  BY DEF DraftsInv, DraftsLanded, EditedKeysLanded
<1>5. OwnDraftsOnly'
  BY DEF DraftsInv, DraftsLanded, OwnDraftsOnly, Touched
<1> QED
  BY <1>3, <1>4, <1>5 DEF DraftsLanded

\* A delta that says 'active' only for a key of this branch, or a landed one.
LEMMA DeltaKeepsDrafts ==
    ASSUME WellFormed, OwnDraftsOnly, NEW b \in Branches, NEW k \in KeyIds, NEW n \in Names,
           NEW s \in Statuses, SetKeyMeta(b, k, n, s), UNCHANGED merged,
           s = "active" /\ origin'[k] # None => origin'[k] = b \/ origin'[k] \in merged,
           \A a \in Branches : \A j \in Touched(a) : origin'[j] = origin[j]
    PROVE  OwnDraftsOnly'
<1> DEFINE new == [name |-> n, status |-> s, base |-> DeltaBase(b, k)]
<1>1. delta' = [delta EXCEPT ![b][k] = new]
  BY DEF SetKeyMeta
<1>2. new.status = s
  OBVIOUS
<1> HIDE DEF new
<1>3. /\ delta'[b][k] = new
      /\ \A a \in Branches, j \in KeyIds : <<a, j>> # <<b, k>> => delta'[a][j] = delta[a][j]
  BY <1>1 DEF WellFormed, TypeOK
<1> SUFFICES ASSUME NEW a \in Branches, NEW j \in KeyIds, delta'[a][j] # None,
                    delta'[a][j].status = "active", origin'[j] # None
             PROVE  origin'[j] = a \/ origin'[j] \in merged
    BY DEF OwnDraftsOnly, Touched
<1>4. CASE a = b /\ j = k
  BY <1>2, <1>3, <1>4
<1>5. CASE ~(a = b /\ j = k)
  BY <1>3, <1>5 DEF OwnDraftsOnly, Touched
<1> QED
  BY <1>4, <1>5

LEMMA CreateOnBranchKeepsDrafts ==
    ASSUME DraftsInv, NEW b \in Branches, NEW k \in KeyIds, NEW n \in Names,
           CreateOnBranch(b, k, n)
    PROVE  DraftsLanded' /\ \A j \in KeyIds : keys'[j].status = "active" => Active(j)
<1>1. /\ WriteKey(k, n, "draft") /\ SetKeyMeta(b, k, n, "active")
      /\ origin' = [origin EXCEPT ![k] = b] /\ UNCHANGED <<merged, editor>>
      /\ {"draft", "active"} \subseteq Statuses \ {"none"} /\ ~Exists(k)
  BY DEF CreateOnBranch, CreatedStatus, Statuses
<1>2. /\ keys'[k] = [name |-> n, status |-> "draft", version |-> keys[k].version + 1]
      /\ \A j \in KeyIds \ {k} : keys'[j] = keys[j]
  BY <1>1, WriteKeyRow DEF DraftsInv, WellFormed
<1>3. keys'[k].status = "draft"
  BY <1>2
<1>4. origin'[k] = b /\ \A j \in KeyIds \ {k} : origin'[j] = origin[j]
  BY <1>1 DEF DraftsInv, WellFormed, TypeOK
<1>5. ActiveKeysLanded'
  BY <1>1, <1>2, <1>3, <1>4 DEF DraftsInv, DraftsLanded, ActiveKeysLanded, Active
<1>6. EditedKeysLanded'
  <2> SUFFICES ASSUME NEW e \in Editors, editor[e] # None, editor[e].row.status = "active",
                      origin'[editor[e].key] # None
               PROVE  origin'[editor[e].key] \in merged
    BY <1>1 DEF EditedKeysLanded
  <2>1. editor[e].key \in KeyIds
    BY DEF DraftsInv, WellFormed, TypeOK, Edit
  <2>2. editor[e].key # k
    BY <1>1, <2>1 DEF DraftsInv, WellFormed, EditsHaveKeys
  <2> QED
    BY <1>4, <2>1, <2>2 DEF DraftsInv, DraftsLanded, EditedKeysLanded
<1>7. \A a \in Branches : \A j \in Touched(a) : origin'[j] = origin[j]
  BY <1>1, <1>4 DEF DraftsInv, WellFormed, DeltasHaveKeys, Touched
<1>8. OwnDraftsOnly'
  BY <1>1, <1>4, <1>7, DeltaKeepsDrafts DEF DraftsInv, DraftsLanded
<1> QED
  BY <1>2, <1>3, <1>5, <1>6, <1>8 DEF DraftsLanded, Active

LEMMA MergeKeepsDrafts ==
    ASSUME DraftsInv, NEW b \in Branches, Merge(b)
    PROVE  DraftsLanded'
<1>1. /\ keys' = AfterMerge(b) /\ merged' = merged \cup {b}
      /\ UNCHANGED <<delta, editor, origin>>
  BY DEF Merge
<1>2. ActiveKeysLanded'
  <2> SUFFICES ASSUME NEW k \in KeyIds, keys'[k].status = "active", origin[k] # None
               PROVE  origin[k] \in merged'
    BY <1>1 DEF ActiveKeysLanded, Active
  <2>1. CASE k \in Applied(b)
    <3>1. k \in Touched(b) /\ delta[b][k].status = "active"
      BY <1>1, <2>1, MergedRow DEF DraftsInv, Applied
    <3> QED
      BY <1>1, <3>1 DEF DraftsInv, DraftsLanded, OwnDraftsOnly
  <2>2. CASE k \notin Applied(b)
    <3>1. keys'[k] = keys[k]
      BY <1>1, <2>2, UnmergedRow
    <3> QED
      BY <1>1, <3>1 DEF DraftsInv, DraftsLanded, ActiveKeysLanded, Active
  <2> QED
    BY <2>1, <2>2
<1>3. EditedKeysLanded'
  BY <1>1 DEF DraftsInv, DraftsLanded, EditedKeysLanded
<1>4. OwnDraftsOnly'
  BY <1>1 DEF DraftsInv, DraftsLanded, OwnDraftsOnly, Touched
<1> QED
  BY <1>2, <1>3, <1>4 DEF DraftsLanded

LEMMA NextKeepsDrafts == DraftsInv /\ [Next]_vars => DraftsInv'
<1> SUFFICES ASSUME DraftsInv, [Next]_vars PROVE DraftsInv'
    OBVIOUS
<1>1. WellFormed'
  BY NextPreserves DEF DraftsInv
<1>2. {"active", "deleted"} \subseteq Statuses \ {"none"}
  BY DEF Statuses
<1>3. ASSUME NEW k \in KeyIds, NEW n \in Names, CreateOnMaster(k, n) \/ Import(k, n)
      PROVE  DraftsLanded'
  <2>1. /\ WriteKey(k, n, "active") /\ UNCHANGED <<delta, merged, editor, origin>>
        /\ ~Exists(k) \/ Active(k)
    BY <1>3 DEF CreateOnMaster, Import
  <2>2. origin[k] # None => origin[k] \in merged
    BY <2>1 DEF DraftsInv, WellFormed, OriginsHaveKeys, DraftsLanded, ActiveKeysLanded
  <2> QED
    BY <1>2, <2>1, <2>2, WriteKeepsDrafts
<1>4. ASSUME NEW k \in KeyIds, DeleteOnMaster(k) PROVE DraftsLanded'
  <2>1. /\ WriteKey(k, keys[k].name, "deleted") /\ UNCHANGED <<delta, merged, editor, origin>>
        /\ keys[k].name \in Names
    BY <1>4 DEF DeleteOnMaster, DraftsInv, WellFormed, KeysAreNamed
  <2> QED
    BY <1>2, <2>1, WriteKeepsDrafts
<1>5. ASSUME NEW e \in Editors, NEW n \in Names, NEW checked \in BOOLEAN, WriteEdit(e, n, checked)
      PROVE  DraftsLanded'
  <2> DEFINE d == editor[e]
  <2>1. /\ d.key \in KeyIds /\ d.row.status \in Statuses \ {"none"}
        /\ d.row.status = "active" /\ origin[d.key] # None => origin[d.key] \in merged
    BY <1>5 DEF WriteEdit, DraftsInv, WellFormed, TypeOK, EditsHaveKeys, DraftsLanded,
                EditedKeysLanded, Edit, Key
  <2>2. UNCHANGED <<delta, merged, origin>> /\ \A f \in Editors : editor'[f] \in {editor[f], None}
    BY <1>5 DEF WriteEdit, DraftsInv, WellFormed, TypeOK
  <2>3. CASE Overtaken(d, checked) \/ Taken(d, n)
    <3>1. UNCHANGED keys
      BY <1>5, <2>3 DEF WriteEdit
    <3>2. EditedKeysLanded'
      BY <2>2 DEF DraftsInv, DraftsLanded, EditedKeysLanded
    <3> QED
      BY <2>2, <3>1, <3>2
         DEF DraftsInv, DraftsLanded, ActiveKeysLanded, OwnDraftsOnly, Active, Touched
  <2>4. CASE ~(Overtaken(d, checked) \/ Taken(d, n))
    <3>1. WriteKey(d.key, n, d.row.status)
      BY <1>5, <2>4 DEF WriteEdit
    <3> HIDE DEF d
    <3> QED
      BY <2>1, <2>2, <3>1, WriteKeepsDrafts
  <2> QED
    BY <2>3, <2>4
<1>6. ASSUME NEW e \in Editors, NEW k \in KeyIds, BeginEdit(e, k) PROVE DraftsLanded'
  <2>1. /\ editor' = [editor EXCEPT ![e] = [key |-> k, row |-> keys[k]]]
        /\ UNCHANGED <<keys, delta, merged, origin>>
    BY <1>6 DEF BeginEdit
  <2>2. EditedKeysLanded'
    <3> SUFFICES ASSUME NEW f \in Editors, editor'[f] # None, editor'[f].row.status = "active",
                        origin[editor'[f].key] # None
                 PROVE  origin[editor'[f].key] \in merged
      BY <2>1 DEF EditedKeysLanded
    <3>1. CASE f = e
      BY <2>1, <3>1
         DEF DraftsInv, WellFormed, TypeOK, DraftsLanded, ActiveKeysLanded, Active
    <3>2. CASE f # e
      BY <2>1, <3>2 DEF DraftsInv, WellFormed, TypeOK, DraftsLanded, EditedKeysLanded
    <3> QED
      BY <3>1, <3>2
  <2> QED
    BY <2>1, <2>2 DEF DraftsInv, DraftsLanded, ActiveKeysLanded, OwnDraftsOnly, Active, Touched
<1>7. ASSUME NEW b \in Branches, NEW k \in KeyIds, NEW n \in Names, NEW s \in Statuses,
             SetKeyMeta(b, k, n, s), UNCHANGED <<keys, merged, editor, origin>>,
             s = "active" /\ origin[k] # None => origin[k] = b \/ origin[k] \in merged
      PROVE  DraftsLanded'
  <2>1. OwnDraftsOnly'
    BY <1>7, DeltaKeepsDrafts DEF DraftsInv, DraftsLanded
  <2> QED
    BY <1>7, <2>1 DEF DraftsInv, DraftsLanded, ActiveKeysLanded, EditedKeysLanded, Active
<1>8. ASSUME NEW b \in Branches, NEW k \in KeyIds, NEW n \in Names, UpdateOnBranch(b, k, n)
      PROVE  DraftsLanded'
  <2> DEFINE s == OnBranch(b, k).status
  <2>1. s \in Statuses
    BY <1>8, OnBranchStatus DEF UpdateOnBranch, DraftsInv
  <2>2. s = "active" /\ origin[k] # None => origin[k] = b \/ origin[k] \in merged
    BY DEF OnBranch, Active, Touched, DraftsInv, DraftsLanded, ActiveKeysLanded, OwnDraftsOnly
  <2> QED
    BY <1>7, <1>8, <2>1, <2>2 DEF UpdateOnBranch
<1>9. ASSUME NEW b \in Branches, NEW k \in KeyIds, DeleteOnBranch(b, k) PROVE DraftsLanded'
  <2>1. keys[k].name \in Names
    BY <1>9 DEF DeleteOnBranch, DraftsInv, WellFormed, KeysAreNamed
  <2> QED
    BY <1>2, <1>7, <1>9, <2>1 DEF DeleteOnBranch
<1>10. ASSUME \/ \E b \in Branches, k \in KeyIds, choice \in {"mine", "master"} :
                     ResolveMeta(b, k, choice)
              \/ UNCHANGED vars
       PROVE  DraftsLanded'
  <2>1. UNCHANGED <<keys, delta, merged, editor, origin>>
    BY <1>10 DEF ResolveMeta, vars, database
  <2> QED
    BY <2>1 DEF DraftsInv, DraftsLanded, ActiveKeysLanded, EditedKeysLanded, OwnDraftsOnly,
                Active, Touched
<1>11. DraftsLanded'
  BY <1>3, <1>4, <1>5, <1>6, <1>8, <1>9, <1>10, CreateOnBranchKeepsDrafts, MergeKeepsDrafts
     DEF Next
<1> QED
  BY <1>1, <1>11 DEF DraftsInv

\* A key drafted on a branch becomes active on master only by that branch's
\* merge or after it, for any interleaving of edits, imports and other merges.
THEOREM DraftsAreHidden == Spec => DraftsStayHidden
<1> DEFINE Hidden == \A k \in KeyIds :
        keys'[k].status = "active" /\ ~Active(k) /\ origin'[k] # None => origin[k] \in merged'
<1>1. ASSUME DraftsInv, Next PROVE Hidden
  <2> SUFFICES ASSUME NEW k \in KeyIds, keys'[k].status = "active", ~Active(k), origin'[k] # None
               PROVE  origin[k] \in merged'
    OBVIOUS
  <2>1. DraftsLanded'
    BY <1>1, NextKeepsDrafts DEF DraftsInv
  <2>2. origin'[k] \in merged'
    BY <2>1 DEF DraftsLanded, ActiveKeysLanded, Active
  <2>3. UNCHANGED origin
    BY <1>1, CreateOnBranchKeepsDrafts
       DEF Next, CreateOnMaster, Import, UpdateOnBranch, BeginEdit, WriteEdit, DeleteOnMaster,
           DeleteOnBranch, ResolveMeta, Merge
  <2> QED
    BY <2>2, <2>3
<1>2. Init => DraftsInv
  <2>1. Init => DraftsLanded
    <3> SUFFICES ASSUME Init PROVE DraftsLanded
        OBVIOUS
    <3>1. /\ \A k \in KeyIds : origin[k] = None
          /\ \A b \in Branches : Touched(b) = {}
          /\ \A e \in Editors : editor[e] = None
      BY DEF Init, Touched
    <3> QED
      BY <3>1 DEF DraftsLanded, ActiveKeysLanded, EditedKeysLanded, OwnDraftsOnly
  <2> QED
    BY <2>1, InitWellFormed DEF DraftsInv
<1>3. DraftsInv /\ [Next]_vars => [Hidden]_vars
  BY <1>1
<1>4. Spec => [][Hidden]_vars
  BY <1>2, <1>3, NextKeepsDrafts, PTL DEF Spec
<1> QED
  BY <1>4 DEF DraftsStayHidden

(***************************************************************************)
(* History.  A row that speaks of master was logged by the write that made *)
(* it, unless it is the importer's.                                        *)
(***************************************************************************)
HistoryInv == WellFormed /\ KeyHistoryExplains

LEMMA LoggedWriteKeepsHistory ==
    ASSUME HistoryInv, NEW k \in KeyIds, NEW n \in Names, NEW s \in Statuses \ {"none"},
           WriteKey(k, n, s), RecordHistory(k), Remember({k}, FALSE)
    PROVE  KeyHistoryExplains'
<1>1. \A j \in KeyIds \ {k} : keys'[j] = keys[j]
  BY WriteKeyRow DEF HistoryInv, WellFormed
<1>2. logged' = [logged EXCEPT ![k] = keys'[k]] /\ imported' = imported \ {k}
  BY DEF RecordHistory, Remember
<1>3. logged'[k] = keys'[k] /\ \A j \in KeyIds \ {k} : logged'[j] = logged[j]
  BY <1>2 DEF HistoryInv, WellFormed, TypeOK
<1> QED
  BY <1>1, <1>2, <1>3 DEF HistoryInv, KeyHistoryExplains

LEMMA ImportKeepsHistory ==
    ASSUME HistoryInv, NEW k \in KeyIds, NEW n \in Names, Import(k, n)
    PROVE  KeyHistoryExplains'
<1>1. WriteKey(k, n, "active") /\ UNCHANGED logged /\ imported' = imported \cup {k}
  BY DEF Import, Remember
<1>2. \A j \in KeyIds \ {k} : keys'[j] = keys[j]
  BY <1>1, WriteKeyRow DEF HistoryInv, WellFormed, Statuses
<1> QED
  BY <1>1, <1>2 DEF HistoryInv, KeyHistoryExplains

LEMMA CreateOnBranchKeepsHistory ==
    ASSUME HistoryInv, NEW b \in Branches, NEW k \in KeyIds, NEW n \in Names,
           CreateOnBranch(b, k, n)
    PROVE  KeyHistoryExplains'
<1>1. WriteKey(k, n, "draft") /\ UNCHANGED <<logged, imported>> /\ "draft" \in Statuses
  BY DEF CreateOnBranch, CreatedStatus, Statuses
<1>2. /\ keys'[k] = [name |-> n, status |-> "draft", version |-> keys[k].version + 1]
      /\ \A j \in KeyIds \ {k} : keys'[j] = keys[j]
  BY <1>1, WriteKeyRow DEF HistoryInv, WellFormed
<1>3. keys'[k].status = "draft"
  BY <1>2
<1> QED
  BY <1>1, <1>2, <1>3 DEF HistoryInv, KeyHistoryExplains

LEMMA MergeKeepsHistory ==
    ASSUME HistoryInv, NEW b \in Branches, Merge(b)
    PROVE  KeyHistoryExplains'
<1>1. /\ keys' = AfterMerge(b) /\ logged' = MergeLogged(b)
      /\ imported' = imported \ Applied(b)
  BY DEF Merge, Remember
<1> SUFFICES ASSUME NEW k \in KeyIds \ imported', keys'[k].status \in {"active", "deleted"}
             PROVE  logged'[k] = keys'[k]
    BY DEF KeyHistoryExplains
<1>2. CASE k \in Applied(b)
  BY <1>1, <1>2 DEF MergeLogged
<1>3. CASE k \notin Applied(b)
  <2>1. keys'[k] = keys[k] /\ logged'[k] = logged[k] /\ k \notin imported
    BY <1>1, <1>3, UnmergedRow DEF MergeLogged
  <2> QED
    BY <2>1 DEF HistoryInv, KeyHistoryExplains
<1> QED
  BY <1>2, <1>3

LEMMA NextKeepsHistory == HistoryInv /\ [Next]_vars => HistoryInv'
<1> SUFFICES ASSUME HistoryInv, [Next]_vars PROVE HistoryInv'
    OBVIOUS
<1>1. WellFormed'
  BY NextPreserves DEF HistoryInv
<1>2. {"active", "deleted"} \subseteq Statuses \ {"none"}
  BY DEF Statuses
<1>3. ASSUME NEW k \in KeyIds, NEW n \in Names, CreateOnMaster(k, n) PROVE KeyHistoryExplains'
  BY <1>2, <1>3, LoggedWriteKeepsHistory DEF CreateOnMaster
<1>4. ASSUME NEW k \in KeyIds, DeleteOnMaster(k) PROVE KeyHistoryExplains'
  <2>1. keys[k].name \in Names
    BY <1>4 DEF DeleteOnMaster, HistoryInv, WellFormed, KeysAreNamed
  <2> QED
    BY <1>2, <1>4, <2>1, LoggedWriteKeepsHistory DEF DeleteOnMaster
<1>5. ASSUME NEW e \in Editors, NEW n \in Names, NEW checked \in BOOLEAN, WriteEdit(e, n, checked)
      PROVE  KeyHistoryExplains'
  <2> DEFINE d == editor[e]
  <2>1. d.key \in KeyIds /\ d.row.status \in Statuses \ {"none"}
    BY <1>5 DEF WriteEdit, HistoryInv, WellFormed, TypeOK, EditsHaveKeys, Edit, Key
  <2>2. CASE Overtaken(d, checked) \/ Taken(d, n)
    BY <1>5, <2>2 DEF WriteEdit, HistoryInv, KeyHistoryExplains
  <2>3. CASE ~(Overtaken(d, checked) \/ Taken(d, n))
    <3>1. WriteKey(d.key, n, d.row.status) /\ RecordHistory(d.key) /\ Remember({d.key}, FALSE)
      BY <1>5, <2>3 DEF WriteEdit
    <3> HIDE DEF d
    <3> QED
      BY <2>1, <3>1, LoggedWriteKeepsHistory
  <2> QED
    BY <2>2, <2>3
<1>6. ASSUME UNCHANGED <<keys, logged, imported>> PROVE KeyHistoryExplains'
  BY <1>6 DEF HistoryInv, KeyHistoryExplains
<1>7. KeyHistoryExplains'
  BY <1>3, <1>4, <1>5, <1>6, ImportKeepsHistory, CreateOnBranchKeepsHistory, MergeKeepsHistory
     DEF Next, vars, database, UpdateOnBranch, DeleteOnBranch, BeginEdit, ResolveMeta
<1> QED
  BY <1>1, <1>7 DEF HistoryInv

\* Replaying the history gives the table, for every row the importer did not
\* write and that speaks of master.
THEOREM KeyHistoryIsComplete == Spec => []KeyHistoryExplains
<1>1. Init => HistoryInv
  <2>1. Init => KeyHistoryExplains
    BY DEF Init, KeyHistoryExplains, NoKey
  <2> QED
    BY <2>1, InitWellFormed DEF HistoryInv
<1>2. HistoryInv => KeyHistoryExplains
  BY DEF HistoryInv
<1> QED
  BY <1>1, <1>2, NextKeepsHistory, PTL DEF Spec

(***************************************************************************)
(* Stale edits.  Every write of a row raises its version, so a row whose   *)
(* version is the one an edit read is the row it read.                     *)
(***************************************************************************)
RowsAdvance ==
    \A k \in KeyIds : keys'[k] = keys[k] \/ keys'[k].version = keys[k].version + 1

SeenRowsMatch ==
    \A e \in Editors : editor[e] # None =>
        /\ editor[e].row.version \leq keys[editor[e].key].version
        /\ editor[e].row.version = keys[editor[e].key].version =>
               editor[e].row = keys[editor[e].key]

EditsInv == WellFormed /\ SeenRowsMatch

LEMMA WriteAdvances ==
    ASSUME WellFormed, NEW k \in KeyIds, NEW n \in Names, NEW s \in Statuses \ {"none"},
           WriteKey(k, n, s)
    PROVE  RowsAdvance
<1>1. /\ keys'[k].version = keys[k].version + 1
      /\ \A j \in KeyIds \ {k} : keys'[j] = keys[j]
  BY WriteKeyRow DEF WellFormed
<1> QED
  BY <1>1 DEF RowsAdvance

LEMMA NextAdvances == WellFormed /\ Next => RowsAdvance
<1> SUFFICES ASSUME WellFormed, Next PROVE RowsAdvance
    OBVIOUS
<1>1. {"draft", "active", "deleted"} \subseteq Statuses \ {"none"}
  BY DEF Statuses
<1>2. ASSUME NEW k \in KeyIds, NEW n \in Names,
             \/ CreateOnMaster(k, n) \/ Import(k, n)
             \/ \E b \in Branches : CreateOnBranch(b, k, n)
      PROVE  RowsAdvance
  BY <1>1, <1>2, WriteAdvances DEF CreateOnMaster, Import, CreateOnBranch, CreatedStatus
<1>3. ASSUME NEW k \in KeyIds, DeleteOnMaster(k) PROVE RowsAdvance
  <2>1. keys[k].name \in Names
    BY <1>3 DEF DeleteOnMaster, WellFormed, KeysAreNamed
  <2> QED
    BY <1>1, <1>3, <2>1, WriteAdvances DEF DeleteOnMaster
<1>4. ASSUME NEW e \in Editors, NEW n \in Names, NEW checked \in BOOLEAN, WriteEdit(e, n, checked)
      PROVE  RowsAdvance
  <2> DEFINE d == editor[e]
  <2>1. d.key \in KeyIds /\ d.row.status \in Statuses \ {"none"}
    BY <1>4 DEF WriteEdit, WellFormed, TypeOK, EditsHaveKeys, Edit, Key
  <2>2. UNCHANGED keys \/ WriteKey(d.key, n, d.row.status)
    BY <1>4 DEF WriteEdit
  <2> HIDE DEF d
  <2> QED
    BY <2>1, <2>2, WriteAdvances DEF RowsAdvance
<1>5. ASSUME NEW b \in Branches, Merge(b) PROVE RowsAdvance
  BY <1>5, MergedRow, UnmergedRow DEF Merge, RowsAdvance
<1>6. ASSUME UNCHANGED keys PROVE RowsAdvance
  BY <1>6 DEF RowsAdvance
<1> QED
  BY <1>2, <1>3, <1>4, <1>5, <1>6 DEF Next, UpdateOnBranch, DeleteOnBranch, BeginEdit, ResolveMeta

LEMMA NextKeepsSeenRows == EditsInv /\ [Next]_vars => EditsInv'
<1> SUFFICES ASSUME EditsInv, [Next]_vars PROVE EditsInv'
    OBVIOUS
<1>1. WellFormed'
  BY NextPreserves DEF EditsInv
<1>2. RowsAdvance
  BY NextAdvances DEF EditsInv, RowsAdvance, vars, database
<1>3. ASSUME NEW e \in Editors, editor'[e] = editor[e], editor[e] # None
      PROVE  /\ editor[e].row.version \leq keys'[editor[e].key].version
             /\ editor[e].row.version = keys'[editor[e].key].version =>
                    editor[e].row = keys'[editor[e].key]
  <2> DEFINE k == editor[e].key
  <2>1. k \in KeyIds /\ editor[e].row.version \in Nat
    BY <1>3 DEF EditsInv, WellFormed, TypeOK, Edit, Key
  <2>2. keys[k].version \in Nat
    BY <2>1 DEF EditsInv, WellFormed, TypeOK, Key
  <2>3. /\ editor[e].row.version \leq keys[k].version
        /\ editor[e].row.version = keys[k].version => editor[e].row = keys[k]
    BY <1>3 DEF EditsInv, SeenRowsMatch
  <2>4. keys'[k] = keys[k] \/ keys'[k].version = keys[k].version + 1
    BY <1>2, <2>1 DEF RowsAdvance
  <2> HIDE DEF k
  <2>5. editor[e].row.version \leq keys'[k].version
    BY <2>1, <2>2, <2>3, <2>4
  <2>6. editor[e].row.version = keys'[k].version => editor[e].row = keys'[k]
    BY <2>1, <2>2, <2>3, <2>4
  <2> QED
    BY <2>5, <2>6 DEF k
<1>4. ASSUME NEW f \in Editors, NEW k \in KeyIds, BeginEdit(f, k) PROVE SeenRowsMatch'
  <2>1. /\ editor' = [editor EXCEPT ![f] = [key |-> k, row |-> keys[k]]] /\ UNCHANGED keys
    BY <1>4 DEF BeginEdit
  <2>2. keys[k].version \in Nat
    BY DEF EditsInv, WellFormed, TypeOK, Key
  <2> SUFFICES ASSUME NEW e \in Editors, editor'[e] # None
               PROVE  /\ editor'[e].row.version \leq keys[editor'[e].key].version
                      /\ editor'[e].row.version = keys[editor'[e].key].version =>
                             editor'[e].row = keys[editor'[e].key]
    BY <2>1 DEF SeenRowsMatch
  <2>3. CASE e = f
    <3>1. editor'[e] = [key |-> k, row |-> keys[k]]
      BY <2>1, <2>3 DEF EditsInv, WellFormed, TypeOK
    <3>2. editor'[e].key = k /\ editor'[e].row = keys[k]
      BY <3>1
    <3> QED
      BY <2>2, <3>2
  <2>4. CASE e # f
    <3>1. editor'[e] = editor[e]
      BY <2>1, <2>4 DEF EditsInv, WellFormed, TypeOK
    <3> QED
      BY <3>1 DEF EditsInv, SeenRowsMatch
  <2> QED
    BY <2>3, <2>4
<1>5. ASSUME \A e \in Editors : editor'[e] \in {editor[e], None} PROVE SeenRowsMatch'
  <2> SUFFICES ASSUME NEW e \in Editors, editor'[e] # None
               PROVE  /\ editor'[e].row.version \leq keys'[editor'[e].key].version
                      /\ editor'[e].row.version = keys'[editor'[e].key].version =>
                             editor'[e].row = keys'[editor'[e].key]
    BY DEF SeenRowsMatch
  <2>1. editor'[e] = editor[e] /\ editor[e] # None
    BY <1>5
  <2> QED
    BY <1>3, <2>1
<1>6. ASSUME NEW f \in Editors, NEW n \in Names, NEW checked \in BOOLEAN, WriteEdit(f, n, checked)
      PROVE  \A e \in Editors : editor'[e] \in {editor[e], None}
  BY <1>6 DEF WriteEdit, EditsInv, WellFormed, TypeOK
<1>7. SeenRowsMatch'
  BY <1>4, <1>5, <1>6
     DEF Next, vars, database, CreateOnMaster, Import, CreateOnBranch, UpdateOnBranch,
         DeleteOnMaster, DeleteOnBranch, ResolveMeta, Merge
<1> QED
  BY <1>1, <1>7 DEF EditsInv

\* An edit that names the version it saw replaces that very row, whatever was
\* committed between its read and its write.
THEOREM KeyUpdatesAreNotLost == Spec => NoLostKeyUpdate
<1> DEFINE Kept == \A e \in Editors, n \in Names :
        WriteEdit(e, n, TRUE) /\ keys' # keys => keys[editor[e].key] = editor[e].row
<1>1. ASSUME EditsInv, NEW e \in Editors, NEW n \in Names, WriteEdit(e, n, TRUE), keys' # keys
      PROVE  keys[editor[e].key] = editor[e].row
  <2>1. ~Overtaken(editor[e], TRUE) /\ editor[e] # None
    BY <1>1 DEF WriteEdit
  <2> QED
    BY <1>1, <2>1 DEF Overtaken, EditsInv, SeenRowsMatch
<1>2. EditsInv => Kept
  BY <1>1
<1>3. Init => EditsInv
  BY InitWellFormed DEF Init, EditsInv, SeenRowsMatch
<1>4. Spec => []EditsInv
  BY <1>3, NextKeepsSeenRows, PTL DEF Spec
<1>5. Spec => [][Kept]_vars
  BY <1>2, <1>4, PTL DEF Spec
<1> QED
  BY <1>5 DEF NoLostKeyUpdate

=============================================================================
