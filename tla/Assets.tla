-------------------------------- MODULE Assets --------------------------------
(***************************************************************************)
(* Context screenshots: uploading them, and attaching them to keys.        *)
(*                                                                         *)
(* An object is stored under the hash of its bytes, but the store does not *)
(* know that: whoever holds a signed policy for a hash may upload anything *)
(* there, once or more, also while the upload is being confirmed.  The     *)
(* files stand for their own hashes; the size is all else that counts.     *)
(***************************************************************************)
EXTENDS Naturals, FiniteSets, FiniteSetsExt

CONSTANTS
    Files,      \* what may be uploaded, by hash
    Size(_),    \* the size of each file
    MaxBytes,   \* MaxBytes, assets_size_check
    KeyIds,
    Requests,   \* requests under way at a time
    MaxId,      \* bound of the ids of assets
    MaxOrder,   \* the largest value of key_assets.sort_order, a SMALLINT
    None

ASSUME AssetsAssumption ==
    /\ \A f \in Files : Size(f) \in Nat \ {0}
    /\ {MaxBytes, MaxId, MaxOrder} \subseteq Nat

\* None is neither a row nor an order.
ASSUME NoneAssumption ==
    /\ None \notin [id : Nat, bytes : Nat]
    /\ None \notin Nat

VARIABLES
    policies,   \* upload policies that were signed: a hash and a declared size
    objects,    \* the bucket: what is stored under each hash, or None
    assets,     \* the row of each hash, or None
    lastId,     \* the sequence of assets.id
    active,     \* keys that are not deleted
    links,      \* key_assets: sort_order of each key and asset, or None
    request     \* requests under way

VARIABLES       \* history
    answers,    \* the ids that Confirm has returned for each hash
    later       \* <<p, q>>: p was inserted when q was already attached

vars == <<policies, objects, assets, lastId, active, links, request, answers, later>>

Sizes == {Size(f) : f \in Files}
Links == KeyIds \X Files
Attached == {p \in Links : links[p] # None}

Policies == [hash : Files, declared : Sizes]
Objects == [file : Files, declared : Sizes \cup {None}]
Storable == {n \in Sizes : n <= MaxBytes}
Rows == [id : 1 .. MaxId, bytes : Storable]

\* swapped: the object was replaced since its attributes were read.
Work ==
    [stage : {"absent"}, hash : Files] \cup
    [stage : {"stat", "verified"}, hash : Files, bytes : Storable, swapped : BOOLEAN] \cup
    [stage : {"inserted"}, hash : Files, bytes : Storable, swapped : BOOLEAN, id : 1 .. MaxId] \cup
    [stage : {"allowed"}, link : Links] \cup
    [stage : {"linked"}, link : Links, order : 0 .. MaxOrder, after : SUBSET Links]

Doing(r, stage) == request[r] # None /\ request[r].stage = stage

TypeOK ==
    /\ policies \subseteq Policies
    /\ objects \in [Files -> Objects \cup {None}]
    /\ assets \in [Files -> Rows \cup {None}]
    /\ lastId \in 0 .. MaxId
    /\ active \subseteq KeyIds
    /\ links \in [Links -> 0 .. MaxOrder \cup {None}]
    /\ request \in [Requests -> Work \cup {None}]
    /\ \A r \in Requests : Doing(r, "linked") => request[r].after \subseteq Attached
    /\ answers \in [Files -> SUBSET (1 .. MaxId)]
    /\ later \subseteq Attached \X Attached

\* The bucket may hold objects that no policy of this service declares.
Init ==
    /\ policies = {}
    /\ objects \in [Files -> {None} \cup {[file |-> f, declared |-> None] : f \in Files}]
    /\ assets = [f \in Files |-> None]
    /\ lastId = 0
    /\ active = KeyIds
    /\ links = [p \in Links |-> None]
    /\ request = [r \in Requests |-> None]
    /\ answers = [f \in Files |-> {}]
    /\ later = {}
-----------------------------------------------------------------------------
Moves(r, w) == request' = [request EXCEPT ![r] = w]
Ends(r) == Moves(r, None)
Answer(f, id) == answers' = [answers EXCEPT ![f] = @ \cup {id}]

\* An error, a deadlock or a lost connection, at any point.
Fail(r) ==
    /\ request[r] # None
    /\ Ends(r)
    /\ UNCHANGED <<policies, objects, assets, lastId, active, links, answers, later>>
-----------------------------------------------------------------------------
(* Presign, and the upload to the store.                                   *)

Presign(f, declared) ==
    /\ declared <= MaxBytes
    /\ assets[f] = None
    /\ policies' = policies \cup {[hash |-> f, declared |-> declared]}
    /\ UNCHANGED <<objects, assets, lastId, active, links, request, answers, later>>

\* The policy fixes the hash and what is declared, not what is uploaded.
Upload(p, file) ==
    /\ objects' = [objects EXCEPT ![p.hash] = [file |-> file, declared |-> p.declared]]
    /\ request' = [r \in Requests |->
           IF request[r] # None /\ request[r].stage \in {"stat", "verified", "inserted"}
              /\ request[r].hash = p.hash
           THEN [request[r] EXCEPT !.swapped = TRUE] ELSE request[r]]
    /\ UNCHANGED <<policies, assets, lastId, active, links, answers, later>>
-----------------------------------------------------------------------------
(* Confirm.                                                                *)

\* The row is there already, or the object is looked at.
Confirm(r, f) ==
    /\ request[r] = None
    /\ IF assets[f] # None
       THEN Answer(f, assets[f].id) /\ UNCHANGED request
       ELSE Moves(r, [stage |-> "absent", hash |-> f]) /\ UNCHANGED answers
    /\ UNCHANGED <<policies, objects, assets, lastId, active, links, later>>

\* The attributes agree with the declaration they carry.
Declares(o) == o # None /\ o.declared # None
Sound(o) == Declares(o) /\ Size(o.file) = o.declared /\ Size(o.file) <= MaxBytes

Stat(r) ==
    /\ Doing(r, "absent")
    /\ LET o == objects[request[r].hash]
       IN IF Sound(o)
          THEN Moves(r, [stage |-> "stat", hash |-> request[r].hash,
                         bytes |-> Size(o.file), swapped |-> FALSE])
          ELSE Ends(r)
    /\ UNCHANGED <<policies, objects, assets, lastId, active, links, answers, later>>

\* The bytes hash to the name they are stored under.
Unread(o, f) == TRUE
Genuine(o, f) == o.file = f

Read(r) ==
    /\ Doing(r, "stat")
    /\ LET f == request[r].hash
       IN IF Genuine(objects[f], f)
          THEN Moves(r, [request[r] EXCEPT !.stage = "verified"])
          ELSE Ends(r)
    /\ UNCHANGED <<policies, objects, assets, lastId, active, links, answers, later>>

\* ON CONFLICT DO NOTHING waits for a row that is being inserted.  A value of
\* the sequence is used up whether or not there is a conflict; when there is, the
\* row is read back.
OwnRow(f) == lastId + 1
ReadBack(f) == assets[f].id

Insert(r) ==
    /\ Doing(r, "verified")
    /\ lastId < MaxId
    /\ lastId' = lastId + 1
    /\ LET f == request[r].hash
       IN /\ \A o \in Requests : Doing(o, "inserted") => request[o].hash # f
          /\ IF assets[f] # None
             THEN Answer(f, ReadBack(f)) /\ Ends(r)
             ELSE /\ Moves(r, [stage |-> "inserted", hash |-> f, id |-> lastId',
                               bytes |-> request[r].bytes, swapped |-> request[r].swapped])
                  /\ UNCHANGED answers
    /\ UNCHANGED <<policies, objects, assets, active, links, later>>

CommitAsset(r) ==
    /\ Doing(r, "inserted")
    /\ LET w == request[r]
       IN /\ assets' = [assets EXCEPT ![w.hash] = [id |-> w.id, bytes |-> w.bytes]]
          /\ Answer(w.hash, w.id)
    /\ Ends(r)
    /\ UNCHANGED <<policies, objects, lastId, active, links, later>>
-----------------------------------------------------------------------------
(* Attach and Detach.                                                      *)

\* KeyExists, ByID.
Attach(r, p) ==
    /\ request[r] = None
    /\ p[1] \in active /\ assets[p[2]] # None
    /\ Moves(r, [stage |-> "allowed", link |-> p])
    /\ UNCHANGED <<policies, objects, assets, lastId, active, links, answers, later>>

OfKey(k) == {p \in Attached : p[1] = k}
HeldByAnother(r, p) ==
    \E o \in Requests \ {r} : Doing(o, "linked") /\ request[o].link = p

ByCount(k) == Cardinality(OfKey(k))
NextOrder(k) == IF OfKey(k) = {} THEN 0 ELSE Max({links[p] : p \in OfKey(k)}) + 1

\* attachSQL: what is attached already keeps its place, but a next one is worked
\* out, and must fit, before the conflict is found.
Link(r) ==
    /\ Doing(r, "allowed")
    /\ LET p == request[r].link
           order == IF links[p] # None THEN links[p] ELSE NextOrder(p[1])
       IN /\ ~HeldByAnother(r, p)
          /\ NextOrder(p[1]) <= MaxOrder
          /\ Moves(r, [stage |-> "linked", link |-> p, order |-> order,
                       after |-> IF links[p] # None THEN {} ELSE OfKey(p[1])])
    /\ UNCHANGED <<policies, objects, assets, lastId, active, links, answers, later>>

CommitLink(r) ==
    /\ Doing(r, "linked")
    /\ LET w == request[r]
       IN /\ links' = [links EXCEPT ![w.link] = w.order]
          /\ later' = later \cup {<<w.link, q>> : q \in w.after}
    /\ Ends(r)
    /\ UNCHANGED <<policies, objects, assets, lastId, active, answers>>

Detach(p) ==
    /\ links[p] # None
    /\ \A o \in Requests : Doing(o, "linked") => request[o].link # p
    /\ links' = [links EXCEPT ![p] = None]
    /\ later' = {q \in later : p \notin {q[1], q[2]}}
    /\ request' = [r \in Requests |->
           IF Doing(r, "linked") THEN [request[r] EXCEPT !.after = @ \ {p}] ELSE request[r]]
    /\ UNCHANGED <<policies, objects, assets, lastId, active, answers>>

\* keysvc deletes softly and leaves key_assets alone.
DeleteKey(k) ==
    /\ k \in active
    /\ active' = active \ {k}
    /\ UNCHANGED <<policies, objects, assets, lastId, links, request, answers, later>>
-----------------------------------------------------------------------------
Next ==
    \/ \E f \in Files, declared \in Sizes : Presign(f, declared)
    \/ \E p \in policies, file \in Files : Upload(p, file)
    \/ \E p \in Links : Detach(p)
    \/ \E k \in KeyIds : DeleteKey(k)
    \/ \E r \in Requests :
           \/ \E f \in Files : Confirm(r, f)
           \/ Stat(r)
           \/ Read(r)
           \/ Insert(r)
           \/ CommitAsset(r)
           \/ \E p \in Links : Attach(r, p)
           \/ Link(r)
           \/ CommitLink(r)
           \/ Fail(r)

Spec == Init /\ [][Next]_vars
-----------------------------------------------------------------------------
(* Properties.                                                             *)

\* Confirming is idempotent: however many confirm the same bytes at once, all
\* who get an answer get the same asset.
OneAnswer == \A f \in Files : Cardinality(answers[f]) <= 1

\* A row is only made of bytes that hash to its name, and says how many they
\* are, unless the object was replaced while it was being confirmed.
RowsAreGenuine ==
    [][\A r \in Requests : CommitAsset(r) /\ ~request[r].swapped =>
          objects[request[r].hash].file = request[r].hash
          /\ assets'[request[r].hash].bytes = Size(request[r].hash)]_vars

\* "A key's screenshots are shown in the order they were attached", whatever was
\* detached in between; only who attached at the same time may share a place.
ShownInOrder == \A q \in later : links[q[1]] > links[q[2]]
=============================================================================
