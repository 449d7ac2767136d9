-------------------------------- MODULE Tags --------------------------------
(***************************************************************************)
(* Workflow tags: which keys carry which tags, and the audit trail of it.  *)
(*                                                                         *)
(* key_tags has no history, so the audit rows written beside each change   *)
(* are the only trace of it.  Every operation reads, writes with a single  *)
(* statement and commits; each is a step of its own here, because other    *)
(* transactions commit in between.  A statement that would wait for        *)
(* another's row starts when the row is free, but it removes what its      *)
(* snapshot, taken earlier, has shown it.                                  *)
(***************************************************************************)
EXTENDS FiniteSets

CONSTANTS
    KeyIds,
    TagIds,     \* SMALLSERIAL: an id is given once
    Names,
    Sessions,   \* connections that may be changing tags
    None,       \* no tag yet; a session without a transaction
    Gone        \* a tag that was deleted

ASSUME TagsAssumption == {None, Gone} \cap Names = {}

VARIABLES
    tags,       \* the tags table: the name of each tag
    links,      \* key_tags
    session     \* transactions under way

database == <<tags, links, session>>

(***************************************************************************)
(* History variables.                                                      *)
(***************************************************************************)
VARIABLES
    replayed,   \* what the committed audit rows say key_tags holds
    stale,      \* stale[s]: what s speaks about and others changed since it read
    contested   \* links whose last change overlapped another one of them

vars == <<database, replayed, stale, contested>>

Pairs == KeyIds \X TagIds

\* What a request asks for.  A set names one key and the tags it should end up
\* with, a delete one tag and thereby every key.
Sets == [op : {"set"}, keys : {{k} : k \in KeyIds}, tags : SUBSET TagIds]
Bulks == [op : {"assign", "unassign"}, keys : SUBSET KeyIds \ {{}}, tags : {{t} : t \in TagIds}]
Deletes == [op : {"delete"}, keys : {KeyIds}, tags : {{t} : t \in TagIds}]
Requests == Sets \cup Bulks \cup Deletes

Named(r) == r.keys \X r.tags
Scope(r) == IF r.op = "set" THEN r.keys \X TagIds ELSE Named(r)

Transaction ==
    [ask : Requests, seen : SUBSET Pairs, wrote : BOOLEAN,
     gone : SUBSET Pairs, new : SUBSET Pairs]

TypeOK ==
    /\ tags \in [TagIds -> Names \cup {None, Gone}]
    /\ links \subseteq Pairs
    /\ session \in [Sessions -> Transaction \cup {None}]
    /\ \A s \in Sessions : session[s] # None =>
           session[s].seen \cup stale[s] \cup session[s].gone \cup session[s].new
               \subseteq Scope(session[s].ask)
    /\ replayed \subseteq Pairs
    /\ stale \in [Sessions -> SUBSET Pairs]
    /\ contested \subseteq Pairs

Init ==
    /\ tags = [t \in TagIds |-> None]
    /\ links = {}
    /\ session = [s \in Sessions |-> None]
    /\ replayed = {}
    /\ stale = [s \in Sessions |-> {}]
    /\ contested = {}
-----------------------------------------------------------------------------
Alive(t) == tags[t] \notin {None, Gone}

\* tags_project_name_unique.
NameFree(n) == \A t \in TagIds : tags[t] # n

TagsOf(P) == {p[2] : p \in P}

Busy(s) == session[s] # None /\ session[s].wrote
Touched(s) == session[s].gone \cup session[s].new

\* Tags whose row a session has locked: it is deleting them, or it inserted a
\* link to them, which keeps others from deleting or renaming them.
DoomedTags(s) == IF session[s].ask.op = "delete" THEN session[s].ask.tags ELSE {}
LockedTags(s) == DoomedTags(s) \cup TagsOf(session[s].new)
-----------------------------------------------------------------------------
(* The tags themselves.                                                    *)

CreateTag(t, n) ==
    /\ tags[t] = None
    /\ NameFree(n)
    /\ tags' = [tags EXCEPT ![t] = n]
    /\ UNCHANGED <<links, session, replayed, stale, contested>>

\* A new name changes an indexed column, so the update waits for all who hold
\* the row, also those who only point to it.
RenameTag(t, n) ==
    /\ Alive(t)
    /\ NameFree(n)
    /\ \A o \in Sessions : Busy(o) => t \notin LockedTags(o)
    /\ tags' = [tags EXCEPT ![t] = n]
    /\ UNCHANGED <<links, session, replayed, stale, contested>>
-----------------------------------------------------------------------------
(* Changes of key_tags: SetKeyTags, AddToKeys, RemoveFromKeys, Delete.     *)

\* What the transaction reads before it writes: for a delete KeyIDsWithTag,
\* which goes into the audit row, otherwise the snapshot of the one statement.
EveryLink(r) == links
SeenTooLate(r) == IF r.op \in {"assign", "delete"} THEN {} ELSE links \cap Scope(r)
Seen(r) == IF r.op = "assign" THEN {} ELSE links \cap Scope(r)

Begin(s, r) ==
    /\ session[s] = None
    /\ \A t \in r.tags : Alive(t)
    /\ session' = [session EXCEPT ![s] =
           [ask |-> r, seen |-> Seen(r), wrote |-> FALSE, gone |-> {}, new |-> {}]]
    /\ stale' = [stale EXCEPT ![s] = {}]
    /\ UNCHANGED <<tags, links, replayed, contested>>

\* setKeyTagsSQL, addToKeysSQL: ON CONFLICT DO NOTHING.
Wanted(s) == IF session[s].ask.op \in {"set", "assign"} THEN Named(session[s].ask) ELSE {}
Inserted(s) == Wanted(s) \ links

\* The cascade of a delete is a statement of its own and sees everything; the
\* others remove what they saw, as far as it is still there.
AddsOnly(s) == IF session[s].ask.op = "delete" THEN links \cap Scope(session[s].ask) ELSE {}
Unwanted(s) ==
    LET d == session[s]
    IN links \cap (CASE d.ask.op = "set" -> d.seen \ Named(d.ask)
                     [] d.ask.op = "assign" -> {}
                     [] d.ask.op = "unassign" -> d.seen
                     [] d.ask.op = "delete" -> Scope(d.ask))

\* Row locks.  A row another session has inserted is in nobody's snapshot: only
\* who inserts it too waits for it.
Free(s) ==
    \A o \in Sessions \ {s} : Busy(o) =>
        /\ Touched(o) \cap (Wanted(s) \cup Unwanted(s)) = {}
        /\ DoomedTags(o) \cap TagsOf(Inserted(s)) = {}
        /\ LockedTags(o) \cap DoomedTags(s) = {}

\* A link to a tag that is no longer there violates the foreign key, and a
\* delete that finds no row is an error; either rolls back.
NoForeignKey(s) == \E t \in DoomedTags(s) : ~Alive(t)
Pointless(s) == \E t \in DoomedTags(s) \cup TagsOf(Inserted(s)) : ~Alive(t)

Write(s) ==
    /\ session[s] # None /\ ~session[s].wrote
    /\ Free(s)
    /\ session' = [session EXCEPT ![s] =
           IF Pointless(s) THEN None
           ELSE [@ EXCEPT !.wrote = TRUE, !.gone = Unwanted(s), !.new = Inserted(s)]]
    /\ UNCHANGED <<tags, links, replayed, stale, contested>>

\* What the audit row of a request makes of L.
Replay(r, L) ==
    CASE r.op = "set" -> (L \ Scope(r)) \cup Named(r)
      [] r.op = "assign" -> L \cup Named(r)
      [] r.op \in {"unassign", "delete"} -> L \ Scope(r)

Remember(s) ==
    LET P == Scope(session[s].ask)
    IN /\ replayed' = Replay(session[s].ask, replayed)
       /\ contested' = (contested \ P) \cup stale[s]
       /\ stale' = [o \in Sessions |->
              IF o = s \/ session[o] = None THEN {}
              ELSE stale[o] \cup (P \cap Scope(session[o].ask))]

Commit(s) ==
    /\ Busy(s)
    /\ links' = (links \ session[s].gone) \cup session[s].new
    /\ tags' = [t \in TagIds |->
           IF t \in DoomedTags(s) THEN Gone ELSE tags[t]]
    /\ session' = [session EXCEPT ![s] = None]
    /\ Remember(s)

\* An error, a deadlock or a lost connection: the audit row goes with the rest.
RollBack(s) ==
    /\ session[s] # None
    /\ session' = [session EXCEPT ![s] = None]
    /\ stale' = [stale EXCEPT ![s] = {}]
    /\ UNCHANGED <<tags, links, replayed, contested>>
-----------------------------------------------------------------------------
Next ==
    \/ \E t \in TagIds, n \in Names : CreateTag(t, n) \/ RenameTag(t, n)
    \/ \E s \in Sessions :
           \/ \E r \in Requests : Begin(s, r)
           \/ Write(s)
           \/ Commit(s)
           \/ RollBack(s)

Spec == Init /\ [][Next]_vars
-----------------------------------------------------------------------------
(* Properties.                                                             *)

\* The audit trail is "the only trace these operations leave": replaying it
\* gives key_tags, for every link whose last change overlapped no other.
AuditExplainsLinks ==
    \A p \in Pairs \ contested : p \in links <=> p \in replayed

\* However additions race a delete, no link outlives its tag.
LinksHaveTags == \A p \in links : Alive(p[2])

\* Delete records the key ids "so somebody can reconstruct the assignment by
\* hand": what its cascade destroys beyond them, and what it records beyond that,
\* was changed after they were read.
DeletesAreRecorded ==
    [][\A s \in Sessions :
          Commit(s) /\ session[s].ask.op = "delete" =>
              /\ session[s].gone \ session[s].seen \subseteq stale[s]
              /\ session[s].seen \ session[s].gone \subseteq stale[s]]_vars
=============================================================================
