------------------------------ MODULE TagsProofs ------------------------------
(***************************************************************************)
(* Theorems about Tags, for any keys, tags and sessions.                   *)
(***************************************************************************)
EXTENDS Tags, TLAPS

\* What requests are about.
LEMMA ScopeOfRequest ==
    ASSUME NEW r \in Requests
    PROVE  /\ r.op \in {"set", "assign", "unassign", "delete"}
           /\ r.keys \subseteq KeyIds /\ r.tags \subseteq TagIds
           /\ Named(r) \subseteq Scope(r) /\ Scope(r) \subseteq Pairs
           /\ r.op # "set" => Scope(r) = Named(r)
<1>1. /\ r.op \in {"set", "assign", "unassign", "delete"}
      /\ r.keys \subseteq KeyIds /\ r.tags \subseteq TagIds
  BY DEF Requests, Sets, Bulks, Deletes
<1> QED
  BY <1>1 DEF Named, Scope, Pairs

\* A session with a transaction.
LEMMA SessionFields ==
    ASSUME TypeOK, NEW s \in Sessions, session[s] # None
    PROVE  /\ session[s] \in Transaction /\ session[s].ask \in Requests
           /\ session[s].wrote \in BOOLEAN
           /\ session[s].seen \subseteq Scope(session[s].ask)
           /\ session[s].gone \subseteq Scope(session[s].ask)
           /\ session[s].new \subseteq Scope(session[s].ask)
           /\ stale[s] \subseteq Scope(session[s].ask)
BY DEF TypeOK, Transaction

LEMMA WrittenLinks ==
    ASSUME TypeOK, NEW s \in Sessions, session[s] # None
    PROVE  /\ Wanted(s) \subseteq Named(session[s].ask)
           /\ Inserted(s) \subseteq Scope(session[s].ask)
           /\ Unwanted(s) \subseteq links \cap Scope(session[s].ask)
<1> DEFINE d == session[s]
<1>1. /\ d.ask \in Requests /\ d.seen \subseteq Scope(d.ask)
      /\ d.ask.op \in {"set", "assign", "unassign", "delete"}
      /\ Named(d.ask) \subseteq Scope(d.ask)
  BY SessionFields, ScopeOfRequest
<1>2. Wanted(s) \subseteq Named(d.ask) /\ Inserted(s) \subseteq Scope(d.ask)
  BY <1>1 DEF Wanted, Inserted
<1>3. Unwanted(s) \subseteq links \cap Scope(d.ask)
  BY <1>1 DEF Unwanted
<1> QED
  BY <1>2, <1>3
-----------------------------------------------------------------------------
(* Types.                                                                  *)

LEMMA TypeInit == Init => TypeOK
BY DEF Init, TypeOK

LEMMA TypeBegin ==
    ASSUME TypeOK, NEW s \in Sessions, NEW r \in Requests, Begin(s, r)
    PROVE  TypeOK'
<1> DEFINE d == [ask |-> r, seen |-> Seen(r), wrote |-> FALSE, gone |-> {}, new |-> {}]
<1>1. session' = [session EXCEPT ![s] = d] /\ stale' = [stale EXCEPT ![s] = {}]
  BY DEF Begin
<1>2. Seen(r) \subseteq Scope(r) /\ Seen(r) \subseteq Pairs
  BY ScopeOfRequest DEF Seen
<1>3. d \in Transaction
  BY <1>2 DEF Transaction
<1> QED
  BY <1>1, <1>2, <1>3 DEF TypeOK, Begin

LEMMA TypeWrite ==
    ASSUME TypeOK, NEW s \in Sessions, Write(s)
    PROVE  TypeOK'
<1> DEFINE d == session[s]
           e == [d EXCEPT !.wrote = TRUE, !.gone = Unwanted(s), !.new = Inserted(s)]
<1>1. d # None /\ d \in Transaction /\ d.ask \in Requests
  BY SessionFields DEF Write
<1>2. /\ Unwanted(s) \subseteq Scope(d.ask) /\ Inserted(s) \subseteq Scope(d.ask)
      /\ Scope(d.ask) \subseteq Pairs
  BY <1>1, WrittenLinks, ScopeOfRequest
<1>3. /\ e \in Transaction /\ e.ask = d.ask /\ e.seen = d.seen
      /\ e.gone = Unwanted(s) /\ e.new = Inserted(s)
  BY <1>1, <1>2 DEF Transaction
<1>4. session' = [session EXCEPT ![s] = IF Pointless(s) THEN None ELSE e]
  BY DEF Write
<1> HIDE DEF e
<1>5. session' \in [Sessions -> Transaction \cup {None}]
  BY <1>3, <1>4 DEF TypeOK
<1>6. ASSUME NEW o \in Sessions, session'[o] # None
      PROVE  session'[o].seen \cup stale[o] \cup session'[o].gone \cup session'[o].new
                 \subseteq Scope(session'[o].ask)
  <2>1. CASE o = s
    <3>1. session'[s] = e
      BY <1>4, <1>6, <2>1 DEF TypeOK
    <3>2. d.seen \cup stale[s] \subseteq Scope(d.ask)
      BY <1>1, SessionFields
    <3>3. e.seen \cup stale[s] \cup e.gone \cup e.new \subseteq Scope(e.ask)
      BY <1>2, <1>3, <3>2
    <3> QED
      BY <2>1, <3>1, <3>3
  <2>2. CASE o # s
    BY <1>4, <1>6, <2>2 DEF TypeOK
  <2> QED
    BY <2>1, <2>2
<1> QED
  BY <1>5, <1>6 DEF TypeOK, Write

LEMMA TypeCommit ==
    ASSUME TypeOK, NEW s \in Sessions, Commit(s)
    PROVE  TypeOK'
<1> DEFINE d == session[s]
           P == Scope(d.ask)
<1>1. /\ d # None /\ d.ask \in Requests /\ d.gone \subseteq P /\ d.new \subseteq P
      /\ stale[s] \subseteq P /\ P \subseteq Pairs /\ Named(d.ask) \subseteq P
      /\ d.ask.op \in {"set", "assign", "unassign", "delete"}
  BY SessionFields, ScopeOfRequest DEF Commit, Busy
<1>2. links' \subseteq Pairs /\ tags' \in [TagIds -> Names \cup {None, Gone}]
  BY <1>1 DEF Commit, TypeOK
<1>3. Replay(d.ask, replayed) \subseteq Pairs
  BY <1>1 DEF Replay, TypeOK
<1>4. session' \in [Sessions -> Transaction \cup {None}]
  BY DEF Commit, TypeOK
<1>5. replayed' \subseteq Pairs /\ contested' \subseteq Pairs
  BY <1>1, <1>3 DEF Commit, Remember, TypeOK
<1>6. stale' \in [Sessions -> SUBSET Pairs]
  BY <1>1 DEF Commit, Remember, TypeOK
<1>7. ASSUME NEW o \in Sessions, session'[o] # None
      PROVE  session'[o].seen \cup stale'[o] \cup session'[o].gone \cup session'[o].new
                 \subseteq Scope(session'[o].ask)
  BY <1>7 DEF Commit, Remember, TypeOK
<1> QED
  BY <1>2, <1>4, <1>5, <1>6, <1>7 DEF TypeOK

LEMMA TypeStep == TypeOK /\ [Next]_vars => TypeOK'
<1> SUFFICES ASSUME TypeOK, [Next]_vars PROVE TypeOK'
  OBVIOUS
<1>1. CASE UNCHANGED vars
  BY <1>1 DEF vars, database, TypeOK
<1>2. ASSUME NEW t \in TagIds, NEW n \in Names, CreateTag(t, n) \/ RenameTag(t, n)
      PROVE  TypeOK'
  BY <1>2 DEF CreateTag, RenameTag, TypeOK
<1>3. ASSUME NEW s \in Sessions, RollBack(s) PROVE TypeOK'
  BY <1>3 DEF RollBack, TypeOK
<1> QED
  BY <1>1, <1>2, <1>3, TypeBegin, TypeWrite, TypeCommit DEF Next

\* Every variable keeps its type, and a transaction never reads or writes a link
\* that its request does not speak about.
THEOREM TypeCorrect == Spec => []TypeOK
BY TypeInit, TypeStep, PTL DEF Spec
-----------------------------------------------------------------------------
(* AuditExplainsLinks and DeletesAreRecorded.                              *)

\* Where nobody overtook a transaction, what it read is still so, and what it
\* wrote is what it would write now.
Settled(s) ==
    \A p \in Scope(session[s].ask) \ stale[s] :
        /\ session[s].ask.op # "assign" => (p \in session[s].seen <=> p \in links)
        /\ session[s].wrote =>
               /\ p \in session[s].gone <=> p \in Unwanted(s)
               /\ p \in session[s].new <=> p \in Inserted(s)

AllSettled == \A s \in Sessions : session[s] # None => Settled(s)

TrailInv == TypeOK /\ AllSettled /\ AuditExplainsLinks

\* What a commit makes of the links it speaks about, and of the others.
LEMMA CommitExplains ==
    ASSUME TrailInv, NEW s \in Sessions, Commit(s)
    PROVE  /\ \A p \in Pairs \ Scope(session[s].ask) :
                  (p \in links' <=> p \in links) /\ (p \in replayed' <=> p \in replayed)
           /\ \A p \in Scope(session[s].ask) \ stale[s] : p \in links' <=> p \in replayed'
<1> DEFINE d == session[s]
           P == Scope(d.ask)
<1>1. /\ d # None /\ d.wrote /\ d.ask \in Requests /\ d.gone \subseteq P /\ d.new \subseteq P
      /\ Named(d.ask) \subseteq P /\ (d.ask.op # "set" => P = Named(d.ask))
      /\ d.ask.op \in {"set", "assign", "unassign", "delete"}
  BY SessionFields, ScopeOfRequest DEF Commit, Busy, TrailInv
<1>2. links' = (links \ d.gone) \cup d.new /\ replayed' = Replay(d.ask, replayed)
  BY DEF Commit, Remember
<1>3. ASSUME NEW p \in Pairs \ P
      PROVE  (p \in links' <=> p \in links) /\ (p \in replayed' <=> p \in replayed)
  BY <1>1, <1>2, <1>3 DEF Replay
<1>4. ASSUME NEW p \in P \ stale[s] PROVE p \in links' <=> p \in replayed'
  <2>1. /\ d.ask.op # "assign" => (p \in d.seen <=> p \in links)
        /\ p \in d.gone <=> p \in Unwanted(s)
        /\ p \in d.new <=> p \in Inserted(s)
    BY <1>1, <1>4 DEF TrailInv, AllSettled, Settled
  <2>2. CASE d.ask.op = "set"
    BY <1>2, <1>4, <2>1, <2>2 DEF Unwanted, Inserted, Wanted, Replay
  <2>3. CASE d.ask.op = "assign"
    BY <1>1, <1>2, <1>4, <2>1, <2>3 DEF Unwanted, Inserted, Wanted, Replay
  <2>4. CASE d.ask.op = "unassign"
    BY <1>2, <1>4, <2>1, <2>4 DEF Unwanted, Inserted, Wanted, Replay
  <2>5. CASE d.ask.op = "delete"
    BY <1>2, <1>4, <2>1, <2>5 DEF Unwanted, Inserted, Wanted, Replay
  <2> QED
    BY <1>1, <2>2, <2>3, <2>4, <2>5
<1> QED
  BY <1>3, <1>4

LEMMA TrailInit == Init => TrailInv
BY TypeInit DEF Init, TrailInv, AllSettled, AuditExplainsLinks

LEMMA TrailCommit ==
    ASSUME TrailInv, NEW s \in Sessions, Commit(s)
    PROVE  AllSettled' /\ AuditExplainsLinks'
<1> DEFINE P == Scope(session[s].ask)
<1>1. session[s] # None /\ P \subseteq Pairs /\ stale[s] \subseteq P
  BY SessionFields, ScopeOfRequest DEF Commit, Busy, TrailInv
<1>2. AuditExplainsLinks'
  <2> SUFFICES ASSUME NEW p \in Pairs \ contested' PROVE p \in links' <=> p \in replayed'
    BY DEF AuditExplainsLinks
  <2>1. p \notin stale[s] /\ (p \notin P => p \notin contested)
    BY DEF Commit, Remember
  <2>2. CASE p \in P
    BY <2>1, <2>2, CommitExplains
  <2>3. CASE p \notin P
    BY <2>1, <2>3, CommitExplains DEF TrailInv, AuditExplainsLinks
  <2> QED
    BY <2>2, <2>3
<1>3. ASSUME NEW o \in Sessions, session'[o] # None PROVE Settled(o)'
  <2>1. o # s /\ session'[o] = session[o] /\ session[o] # None
    BY <1>3 DEF Commit, TrailInv, TypeOK
  <2>2. stale'[o] = stale[o] \cup (P \cap Scope(session[o].ask))
    BY <2>1 DEF Commit, Remember
  <2>3. Scope(session[o].ask) \subseteq Pairs
    BY <2>1, SessionFields, ScopeOfRequest DEF TrailInv
  <2>4. ASSUME NEW p \in Scope(session[o].ask) \ stale'[o]
        PROVE  /\ session[o].ask.op # "assign" => (p \in session[o].seen <=> p \in links')
               /\ session[o].wrote =>
                      /\ p \in session[o].gone <=> p \in Unwanted(o)'
                      /\ p \in session[o].new <=> p \in Inserted(o)'
    <3>1. p \in Pairs \ P /\ p \notin stale[o]
      BY <2>2, <2>3, <2>4
    <3>2. p \in links' <=> p \in links
      BY <3>1, CommitExplains
    <3>3. /\ session[o].ask.op # "assign" => (p \in session[o].seen <=> p \in links)
          /\ session[o].wrote =>
                 /\ p \in session[o].gone <=> p \in Unwanted(o)
                 /\ p \in session[o].new <=> p \in Inserted(o)
      BY <2>1, <2>4, <3>1 DEF TrailInv, AllSettled, Settled
    <3>4. Wanted(o)' = Wanted(o)
      BY <2>1 DEF Wanted
    <3>5. p \in Unwanted(o)' <=> p \in Unwanted(o)
      <4>1. session[o].ask.op \in {"set", "assign", "unassign", "delete"}
        BY <2>1, SessionFields, ScopeOfRequest DEF TrailInv
      <4> QED
        BY <2>1, <3>2, <4>1 DEF Unwanted
    <3> QED
      BY <3>2, <3>3, <3>4, <3>5 DEF Inserted
  <2> QED
    BY <2>1, <2>4 DEF Settled
<1> QED
  BY <1>2, <1>3 DEF AllSettled

LEMMA TrailStep == TrailInv /\ [Next]_vars => TrailInv'
<1> SUFFICES ASSUME TrailInv, [Next]_vars PROVE TrailInv'
  OBVIOUS
<1>0. TypeOK /\ TypeOK'
  BY TypeStep DEF TrailInv
<1>1. ASSUME UNCHANGED <<links, session, replayed, stale, contested>> PROVE TrailInv'
  BY <1>0, <1>1 DEF TrailInv, AllSettled, Settled, Unwanted, Inserted, Wanted, AuditExplainsLinks
<1>2. ASSUME NEW s \in Sessions, UNCHANGED <<links, replayed, contested>>,
             session'[s] # None => Settled(s)',
             \A o \in Sessions \ {s} : session'[o] = session[o] /\ stale'[o] = stale[o]
      PROVE  TrailInv'
  <2>1. ASSUME NEW o \in Sessions, session'[o] # None, o # s PROVE Settled(o)'
    <3>1. session'[o] = session[o] /\ stale'[o] = stale[o] /\ Settled(o) /\ links' = links
      BY <1>2, <2>1 DEF TrailInv, AllSettled
    <3>2. Unwanted(o)' = Unwanted(o) /\ Inserted(o)' = Inserted(o)
      BY <3>1 DEF Unwanted, Inserted, Wanted
    <3> QED
      BY <3>1, <3>2 DEF Settled
  <2> QED
    BY <1>0, <1>2, <2>1 DEF TrailInv, AllSettled, AuditExplainsLinks
<1>3. ASSUME NEW s \in Sessions, NEW r \in Requests, Begin(s, r) PROVE TrailInv'
  <2>1. session'[s] = [ask |-> r, seen |-> Seen(r), wrote |-> FALSE, gone |-> {}, new |-> {}]
    BY <1>0, <1>3 DEF Begin, TypeOK
  <2>2. Settled(s)'
    BY <1>3, <2>1 DEF Begin, Settled, Seen
  <2>3. \A o \in Sessions \ {s} : session'[o] = session[o] /\ stale'[o] = stale[o]
    BY <1>0, <1>3 DEF Begin, TypeOK
  <2> QED
    BY <1>2, <1>3, <2>2, <2>3 DEF Begin
<1>4. ASSUME NEW s \in Sessions, Write(s) PROVE TrailInv'
  <2> DEFINE d == session[s]
             e == [d EXCEPT !.wrote = TRUE, !.gone = Unwanted(s), !.new = Inserted(s)]
  <2>1. d # None /\ d \in Transaction
    BY <1>0, <1>4, SessionFields DEF Write
  <2>2. ASSUME session'[s] # None PROVE Settled(s)'
    <3>1. /\ session'[s].ask = d.ask /\ session'[s].seen = d.seen
          /\ session'[s].gone = Unwanted(s) /\ session'[s].new = Inserted(s)
      <4>1. session'[s] = e
        BY <1>0, <1>4, <2>2 DEF Write, TypeOK
      <4> QED
        BY <2>1, <4>1 DEF Transaction
    <3>2. links' = links /\ stale' = stale
      BY <1>4 DEF Write
    <3>3. Unwanted(s)' = Unwanted(s) /\ Inserted(s)' = Inserted(s)
      BY <3>1, <3>2 DEF Unwanted, Inserted, Wanted
    <3>4. Settled(s)
      BY <2>1 DEF TrailInv, AllSettled
    <3> QED
      BY <3>1, <3>2, <3>3, <3>4 DEF Settled
  <2>3. \A o \in Sessions \ {s} : session'[o] = session[o] /\ stale'[o] = stale[o]
    BY <1>0, <1>4 DEF Write, TypeOK
  <2> QED
    BY <1>2, <1>4, <2>2, <2>3 DEF Write
<1>5. ASSUME NEW s \in Sessions, Commit(s) PROVE TrailInv'
  BY <1>0, <1>5, TrailCommit DEF TrailInv
<1>6. ASSUME NEW s \in Sessions, RollBack(s) PROVE TrailInv'
  <2>1. session'[s] = None
        /\ \A o \in Sessions \ {s} : session'[o] = session[o] /\ stale'[o] = stale[o]
    BY <1>0, <1>6 DEF RollBack, TypeOK
  <2> QED
    BY <1>2, <1>6, <2>1 DEF RollBack
<1>7. ASSUME NEW t \in TagIds, NEW n \in Names, CreateTag(t, n) \/ RenameTag(t, n)
      PROVE  TrailInv'
  BY <1>1, <1>7 DEF CreateTag, RenameTag
<1>8. CASE UNCHANGED vars
  BY <1>1, <1>8 DEF vars, database
<1> QED
  BY <1>3, <1>4, <1>5, <1>6, <1>7, <1>8 DEF Next

\* The committed audit rows replay to key_tags at every link whose last change
\* overlapped no other.
THEOREM AuditExplains == Spec => []AuditExplainsLinks
<1>1. TrailInv => AuditExplainsLinks
  BY DEF TrailInv
<1> QED
  BY <1>1, TrailInit, TrailStep, PTL DEF Spec

\* What a delete's cascade takes and what its audit row names differ only where
\* another transaction committed in between.
THEOREM DeletesRecorded == Spec => DeletesAreRecorded
<1>1. ASSUME TrailInv, NEW s \in Sessions, Commit(s), session[s].ask.op = "delete"
      PROVE  /\ session[s].gone \ session[s].seen \subseteq stale[s]
             /\ session[s].seen \ session[s].gone \subseteq stale[s]
  <2>1. /\ session[s] # None /\ session[s].wrote
        /\ session[s].seen \subseteq Scope(session[s].ask)
        /\ session[s].gone \subseteq Scope(session[s].ask)
    BY <1>1, SessionFields DEF Commit, Busy, TrailInv
  <2>2. Unwanted(s) = links \cap Scope(session[s].ask)
    BY <1>1 DEF Unwanted
  <2>3. \A p \in Scope(session[s].ask) \ stale[s] :
            /\ p \in session[s].seen <=> p \in links
            /\ p \in session[s].gone <=> p \in Unwanted(s)
    BY <1>1, <2>1 DEF TrailInv, AllSettled, Settled
  <2> QED
    BY <2>1, <2>2, <2>3
<1>2. TrailInv /\ [Next]_vars =>
          [\A s \in Sessions :
              Commit(s) /\ session[s].ask.op = "delete" =>
                  /\ session[s].gone \ session[s].seen \subseteq stale[s]
                  /\ session[s].seen \ session[s].gone \subseteq stale[s]]_vars
  BY <1>1
<1> QED
  BY <1>2, TrailInit, TrailStep, PTL DEF Spec, DeletesAreRecorded
-----------------------------------------------------------------------------
(* LinksHaveTags.                                                          *)

\* The links a transaction has inserted have a tag; one that deletes a tag has
\* emptied it, and nobody else is filling it.
Deleting(s) == Busy(s) /\ session[s].ask.op = "delete"

InsertsHaveTags == \A s \in Sessions : Busy(s) => \A p \in session[s].new : Alive(p[2])

DoomedAreEmpty ==
    \A s \in Sessions : Deleting(s) =>
        /\ session[s].new = {}
        /\ \A p \in links : p[2] \in session[s].ask.tags => p \in session[s].gone
        /\ \A o \in Sessions \ {s} : Busy(o) =>
               \A p \in session[o].new : p[2] \notin session[s].ask.tags

LinkInv == TypeOK /\ LinksHaveTags /\ InsertsHaveTags /\ DoomedAreEmpty

LEMMA ScopeOfDelete ==
    ASSUME NEW r \in Requests, r.op = "delete"
    PROVE  \A p \in Pairs : p \in Scope(r) <=> p[2] \in r.tags
<1>1. r.keys = KeyIds /\ Scope(r) = Named(r)
  BY DEF Requests, Sets, Bulks, Deletes, Scope
<1> QED
  BY <1>1 DEF Named, Pairs

LEMMA LinkCommit ==
    ASSUME LinkInv, NEW s \in Sessions, Commit(s)
    PROVE  LinksHaveTags' /\ InsertsHaveTags' /\ DoomedAreEmpty'
<1> DEFINE d == session[s]
<1>1. /\ Busy(s) /\ d.ask \in Requests /\ d.new \subseteq Pairs
  BY SessionFields, ScopeOfRequest DEF Commit, Busy, LinkInv
<1>2. links' = (links \ d.gone) \cup d.new /\ links' \subseteq Pairs
  BY <1>1 DEF Commit, LinkInv, TypeOK
<1>3. \A o \in Sessions : Busy(o)' => o # s /\ Busy(o) /\ session'[o] = session[o]
  BY DEF Commit, Busy, LinkInv, TypeOK
<1>4. \A t \in TagIds : t \notin DoomedTags(s) => (Alive(t) => Alive(t)')
  BY DEF Commit, Alive
<1>5. /\ d.ask.op = "delete" => DoomedTags(s) = d.ask.tags /\ Deleting(s)
      /\ d.ask.op # "delete" => DoomedTags(s) = {}
  BY <1>1 DEF DoomedTags, Deleting
<1>6. \A p \in Pairs : p[2] \in TagIds
  BY DEF Pairs
<1>7. LinksHaveTags'
  <2> SUFFICES ASSUME NEW p \in links' PROVE Alive(p[2])'
    BY DEF LinksHaveTags
  <2>1. Alive(p[2]) /\ p[2] \in TagIds
    BY <1>1, <1>2, <1>6 DEF LinkInv, LinksHaveTags, InsertsHaveTags
  <2>2. p[2] \notin DoomedTags(s)
    BY <1>2, <1>5 DEF LinkInv, DoomedAreEmpty
  <2> QED
    BY <1>4, <2>1, <2>2
<1>8. InsertsHaveTags'
  <2> SUFFICES ASSUME NEW o \in Sessions, Busy(o)', NEW p \in session'[o].new
               PROVE  Alive(p[2])'
    BY DEF InsertsHaveTags
  <2>1. o # s /\ Busy(o) /\ p \in session[o].new /\ session[o] # None
    BY <1>3 DEF Busy
  <2>2. p \in Pairs
    BY <2>1, SessionFields, ScopeOfRequest DEF LinkInv
  <2>3. Alive(p[2])
    BY <2>1 DEF LinkInv, InsertsHaveTags
  <2>4. p[2] \notin DoomedTags(s)
    BY <1>5, <2>1 DEF LinkInv, DoomedAreEmpty
  <2> QED
    BY <1>4, <1>6, <2>2, <2>3, <2>4
<1>9. DoomedAreEmpty'
  <2> SUFFICES ASSUME NEW o \in Sessions, Deleting(o)'
               PROVE  /\ session'[o].new = {}
                      /\ \A p \in links' : p[2] \in session'[o].ask.tags =>
                             p \in session'[o].gone
                      /\ \A q \in Sessions \ {o} : Busy(q)' =>
                             \A p \in session'[q].new : p[2] \notin session'[o].ask.tags
    BY DEF DoomedAreEmpty
  <2>1. o # s /\ Deleting(o) /\ session'[o] = session[o]
    BY <1>3 DEF Deleting
  <2>2. /\ session[o].new = {}
        /\ \A p \in links : p[2] \in session[o].ask.tags => p \in session[o].gone
        /\ \A q \in Sessions \ {o} : Busy(q) =>
               \A p \in session[q].new : p[2] \notin session[o].ask.tags
    BY <2>1 DEF LinkInv, DoomedAreEmpty
  <2>3. \A p \in d.new : p[2] \notin session[o].ask.tags
    BY <1>1, <2>1, <2>2
  <2> QED
    BY <1>2, <1>3, <2>1, <2>2, <2>3
<1> QED
  BY <1>7, <1>8, <1>9

LEMMA LinkWrite ==
    ASSUME LinkInv, NEW s \in Sessions, Write(s)
    PROVE  InsertsHaveTags' /\ DoomedAreEmpty'
<1> DEFINE d == session[s]
           e == [d EXCEPT !.wrote = TRUE, !.gone = Unwanted(s), !.new = Inserted(s)]
<1>1. d # None /\ d \in Transaction /\ d.ask \in Requests /\ links \subseteq Pairs
  BY SessionFields DEF Write, LinkInv, TypeOK
<1>2. e.ask = d.ask /\ e.gone = Unwanted(s) /\ e.new = Inserted(s)
  BY <1>1 DEF Transaction
<1>3. /\ \A o \in Sessions \ {s} : session'[o] = session[o]
      /\ session'[s] = IF Pointless(s) THEN None ELSE e
      /\ UNCHANGED <<tags, links>> /\ Free(s)
  BY DEF Write, LinkInv, TypeOK
<1> HIDE DEF e
<1>4. \A o \in Sessions \ {s} : Busy(o)' <=> Busy(o)
  BY <1>3 DEF Busy
<1>5. Busy(s)' => ~Pointless(s) /\ session'[s] = e
  BY <1>3 DEF Busy
<1>6. InsertsHaveTags'
  <2>1. ASSUME ~Pointless(s), NEW p \in Inserted(s) PROVE Alive(p[2])
    BY <2>1 DEF Pointless, TagsOf
  <2> QED
    BY <1>2, <1>3, <1>4, <1>5, <2>1 DEF LinkInv, InsertsHaveTags, Alive
<1>7. ASSUME NEW o \in Sessions \ {s}, Busy(o), NEW p \in Inserted(s), Deleting(o)
      PROVE  p[2] \notin session[o].ask.tags
  BY <1>3, <1>7 DEF Free, DoomedTags, TagsOf, Deleting
<1>8. ASSUME NEW o \in Sessions \ {s}, Busy(o), NEW p \in session[o].new, d.ask.op = "delete"
      PROVE  p[2] \notin d.ask.tags
  BY <1>3, <1>8 DEF Free, LockedTags, DoomedTags, TagsOf
<1>9. DoomedAreEmpty'
  <2> SUFFICES ASSUME NEW o \in Sessions, Deleting(o)'
               PROVE  /\ session'[o].new = {}
                      /\ \A p \in links : p[2] \in session'[o].ask.tags => p \in session'[o].gone
                      /\ \A q \in Sessions \ {o} : Busy(q)' =>
                             \A p \in session'[q].new : p[2] \notin session'[o].ask.tags
    BY <1>3 DEF DoomedAreEmpty
  <2>1. CASE o = s
    <3>1. session'[s] = e /\ d.ask.op = "delete"
      BY <1>2, <1>5, <2>1 DEF Deleting
    <3>2. Inserted(s) = {} /\ Unwanted(s) = links \cap Scope(d.ask)
      BY <3>1 DEF Inserted, Wanted, Unwanted
    <3>3. \A p \in links : p[2] \in d.ask.tags => p \in Unwanted(s)
      BY <1>1, <3>1, <3>2, ScopeOfDelete
    <3>4. ASSUME NEW q \in Sessions \ {s}, Busy(q)', NEW p \in session'[q].new
          PROVE  p[2] \notin d.ask.tags
      BY <1>3, <1>4, <1>8, <3>1, <3>4
    <3> QED
      BY <1>2, <2>1, <3>1, <3>2, <3>3, <3>4
  <2>2. CASE o # s
    <3>1. Deleting(o) /\ Busy(o) /\ session'[o] = session[o]
      BY <1>3, <1>4, <2>2 DEF Deleting
    <3>2. /\ session[o].new = {}
          /\ \A p \in links : p[2] \in session[o].ask.tags => p \in session[o].gone
          /\ \A q \in Sessions \ {o} : Busy(q) =>
                 \A p \in session[q].new : p[2] \notin session[o].ask.tags
      BY <3>1 DEF LinkInv, DoomedAreEmpty
    <3>3. ASSUME NEW q \in Sessions \ {o}, Busy(q)', NEW p \in session'[q].new
          PROVE  p[2] \notin session[o].ask.tags
      <4>1. CASE q = s
        <5>1. p \in Inserted(s)
          BY <1>2, <1>5, <3>3, <4>1
        <5> QED
          BY <1>7, <2>2, <3>1, <5>1
      <4>2. CASE q # s
        BY <1>3, <1>4, <3>2, <3>3, <4>2
      <4> QED
        BY <4>1, <4>2
    <3> QED
      BY <3>1, <3>2, <3>3
  <2> QED
    BY <2>1, <2>2
<1> QED
  BY <1>6, <1>9

LEMMA LinkStep == LinkInv /\ [Next]_vars => LinkInv'
<1> SUFFICES ASSUME LinkInv, [Next]_vars PROVE LinkInv'
  OBVIOUS
<1>0. TypeOK /\ TypeOK'
  BY TypeStep DEF LinkInv
<1>1. ASSUME \A t \in TagIds : Alive(t) => Alive(t)', UNCHANGED links,
             \A s \in Sessions : Busy(s)' => session'[s] = session[s]
      PROVE  LinkInv'
  <2>1. \A s \in Sessions : Busy(s)' => Busy(s)
    BY <1>1 DEF Busy
  <2>2. ASSUME NEW s \in Sessions, Busy(s), NEW p \in session[s].new PROVE p[2] \in TagIds
    <3>1. p \in Pairs
      BY <1>0, <2>2, SessionFields, ScopeOfRequest DEF Busy
    <3> QED
      BY <3>1 DEF Pairs
  <2>3. \A p \in links : p[2] \in TagIds
    BY <1>0 DEF TypeOK, Pairs
  <2>4. LinksHaveTags'
    BY <1>1, <2>3 DEF LinkInv, LinksHaveTags
  <2>5. InsertsHaveTags'
    BY <1>1, <2>1, <2>2 DEF LinkInv, InsertsHaveTags
  <2>6. DoomedAreEmpty'
    BY <1>1, <2>1 DEF LinkInv, DoomedAreEmpty, Deleting
  <2> QED
    BY <1>0, <2>4, <2>5, <2>6 DEF LinkInv
<1>2. ASSUME NEW t \in TagIds, NEW n \in Names, CreateTag(t, n) \/ RenameTag(t, n)
      PROVE  LinkInv'
  <2>1. \A u \in TagIds : Alive(u) => Alive(u)'
    BY <1>0, <1>2, TagsAssumption DEF CreateTag, RenameTag, Alive, TypeOK
  <2> QED
    BY <1>1, <1>2, <2>1 DEF CreateTag, RenameTag
<1>3. ASSUME NEW s \in Sessions, NEW r \in Requests, Begin(s, r) PROVE LinkInv'
  <2>1. \A o \in Sessions : Busy(o)' => session'[o] = session[o]
    BY <1>0, <1>3 DEF Begin, Busy, TypeOK
  <2> QED
    BY <1>1, <1>3, <2>1 DEF Begin, Alive
<1>4. ASSUME NEW s \in Sessions, RollBack(s) PROVE LinkInv'
  <2>1. \A o \in Sessions : Busy(o)' => session'[o] = session[o]
    BY <1>0, <1>4 DEF RollBack, Busy, TypeOK
  <2> QED
    BY <1>1, <1>4, <2>1 DEF RollBack, Alive
<1>5. ASSUME NEW s \in Sessions, Write(s) PROVE LinkInv'
  BY <1>0, <1>5, LinkWrite DEF LinkInv, Write, LinksHaveTags, Alive
<1>6. ASSUME NEW s \in Sessions, Commit(s) PROVE LinkInv'
  BY <1>0, <1>6, LinkCommit DEF LinkInv
<1>7. CASE UNCHANGED vars
  BY <1>1, <1>7 DEF vars, database, Alive
<1> QED
  BY <1>2, <1>3, <1>4, <1>5, <1>6, <1>7 DEF Next

\* However requests race, no key carries a tag that was deleted.
THEOREM NoLinkOutlivesItsTag == Spec => []LinksHaveTags
<1>1. Init => LinkInv
  BY TypeInit DEF Init, LinkInv, LinksHaveTags, InsertsHaveTags, DoomedAreEmpty, Deleting, Busy
<1>2. LinkInv => LinksHaveTags
  BY DEF LinkInv
<1> QED
  BY <1>1, <1>2, LinkStep, PTL DEF Spec
=============================================================================
