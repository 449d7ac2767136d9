----------------------------- MODULE AssetsProofs -----------------------------
(***************************************************************************)
(* Theorems about Assets, for any files, keys and requests.                *)
(***************************************************************************)
EXTENDS Assets, TLAPS, FiniteSetTheorems, WellFoundedInduction

\* A set of numbers below a bound has a largest one.
LEMMA LargestExists ==
    ASSUME NEW n \in Nat, NEW S \in SUBSET (0 .. n), S # {}
    PROVE  Max(S) \in S /\ \A y \in S : y <= Max(S)
<1> DEFINE T == {n - x : x \in S}
           R == {ss \in Nat \X Nat : ss[1] < ss[2]}
<1>1. IsWellFoundedOn(R, Nat)
  BY NatLessThanWellFounded DEF OpToRel
<1>2. T \subseteq Nat /\ T # {}
  <2>1. \A x \in S : x \in Int /\ n - x \in Nat
    OBVIOUS
  <2> QED
    BY <2>1
<1>3. PICK m \in T : \A y \in T : ~(<<y, m>> \in R)
  <2> HIDE DEF R, T
  <2> QED
    BY <1>1, <1>2, WFMin
<1>4. \A y \in T : m <= y
  <2> SUFFICES ASSUME NEW y \in T PROVE m <= y
    OBVIOUS
  <2>1. m \in Nat /\ y \in Nat /\ <<y, m>> \notin R
    BY <1>2, <1>3
  <2>2. ~(y < m)
    BY <2>1
  <2> QED
    BY <2>1, <2>2
<1>5. PICK x \in S : m = n - x
  BY <1>3
<1>6. \A y \in S : y <= x
  BY <1>4, <1>5
<1> QED
  BY <1>6 DEF Max

LEMMA NextOrderIsLarger ==
    ASSUME TypeOK, NEW k \in KeyIds
    PROVE  /\ NextOrder(k) \in Nat
           /\ \A p \in OfKey(k) : p \in Links /\ links[p] \in 0 .. MaxOrder
                                  /\ links[p] < NextOrder(k)
<1> DEFINE S == {links[p] : p \in OfKey(k)}
<1>1. \A p \in OfKey(k) : p \in Links /\ links[p] \in 0 .. MaxOrder
  BY DEF OfKey, Attached, TypeOK
<1>2. MaxOrder \in Nat
  BY AssetsAssumption
<1>3. CASE OfKey(k) = {}
  BY <1>3 DEF NextOrder
<1>4. CASE OfKey(k) # {}
  <2>1. S \in SUBSET (0 .. MaxOrder) /\ S # {}
    BY <1>1, <1>4
  <2>2. Max(S) \in S /\ \A y \in S : y <= Max(S)
    <3> HIDE DEF S
    <3> QED
      BY <1>2, <2>1, LargestExists
  <2>3. NextOrder(k) = Max(S) + 1
    BY <1>4 DEF NextOrder
  <2>4. Max(S) \in Nat
    <3>1. Max(S) \in 0 .. MaxOrder
      <4> HIDE DEF S
      <4> QED
        BY <2>1, <2>2
    <3> QED
      BY <1>2, <3>1
  <2>5. \A p \in OfKey(k) : links[p] <= Max(S)
    BY <2>2
  <2> HIDE DEF S
  <2> QED
    BY <1>1, <1>2, <2>3, <2>4, <2>5
<1> QED
  BY <1>3, <1>4

\* A request under way, by its stage.
LEMMA WorkFields ==
    ASSUME TypeOK, NEW r \in Requests, request[r] # None
    PROVE  /\ request[r] \in Work
           /\ request[r].stage \in {"absent", "stat", "verified", "inserted", "allowed", "linked"}
           /\ request[r].stage \in {"absent", "stat", "verified", "inserted"} =>
                  request[r].hash \in Files
           /\ request[r].stage \in {"stat", "verified", "inserted"} =>
                  request[r].bytes \in Storable /\ request[r].swapped \in BOOLEAN
           /\ request[r].stage = "inserted" => request[r].id \in 1 .. MaxId
           /\ request[r].stage \in {"allowed", "linked"} => request[r].link \in Links
           /\ request[r].stage = "linked" =>
                  /\ request[r].order \in 0 .. MaxOrder
                  /\ request[r].after \subseteq Links /\ request[r].after \subseteq Attached
<1>1. request[r] \in Work
  BY DEF TypeOK
<1>2. request[r].stage = "linked" => request[r].after \subseteq Attached
  BY DEF TypeOK, Doing
<1> QED
  BY <1>1, <1>2 DEF Work
-----------------------------------------------------------------------------
(* Types.                                                                  *)

LEMMA TypeInit == Init => TypeOK
<1> SUFFICES ASSUME Init PROVE TypeOK
  OBVIOUS
<1>1. objects \in [Files -> Objects \cup {None}]
  BY DEF Init, Objects
<1>2. lastId \in 0 .. MaxId
  BY AssetsAssumption DEF Init
<1> QED
  BY <1>1, <1>2 DEF Init, TypeOK, Doing

\* A request that goes on to other work.
LEMMA TypeMoves ==
    ASSUME TypeOK, NEW r \in Requests, NEW w \in Work \cup {None}, Moves(r, w),
           UNCHANGED links,
           w # None /\ w.stage = "linked" => w.after \subseteq Attached
    PROVE  /\ request' \in [Requests -> Work \cup {None}]
           /\ \A o \in Requests : Doing(o, "linked")' => request'[o].after \subseteq Attached'
           /\ links' \in [Links -> 0 .. MaxOrder \cup {None}]
<1>1. Attached' = Attached
  BY DEF Attached
<1>2. request' \in [Requests -> Work \cup {None}] /\ request'[r] = w
      /\ \A o \in Requests \ {r} : request'[o] = request[o]
  BY DEF Moves, TypeOK
<1> QED
  BY <1>1, <1>2 DEF TypeOK, Doing

LEMMA TypeUpload ==
    ASSUME TypeOK, NEW p \in policies, NEW file \in Files, Upload(p, file)
    PROVE  TypeOK'
<1>1. p \in Policies
  BY DEF TypeOK
<1>2. objects' \in [Files -> Objects \cup {None}]
  BY <1>1 DEF Upload, TypeOK, Policies, Objects
<1>3. ASSUME NEW r \in Requests
      PROVE  /\ request'[r] \in Work \cup {None}
             /\ Doing(r, "linked")' => Doing(r, "linked") /\ request'[r] = request[r]
  <2>1. CASE /\ request[r] # None /\ request[r].stage \in {"stat", "verified", "inserted"}
             /\ request[r].hash = p.hash
    <3>1. request'[r] = [request[r] EXCEPT !.swapped = TRUE]
      BY <2>1 DEF Upload
    <3>2. request[r] \in Work
      BY <2>1, WorkFields
    <3>3. request'[r] \in Work /\ request'[r].stage = request[r].stage
      BY <2>1, <3>1, <3>2 DEF Work
    <3> QED
      BY <2>1, <3>3 DEF Doing
  <2>2. CASE ~(/\ request[r] # None /\ request[r].stage \in {"stat", "verified", "inserted"}
               /\ request[r].hash = p.hash)
    <3>1. request'[r] = request[r]
      BY <2>2 DEF Upload
    <3> QED
      BY <3>1 DEF TypeOK, Doing
  <2> QED
    BY <2>1, <2>2
<1>4. request' = [r \in Requests |-> request'[r]]
  BY DEF Upload
<1>5. request' \in [Requests -> Work \cup {None}]
  BY <1>3, <1>4
<1> QED
  BY <1>2, <1>3, <1>5 DEF Upload, TypeOK, Attached

LEMMA TypeConfirm ==
    ASSUME TypeOK, NEW r \in Requests, NEW f \in Files, Confirm(r, f)
    PROVE  TypeOK'
<1>1. CASE assets[f] # None
  <2>1. assets[f].id \in 1 .. MaxId
    BY <1>1 DEF TypeOK, Rows
  <2>2. UNCHANGED request /\ answers' = [answers EXCEPT ![f] = @ \cup {assets[f].id}]
    BY <1>1 DEF Confirm, Answer
  <2> QED
    BY <2>1, <2>2 DEF Confirm, TypeOK, Doing, Attached
<1>2. CASE assets[f] = None
  <2> DEFINE w == [stage |-> "absent", hash |-> f]
  <2>1. w \in Work /\ w.stage # "linked" /\ Moves(r, w) /\ UNCHANGED answers
    BY <1>2 DEF Confirm, Work
  <2> HIDE DEF w
  <2> QED
    BY <2>1, TypeMoves DEF Confirm, TypeOK, Attached
<1> QED
  BY <1>1, <1>2

LEMMA TypeStat ==
    ASSUME TypeOK, NEW r \in Requests, Stat(r)
    PROVE  TypeOK'
<1> DEFINE f == request[r].hash
           o == objects[f]
           w == IF Sound(o) THEN [stage |-> "stat", hash |-> f, bytes |-> Size(o.file),
                                  swapped |-> FALSE]
                ELSE None
<1>1. f \in Files
  BY WorkFields DEF Stat, Doing
<1>2. ASSUME Sound(o) PROVE Size(o.file) \in Storable
  <2>1. o \in Objects
    BY <1>1, <1>2 DEF Sound, Declares, TypeOK
  <2> QED
    BY <1>2, <2>1 DEF Sound, Storable, Sizes, Objects
<1>3. w \in Work \cup {None} /\ (w # None => w.stage # "linked")
  BY <1>1, <1>2 DEF Work
<1>4. Moves(r, w)
  BY DEF Stat, Ends
<1> HIDE DEF w
<1> QED
  BY <1>3, <1>4, TypeMoves DEF Stat, TypeOK, Attached

LEMMA TypeRead ==
    ASSUME TypeOK, NEW r \in Requests, Read(r)
    PROVE  TypeOK'
<1> DEFINE w == IF Genuine(objects[request[r].hash], request[r].hash)
                THEN [request[r] EXCEPT !.stage = "verified"] ELSE None
<1>1. request[r] \in Work /\ request[r].stage = "stat"
  BY WorkFields DEF Read, Doing
<1>2. w \in Work \cup {None} /\ (w # None => w.stage # "linked")
  BY <1>1 DEF Work
<1>3. Moves(r, w)
  BY DEF Read, Ends
<1> HIDE DEF w
<1> QED
  BY <1>2, <1>3, TypeMoves DEF Read, TypeOK, Attached

LEMMA TypeInsert ==
    ASSUME TypeOK, NEW r \in Requests, Insert(r)
    PROVE  TypeOK'
<1> DEFINE f == request[r].hash
           w == [stage |-> "inserted", hash |-> f, id |-> lastId', bytes |-> request[r].bytes,
                 swapped |-> request[r].swapped]
<1>1. f \in Files /\ request[r].bytes \in Storable /\ request[r].swapped \in BOOLEAN
  BY WorkFields DEF Insert, Doing
<1>2. lastId' = lastId + 1 /\ lastId' \in 1 .. MaxId
  BY AssetsAssumption DEF Insert, TypeOK
<1>3. CASE assets[f] # None
  <2>1. assets[f].id \in 1 .. MaxId
    BY <1>1, <1>3 DEF TypeOK, Rows
  <2>2. Moves(r, None) /\ answers' = [answers EXCEPT ![f] = @ \cup {assets[f].id}]
    BY <1>3 DEF Insert, Answer, ReadBack, Ends
  <2>3. answers' \in [Files -> SUBSET (1 .. MaxId)]
    BY <2>1, <2>2 DEF TypeOK
  <2> QED
    BY <1>2, <2>2, <2>3, TypeMoves DEF Insert, TypeOK, Attached
<1>4. CASE assets[f] = None
  <2>1. w \in Work /\ w.stage # "linked" /\ Moves(r, w) /\ UNCHANGED answers
    BY <1>1, <1>2, <1>4 DEF Insert, Work
  <2> HIDE DEF w
  <2> QED
    BY <1>2, <2>1, TypeMoves DEF Insert, TypeOK, Attached
<1> QED
  BY <1>3, <1>4

LEMMA TypeCommitAsset ==
    ASSUME TypeOK, NEW r \in Requests, CommitAsset(r)
    PROVE  TypeOK'
<1> DEFINE w == request[r]
<1>1. w.hash \in Files /\ w.bytes \in Storable /\ w.id \in 1 .. MaxId
  BY WorkFields DEF CommitAsset, Doing
<1>2. /\ assets' \in [Files -> Rows \cup {None}]
      /\ answers' \in [Files -> SUBSET (1 .. MaxId)]
  BY <1>1 DEF CommitAsset, Answer, TypeOK, Rows
<1>3. Moves(r, None)
  BY DEF CommitAsset, Ends
<1> QED
  BY <1>2, <1>3, TypeMoves DEF CommitAsset, TypeOK, Attached

LEMMA TypeAttach ==
    ASSUME TypeOK, NEW r \in Requests, NEW p \in Links, Attach(r, p)
    PROVE  TypeOK'
<1> DEFINE w == [stage |-> "allowed", link |-> p]
<1>1. w \in Work /\ w.stage # "linked" /\ Moves(r, w)
  BY DEF Attach, Work
<1> HIDE DEF w
<1> QED
  BY <1>1, TypeMoves DEF Attach, TypeOK, Attached

\* What Link decides.
LEMMA LinkDecides ==
    ASSUME TypeOK, NEW r \in Requests, Link(r)
    PROVE  LET p == request[r].link
               order == IF links[p] # None THEN links[p] ELSE NextOrder(p[1])
               after == IF links[p] # None THEN {} ELSE OfKey(p[1])
           IN /\ p \in Links /\ order \in 0 .. MaxOrder /\ after \subseteq Attached
              /\ ~HeldByAnother(r, p)
              /\ Moves(r, [stage |-> "linked", link |-> p, order |-> order, after |-> after])
              /\ \A q \in after : links[q] \in Int /\ links[q] < order
              /\ p \in after => links[p] # None
<1> DEFINE p == request[r].link
<1>1. p \in Links /\ p[1] \in KeyIds /\ MaxOrder \in Nat
  BY WorkFields, AssetsAssumption DEF Link, Doing, Links
<1>2. /\ NextOrder(p[1]) \in 0 .. MaxOrder
      /\ \A q \in OfKey(p[1]) : links[q] \in Int /\ links[q] < NextOrder(p[1])
  BY <1>1, NextOrderIsLarger DEF Link
<1>3. links[p] # None => links[p] \in 0 .. MaxOrder
  BY <1>1 DEF TypeOK
<1>4. OfKey(p[1]) \subseteq Attached /\ \A q \in Attached : links[q] # None
  BY DEF OfKey, Attached
<1> QED
  BY <1>1, <1>2, <1>3, <1>4 DEF Link

LEMMA TypeLink ==
    ASSUME TypeOK, NEW r \in Requests, Link(r)
    PROVE  TypeOK'
<1>1. PICK p \in Links, order \in 0 .. MaxOrder, after \in SUBSET Attached :
          Moves(r, [stage |-> "linked", link |-> p, order |-> order, after |-> after])
  BY LinkDecides
<1> DEFINE w == [stage |-> "linked", link |-> p, order |-> order, after |-> after]
<1>2. w \in Work /\ w.after \subseteq Attached
  BY DEF Work, Attached
<1> HIDE DEF w
<1>3. Moves(r, w)
  BY <1>1 DEF w
<1> QED
  BY <1>2, <1>3, TypeMoves DEF Link, TypeOK, Attached

\* What CommitLink makes of the table: a link at its order.
LEMMA CommitLinkAttaches ==
    ASSUME TypeOK, NEW r \in Requests, CommitLink(r)
    PROVE  LET w == request[r]
           IN /\ w.link \in Links /\ w.order \in 0 .. MaxOrder /\ w.after \subseteq Attached
              /\ links' = [links EXCEPT ![w.link] = w.order]
              /\ Attached' = Attached \cup {w.link}
              /\ \A o \in Requests : Doing(o, "linked")' =>
                     o # r /\ Doing(o, "linked") /\ request'[o] = request[o]
<1> DEFINE w == request[r]
<1>1. /\ w.link \in Links /\ w.order \in 0 .. MaxOrder /\ w.after \subseteq Attached
      /\ links' = [links EXCEPT ![w.link] = w.order]
  BY WorkFields DEF CommitLink, Doing
<1>2. w.order # None
  BY <1>1, AssetsAssumption, NoneAssumption
<1>3. Attached' = Attached \cup {w.link}
  BY <1>1, <1>2 DEF Attached, TypeOK
<1>4. \A o \in Requests : Doing(o, "linked")' =>
          o # r /\ Doing(o, "linked") /\ request'[o] = request[o]
  BY DEF CommitLink, Ends, Moves, Doing, TypeOK
<1> QED
  BY <1>1, <1>3, <1>4

LEMMA TypeCommitLink ==
    ASSUME TypeOK, NEW r \in Requests, CommitLink(r)
    PROVE  TypeOK'
<1> DEFINE w == request[r]
<1>1. /\ w.link \in Links /\ w.order \in 0 .. MaxOrder /\ w.after \subseteq Attached
      /\ links' = [links EXCEPT ![w.link] = w.order]
      /\ Attached' = Attached \cup {w.link}
      /\ \A o \in Requests : Doing(o, "linked")' =>
             o # r /\ Doing(o, "linked") /\ request'[o] = request[o]
  BY CommitLinkAttaches
<1>2. links' \in [Links -> 0 .. MaxOrder \cup {None}]
  BY <1>1 DEF TypeOK
<1>3. request' \in [Requests -> Work \cup {None}]
  BY DEF CommitLink, Ends, Moves, TypeOK
<1>4. \A o \in Requests : Doing(o, "linked")' => request'[o].after \subseteq Attached'
  BY <1>1 DEF TypeOK
<1>5. later' \subseteq Attached' \X Attached'
  BY <1>1 DEF CommitLink, TypeOK
<1> QED
  BY <1>2, <1>3, <1>4, <1>5 DEF CommitLink, TypeOK

\* What Detach leaves.
LEMMA DetachLeaves ==
    ASSUME TypeOK, NEW p \in Links, Detach(p)
    PROVE  /\ Attached' = Attached \ {p}
           /\ \A q \in Links \ {p} : links'[q] = links[q]
           /\ request' \in [Requests -> Work \cup {None}]
           /\ \A o \in Requests :
                  /\ ~Doing(o, "linked") => request'[o] = request[o]
                  /\ Doing(o, "linked") =>
                         /\ request'[o] = [request[o] EXCEPT !.after = @ \ {p}]
                         /\ request'[o].stage = "linked"
                         /\ request'[o].link = request[o].link /\ request[o].link # p
                         /\ request'[o].order = request[o].order
                         /\ request'[o].after = request[o].after \ {p}
<1>1. Attached' = Attached \ {p} /\ \A q \in Links \ {p} : links'[q] = links[q]
  BY DEF Detach, Attached, TypeOK
<1>2. ASSUME NEW o \in Requests
      PROVE  /\ request'[o] \in Work \cup {None}
             /\ ~Doing(o, "linked") => request'[o] = request[o]
             /\ Doing(o, "linked") =>
                    /\ request'[o] = [request[o] EXCEPT !.after = @ \ {p}]
                    /\ request'[o].stage = "linked"
                    /\ request'[o].link = request[o].link /\ request[o].link # p
                    /\ request'[o].order = request[o].order
                    /\ request'[o].after = request[o].after \ {p}
  <2>1. CASE ~Doing(o, "linked")
    BY <2>1 DEF Detach, TypeOK
  <2>2. CASE Doing(o, "linked")
    <3>1. request[o] \in Work /\ request[o].stage = "linked"
      BY <2>2, WorkFields DEF Doing
    <3>2. request'[o] = [request[o] EXCEPT !.after = @ \ {p}] /\ request[o].link # p
      BY <2>2 DEF Detach
    <3>3. request[o] \in [stage : {"linked"}, link : Links, order : 0 .. MaxOrder,
                          after : SUBSET Links]
      BY <3>1 DEF Work
    <3>4. request'[o] \in [stage : {"linked"}, link : Links, order : 0 .. MaxOrder,
                           after : SUBSET Links]
      BY <3>2, <3>3
    <3> QED
      BY <2>2, <3>2, <3>3, <3>4 DEF Work
  <2> QED
    BY <2>1, <2>2
<1>3. request' = [o \in Requests |-> request'[o]]
  BY DEF Detach
<1>4. request' \in [Requests -> Work \cup {None}]
  BY <1>2, <1>3
<1> QED
  BY <1>1, <1>2, <1>4

LEMMA TypeDetach ==
    ASSUME TypeOK, NEW p \in Links, Detach(p)
    PROVE  TypeOK'
<1>1. /\ Attached' = Attached \ {p} /\ request' \in [Requests -> Work \cup {None}]
      /\ \A o \in Requests : Doing(o, "linked")' =>
             Doing(o, "linked") /\ request'[o].after = request[o].after \ {p}
  <2>1. ASSUME NEW o \in Requests, Doing(o, "linked")'
        PROVE  Doing(o, "linked") /\ request'[o].after = request[o].after \ {p}
    <3>1. CASE ~Doing(o, "linked")
      <4>1. request'[o] = request[o]
        BY <3>1, DetachLeaves
      <4> QED
        BY <2>1, <3>1, <4>1 DEF Doing
    <3>2. CASE Doing(o, "linked")
      BY <3>2, DetachLeaves
    <3> QED
      BY <3>1, <3>2
  <2> QED
    BY <2>1, DetachLeaves
<1>2. \A o \in Requests : Doing(o, "linked")' => request'[o].after \subseteq Attached'
  BY <1>1 DEF TypeOK
<1>3. later' \subseteq Attached' \X Attached'
  BY <1>1 DEF Detach, TypeOK
<1>4. links' \in [Links -> 0 .. MaxOrder \cup {None}]
  BY DEF Detach, TypeOK
<1> QED
  BY <1>1, <1>2, <1>3, <1>4 DEF Detach, TypeOK

LEMMA TypeStep == TypeOK /\ [Next]_vars => TypeOK'
<1> SUFFICES ASSUME TypeOK, [Next]_vars PROVE TypeOK'
  OBVIOUS
<1>1. ASSUME NEW r \in Requests, Fail(r) PROVE TypeOK'
  <2>1. Moves(r, None) /\ UNCHANGED links
    BY <1>1 DEF Fail, Ends
  <2> QED
    BY <1>1, <2>1, TypeMoves DEF Fail, TypeOK, Attached
<1>2. ASSUME NEW f \in Files, NEW declared \in Sizes, Presign(f, declared) PROVE TypeOK'
  BY <1>2 DEF Presign, Policies, TypeOK, Doing, Attached
<1>3. ASSUME NEW k \in KeyIds, DeleteKey(k) PROVE TypeOK'
  BY <1>3 DEF DeleteKey, TypeOK, Doing, Attached
<1>4. CASE UNCHANGED vars
  BY <1>4 DEF vars, TypeOK, Doing, Attached
<1> QED
  BY <1>1, <1>2, <1>3, <1>4, TypeUpload, TypeConfirm, TypeStat, TypeRead, TypeInsert,
     TypeCommitAsset, TypeAttach, TypeLink, TypeCommitLink, TypeDetach DEF Next

\* Rows, objects, links and requests keep their types: no row is larger than the
\* limit, no order exceeds its column.
THEOREM TypeCorrect == Spec => []TypeOK
BY TypeInit, TypeStep, PTL DEF Spec
-----------------------------------------------------------------------------
(* OneAnswer.                                                              *)

Answered ==
    \A f \in Files : answers[f] # {} => assets[f] # None /\ answers[f] = {assets[f].id}

\* Of those who insert a row for the same hash, only one is let through, and
\* only while there is none.
InsertsAreAlone ==
    \A r \in Requests : Doing(r, "inserted") =>
        /\ assets[request[r].hash] = None
        /\ \A o \in Requests \ {r} :
               Doing(o, "inserted") => request[o].hash # request[r].hash

AnswerInv == TypeOK /\ Answered /\ InsertsAreAlone

LEMMA AnswerStep == AnswerInv /\ [Next]_vars => AnswerInv'
<1> SUFFICES ASSUME AnswerInv, [Next]_vars PROVE AnswerInv'
  OBVIOUS
<1>0. TypeOK /\ TypeOK'
  BY TypeStep DEF AnswerInv
<1>1. ASSUME UNCHANGED assets, Answered',
             \A r \in Requests : Doing(r, "inserted")' =>
                 Doing(r, "inserted") /\ request'[r].hash = request[r].hash
      PROVE  AnswerInv'
  BY <1>0, <1>1 DEF AnswerInv, InsertsAreAlone
<1>2. ASSUME UNCHANGED <<assets, answers>>, NEW r \in Requests, NEW w, Moves(r, w),
             w # None => w.stage # "inserted"
      PROVE  AnswerInv'
  <2>1. \A o \in Requests : Doing(o, "inserted")' =>
            Doing(o, "inserted") /\ request'[o].hash = request[o].hash
    BY <1>0, <1>2 DEF Moves, Doing, TypeOK
  <2> QED
    BY <1>1, <1>2, <2>1 DEF AnswerInv, Answered
<1>3. ASSUME NEW f \in Files, assets[f] # None, UNCHANGED assets,
             answers' = [answers EXCEPT ![f] = @ \cup {assets[f].id}]
      PROVE  Answered'
  <2>1. answers'[f] = answers[f] \cup {assets[f].id} /\ answers[f] \subseteq {assets[f].id}
    BY <1>0, <1>3 DEF AnswerInv, Answered, TypeOK
  <2>2. \A g \in Files \ {f} : answers'[g] = answers[g]
    BY <1>0, <1>3 DEF TypeOK
  <2> QED
    BY <1>3, <2>1, <2>2 DEF AnswerInv, Answered
<1>4. ASSUME NEW r \in Requests, NEW f \in Files, Confirm(r, f) PROVE AnswerInv'
  <2>1. CASE assets[f] # None
    BY <1>1, <1>3, <1>4, <2>1 DEF Confirm, Answer, Doing
  <2>2. CASE assets[f] = None
    BY <1>2, <1>4, <2>2 DEF Confirm
  <2> QED
    BY <2>1, <2>2
<1>5. ASSUME NEW r \in Requests, Stat(r) PROVE AnswerInv'
  BY <1>2, <1>5 DEF Stat, Ends
<1>6. ASSUME NEW r \in Requests, Read(r) PROVE AnswerInv'
  <2>1. [request[r] EXCEPT !.stage = "verified"].stage # "inserted"
    BY <1>0, <1>6, WorkFields DEF Read, Doing, Work
  <2> QED
    BY <1>2, <1>6, <2>1 DEF Read, Ends
<1>7. ASSUME NEW r \in Requests, Insert(r) PROVE AnswerInv'
  <2> DEFINE f == request[r].hash
  <2>0. f \in Files
    BY <1>0, <1>7, WorkFields DEF Insert, Doing
  <2>1. CASE assets[f] # None
    <3>1. Answered'
      BY <1>3, <1>7, <2>0, <2>1 DEF Insert, Answer, ReadBack
    <3>2. \A o \in Requests : Doing(o, "inserted")' =>
              Doing(o, "inserted") /\ request'[o].hash = request[o].hash
      BY <1>0, <1>7, <2>1 DEF Insert, Ends, Moves, Doing, TypeOK
    <3> QED
      BY <1>1, <1>7, <3>1, <3>2 DEF Insert
  <2>2. CASE assets[f] = None
    <3>1. UNCHANGED <<assets, answers>>
      BY <1>7, <2>2 DEF Insert
    <3>2. request'[r].hash = f /\ \A o \in Requests \ {r} : request'[o] = request[o]
      BY <1>0, <1>7, <2>2 DEF Insert, Moves, TypeOK
    <3>3. \A o \in Requests : Doing(o, "inserted") => request[o].hash # f
      BY <1>7 DEF Insert
    <3>4. InsertsAreAlone'
      BY <2>2, <3>1, <3>2, <3>3 DEF AnswerInv, InsertsAreAlone, Doing
    <3> QED
      BY <1>0, <3>1, <3>4 DEF AnswerInv, Answered
  <2> QED
    BY <2>1, <2>2
<1>8. ASSUME NEW r \in Requests, CommitAsset(r) PROVE AnswerInv'
  <2> DEFINE w == request[r]
  <2>1. w.hash \in Files /\ w.bytes \in Storable /\ w.id \in 1 .. MaxId /\ Doing(r, "inserted")
    BY <1>0, <1>8, WorkFields DEF CommitAsset, Doing
  <2>2. assets[w.hash] = None /\ answers[w.hash] = {}
    BY <2>1 DEF AnswerInv, Answered, InsertsAreAlone
  <2>3. /\ assets'[w.hash] = [id |-> w.id, bytes |-> w.bytes] /\ answers'[w.hash] = {w.id}
        /\ \A g \in Files \ {w.hash} : assets'[g] = assets[g] /\ answers'[g] = answers[g]
    BY <1>0, <1>8, <2>1, <2>2 DEF CommitAsset, Answer, TypeOK
  <2>4. assets'[w.hash] # None
    <3>1. w.id \in Nat /\ w.bytes \in Nat
      BY <2>1, AssetsAssumption DEF Storable, Sizes
    <3> QED
      BY <2>3, <3>1, NoneAssumption
  <2>5. Answered'
    BY <2>3, <2>4 DEF AnswerInv, Answered
  <2>6. \A o \in Requests : Doing(o, "inserted")' =>
            o # r /\ Doing(o, "inserted") /\ request'[o] = request[o]
    BY <1>0, <1>8 DEF CommitAsset, Ends, Moves, Doing, TypeOK
  <2>7. ASSUME NEW o \in Requests, Doing(o, "inserted")'
        PROVE  request'[o].hash \in Files \ {w.hash} /\ assets[request'[o].hash] = None
    BY <1>0, <2>1, <2>6, <2>7, WorkFields DEF AnswerInv, InsertsAreAlone, Doing
  <2>8. InsertsAreAlone'
    BY <2>3, <2>6, <2>7 DEF AnswerInv, InsertsAreAlone
  <2> QED
    BY <1>0, <2>5, <2>8 DEF AnswerInv
<1>9. ASSUME NEW r \in Requests, NEW p \in Links, Attach(r, p) PROVE AnswerInv'
  BY <1>2, <1>9 DEF Attach
<1>10. ASSUME NEW r \in Requests, Link(r) \/ CommitLink(r) \/ Fail(r) PROVE AnswerInv'
  BY <1>2, <1>10 DEF Link, CommitLink, Fail, Ends
<1>11. ASSUME NEW p \in policies, NEW file \in Files, Upload(p, file) PROVE AnswerInv'
  <2>1. ASSUME NEW r \in Requests, Doing(r, "inserted")'
        PROVE  Doing(r, "inserted") /\ request'[r].hash = request[r].hash
    <3>1. request[r] # None
      BY <1>11, <2>1 DEF Upload, Doing
    <3>2. request[r] \in Work
      BY <1>0, <3>1, WorkFields
    <3>3. request'[r] = request[r] \/ request'[r] = [request[r] EXCEPT !.swapped = TRUE]
      BY <1>11 DEF Upload
    <3> QED
      BY <2>1, <3>1, <3>2, <3>3 DEF Doing, Work
  <2> QED
    BY <1>1, <1>11, <2>1 DEF Upload, AnswerInv, Answered
<1>12. ASSUME NEW p \in Links, Detach(p) PROVE AnswerInv'
  <2>1. ASSUME NEW o \in Requests, Doing(o, "inserted")' PROVE request'[o] = request[o]
    <3>1. CASE ~Doing(o, "linked")
      BY <1>0, <1>12, <3>1, DetachLeaves
    <3>2. CASE Doing(o, "linked")
      <4>1. request'[o].stage = "linked"
        BY <1>0, <1>12, <3>2, DetachLeaves
      <4> QED
        BY <2>1, <4>1 DEF Doing
    <3> QED
      BY <3>1, <3>2
  <2> QED
    BY <1>1, <1>12, <2>1 DEF Detach, AnswerInv, Answered, Doing
<1>13. ASSUME UNCHANGED <<assets, answers, request>> PROVE AnswerInv'
  BY <1>1, <1>13 DEF AnswerInv, Answered, Doing
<1> QED
  BY <1>4, <1>5, <1>6, <1>7, <1>8, <1>9, <1>10, <1>11, <1>12, <1>13
  DEF Next, Presign, DeleteKey, vars

\* However many confirm the same bytes at once, all who are answered get the same
\* asset.
THEOREM ConfirmIsIdempotent == Spec => []OneAnswer
<1>1. Init => AnswerInv
  BY TypeInit DEF Init, AnswerInv, Answered, InsertsAreAlone, Doing
<1>2. ASSUME AnswerInv PROVE OneAnswer
  <2> SUFFICES ASSUME NEW f \in Files PROVE Cardinality(answers[f]) <= 1
    BY DEF OneAnswer
  <2>1. CASE answers[f] = {}
    BY <2>1, FS_EmptySet
  <2>2. CASE answers[f] # {}
    <3>1. answers[f] = {assets[f].id}
      BY <1>2, <2>2 DEF AnswerInv, Answered
    <3>2. Cardinality({assets[f].id}) = 1
      BY FS_Singleton
    <3> QED
      BY <3>1, <3>2
  <2> QED
    BY <2>1, <2>2
<1> QED
  BY <1>1, <1>2, AnswerStep, PTL DEF Spec
-----------------------------------------------------------------------------
(* RowsAreGenuine.                                                         *)

\* What Stat and Read have found out still holds of the object, unless it was
\* replaced since.
Checked ==
    \A r \in Requests :
        /\ request[r] # None /\ request[r].stage \in {"stat", "verified", "inserted"}
        /\ ~request[r].swapped
        => LET f == request[r].hash
           IN /\ request[r].bytes = Size(objects[f].file)
              /\ request[r].stage # "stat" => objects[f].file = f

CheckedInv == TypeOK /\ Checked

LEMMA CheckedStep == CheckedInv /\ [Next]_vars => CheckedInv'
<1> SUFFICES ASSUME CheckedInv, [Next]_vars PROVE Checked'
  BY TypeStep DEF CheckedInv
<1>0. TypeOK
  BY DEF CheckedInv
<1>1. ASSUME UNCHANGED objects, NEW r \in Requests, NEW w, Moves(r, w),
             w # None /\ w.stage \in {"stat", "verified", "inserted"} /\ ~w.swapped =>
                 /\ w.bytes = Size(objects[w.hash].file)
                 /\ w.stage # "stat" => objects[w.hash].file = w.hash
      PROVE  Checked'
  <2>1. request'[r] = w /\ \A o \in Requests \ {r} : request'[o] = request[o]
    BY <1>0, <1>1 DEF Moves, TypeOK
  <2> QED
    BY <1>1, <2>1 DEF CheckedInv, Checked
<1>2. ASSUME UNCHANGED <<objects, request>> PROVE Checked'
  BY <1>2 DEF CheckedInv, Checked
<1>3. ASSUME NEW r \in Requests, NEW f \in Files, Confirm(r, f) PROVE Checked'
  BY <1>1, <1>2, <1>3 DEF Confirm
<1>4. ASSUME NEW r \in Requests, Stat(r) PROVE Checked'
  <2> DEFINE w == [stage |-> "stat", hash |-> request[r].hash,
                   bytes |-> Size(objects[request[r].hash].file), swapped |-> FALSE]
  <2>1. UNCHANGED objects /\ (Moves(r, w) \/ Moves(r, None))
    BY <1>4 DEF Stat, Ends
  <2>2. w.stage = "stat" /\ w.bytes = Size(objects[w.hash].file)
    OBVIOUS
  <2> HIDE DEF w
  <2> QED
    BY <1>1, <2>1, <2>2
<1>5. ASSUME NEW r \in Requests, Read(r) PROVE Checked'
  <2> DEFINE f == request[r].hash
             w == [request[r] EXCEPT !.stage = "verified"]
  <2>1. request[r] \in Work /\ request[r] # None /\ request[r].stage = "stat"
    BY <1>0, <1>5, WorkFields DEF Read, Doing
  <2>2. /\ w.stage = "verified" /\ w.hash = f /\ w.bytes = request[r].bytes
        /\ w.swapped = request[r].swapped
    BY <2>1 DEF Work
  <2>3. ~w.swapped => w.bytes = Size(objects[f].file)
    BY <2>1, <2>2 DEF CheckedInv, Checked
  <2>4. UNCHANGED objects /\ ((Moves(r, w) /\ objects[f].file = f) \/ Moves(r, None))
    BY <1>5 DEF Read, Ends, Genuine
  <2> HIDE DEF w
  <2> QED
    BY <1>1, <2>2, <2>3, <2>4
<1>6. ASSUME NEW r \in Requests, Insert(r) PROVE Checked'
  <2> DEFINE f == request[r].hash
             w == [stage |-> "inserted", hash |-> f, id |-> lastId', bytes |-> request[r].bytes,
                   swapped |-> request[r].swapped]
  <2>1. request[r] # None /\ request[r].stage = "verified"
    BY <1>6 DEF Insert, Doing
  <2>2. ~w.swapped => w.bytes = Size(objects[w.hash].file) /\ objects[w.hash].file = w.hash
    BY <2>1 DEF CheckedInv, Checked
  <2>3. UNCHANGED objects /\ (Moves(r, w) \/ Moves(r, None))
    BY <1>6 DEF Insert, Ends
  <2> HIDE DEF w
  <2> QED
    BY <1>1, <2>2, <2>3
<1>7. ASSUME NEW r \in Requests, NEW p \in Links, Attach(r, p) PROVE Checked'
  BY <1>1, <1>7 DEF Attach
<1>8. ASSUME NEW r \in Requests, Link(r) PROVE Checked'
  BY <1>1, <1>8 DEF Link
<1>9. ASSUME NEW r \in Requests, CommitAsset(r) \/ CommitLink(r) \/ Fail(r) PROVE Checked'
  BY <1>1, <1>9 DEF CommitAsset, CommitLink, Fail, Ends
<1>10. ASSUME NEW p \in policies, NEW file \in Files, Upload(p, file) PROVE Checked'
  <2>0. p.hash \in Files
    BY <1>0 DEF TypeOK, Policies
  <2>1. ASSUME NEW r \in Requests, request'[r] # None,
               request'[r].stage \in {"stat", "verified", "inserted"}, ~request'[r].swapped
        PROVE  request'[r] = request[r] /\ request[r].hash # p.hash
    <3>1. CASE /\ request[r] # None /\ request[r].stage \in {"stat", "verified", "inserted"}
               /\ request[r].hash = p.hash
      <4>1. request'[r] = [request[r] EXCEPT !.swapped = TRUE]
        BY <1>10, <3>1 DEF Upload
      <4>2. request[r] \in Work
        BY <1>0, <3>1, WorkFields
      <4>3. request'[r].swapped
        BY <3>1, <4>1, <4>2 DEF Work
      <4> QED
        BY <2>1, <4>3
    <3>2. CASE ~(/\ request[r] # None /\ request[r].stage \in {"stat", "verified", "inserted"}
                 /\ request[r].hash = p.hash)
      BY <1>10, <2>1, <3>2 DEF Upload
    <3> QED
      BY <3>1, <3>2
  <2>2. \A f \in Files \ {p.hash} : objects'[f] = objects[f]
    BY <1>0, <1>10 DEF Upload, TypeOK
  <2>3. ASSUME NEW r \in Requests, request'[r] # None,
               request'[r].stage \in {"stat", "verified", "inserted"}, ~request'[r].swapped
        PROVE  objects'[request'[r].hash] = objects[request[r].hash]
    BY <1>0, <2>1, <2>2, <2>3, WorkFields
  <2> QED
    BY <2>1, <2>3 DEF CheckedInv, Checked
<1>11. ASSUME NEW p \in Links, Detach(p) PROVE Checked'
  <2>1. ASSUME NEW o \in Requests, request'[o] # None, request'[o].stage # "linked"
        PROVE  request'[o] = request[o]
    BY <1>0, <1>11, <2>1, DetachLeaves
  <2>2. UNCHANGED objects
    BY <1>11 DEF Detach
  <2> QED
    BY <2>1, <2>2 DEF CheckedInv, Checked
<1>12. CASE UNCHANGED <<objects, request>>
  BY <1>2, <1>12
<1> QED
  BY <1>3, <1>4, <1>5, <1>6, <1>7, <1>8, <1>9, <1>10, <1>11, <1>12
  DEF Next, Presign, DeleteKey, vars

\* No row is made of bytes that were not read and hashed, or with another size.
THEOREM RowsAreOfTheirBytes == Spec => RowsAreGenuine
<1>1. Init => CheckedInv
  BY TypeInit DEF Init, CheckedInv, Checked
<1>2. ASSUME CheckedInv, NEW r \in Requests, CommitAsset(r), ~request[r].swapped
      PROVE  /\ objects[request[r].hash].file = request[r].hash
             /\ assets'[request[r].hash].bytes = Size(request[r].hash)
  <2>1. request[r] # None /\ request[r].stage = "inserted" /\ request[r].hash \in Files
    BY <1>2, WorkFields DEF CheckedInv, CommitAsset, Doing
  <2>2. assets'[request[r].hash].bytes = request[r].bytes
    BY <1>2, <2>1 DEF CheckedInv, CommitAsset, TypeOK
  <2> QED
    BY <1>2, <2>1, <2>2 DEF CheckedInv, Checked
<1>3. CheckedInv /\ [Next]_vars =>
          [\A r \in Requests : CommitAsset(r) /\ ~request[r].swapped =>
               objects[request[r].hash].file = request[r].hash
               /\ assets'[request[r].hash].bytes = Size(request[r].hash)]_vars
  BY <1>2
<1> QED
  BY <1>1, <1>3, CheckedStep, PTL DEF Spec, RowsAreGenuine
-----------------------------------------------------------------------------
(* ShownInOrder.                                                           *)

\* A link that is not committed yet comes after all that it found, and nobody
\* else is inserting it.
Placed ==
    \A r \in Requests : Doing(r, "linked") =>
        LET w == request[r]
        IN /\ links[w.link] # None => w.after = {} /\ links[w.link] = w.order
           /\ \A q \in w.after : links[q] < w.order
           /\ \A o \in Requests \ {r} : Doing(o, "linked") => request[o].link # w.link

OrderInv == TypeOK /\ Placed /\ ShownInOrder

LEMMA OrderStep == OrderInv /\ [Next]_vars => OrderInv'
<1> SUFFICES ASSUME OrderInv, [Next]_vars PROVE Placed' /\ ShownInOrder'
  BY TypeStep DEF OrderInv
<1>0. TypeOK
  BY DEF OrderInv
<1>1. ASSUME UNCHANGED <<links, later>>,
             \A r \in Requests : Doing(r, "linked")' =>
                 Doing(r, "linked") /\ request'[r] = request[r]
      PROVE  Placed' /\ ShownInOrder'
  BY <1>1 DEF OrderInv, Placed, ShownInOrder
<1>2. ASSUME UNCHANGED <<links, later>>, NEW r \in Requests, NEW w, Moves(r, w),
             w # None => w.stage # "linked"
      PROVE  Placed' /\ ShownInOrder'
  <2>1. \A o \in Requests : Doing(o, "linked")' =>
            Doing(o, "linked") /\ request'[o] = request[o]
    BY <1>0, <1>2 DEF Moves, Doing, TypeOK
  <2> QED
    BY <1>1, <1>2, <2>1
<1>3. ASSUME NEW r \in Requests, NEW f \in Files, Confirm(r, f) PROVE Placed' /\ ShownInOrder'
  BY <1>1, <1>2, <1>3 DEF Confirm, Doing
<1>4. ASSUME NEW r \in Requests, Stat(r) PROVE Placed' /\ ShownInOrder'
  BY <1>2, <1>4 DEF Stat, Ends
<1>5. ASSUME NEW r \in Requests, Read(r) PROVE Placed' /\ ShownInOrder'
  <2>1. [request[r] EXCEPT !.stage = "verified"].stage # "linked"
    BY <1>0, <1>5, WorkFields DEF Read, Doing, Work
  <2> QED
    BY <1>2, <1>5, <2>1 DEF Read, Ends
<1>6. ASSUME NEW r \in Requests, Insert(r) PROVE Placed' /\ ShownInOrder'
  BY <1>2, <1>6 DEF Insert, Ends
<1>7. ASSUME NEW r \in Requests, CommitAsset(r) \/ Fail(r) PROVE Placed' /\ ShownInOrder'
  BY <1>2, <1>7 DEF CommitAsset, Fail, Ends
<1>8. ASSUME NEW r \in Requests, NEW p \in Links, Attach(r, p) PROVE Placed' /\ ShownInOrder'
  BY <1>2, <1>8 DEF Attach
<1>9. ASSUME NEW r \in Requests, Link(r) PROVE Placed' /\ ShownInOrder'
  <2> DEFINE p == request[r].link
             order == IF links[p] # None THEN links[p] ELSE NextOrder(p[1])
             after == IF links[p] # None THEN {} ELSE OfKey(p[1])
             w == [stage |-> "linked", link |-> p, order |-> order, after |-> after]
  <2>1. /\ ~HeldByAnother(r, p) /\ Moves(r, w)
        /\ \A q \in after : links[q] < order
    BY <1>0, <1>9, LinkDecides
  <2>2. links[p] # None => after = {} /\ links[p] = order
    OBVIOUS
  <2>3. w.stage = "linked" /\ w.link = p /\ w.order = order /\ w.after = after
    OBVIOUS
  <2>4. UNCHANGED <<links, later>> /\ ~Doing(r, "linked")
    BY <1>9 DEF Link, Doing
  <2> HIDE DEF w, order, after
  <2>5. request'[r] = w /\ \A o \in Requests \ {r} : request'[o] = request[o]
    BY <1>0, <2>1 DEF Moves, TypeOK
  <2>6. Placed'
    BY <2>1, <2>2, <2>3, <2>4, <2>5 DEF OrderInv, Placed, HeldByAnother, Doing
  <2> QED
    BY <2>4, <2>6 DEF OrderInv, ShownInOrder
<1>10. ASSUME NEW r \in Requests, CommitLink(r) PROVE Placed' /\ ShownInOrder'
  <2> DEFINE w == request[r]
             l == w.link
  <2>1. /\ l \in Links /\ w.order \in 0 .. MaxOrder /\ w.after \subseteq Attached
        /\ links' = [links EXCEPT ![l] = w.order]
        /\ \A o \in Requests : Doing(o, "linked")' =>
               o # r /\ Doing(o, "linked") /\ request'[o] = request[o]
    BY <1>0, <1>10, CommitLinkAttaches
  <2>2. Doing(r, "linked") /\ later' = later \cup {<<l, q>> : q \in w.after}
    BY <1>10 DEF CommitLink
  <2>3. links'[l] = w.order /\ \A q \in Links \ {l} : links'[q] = links[q]
    BY <1>0, <2>1 DEF TypeOK
  <2>4. CASE links[l] # None
    <3>1. links' = links /\ later' = later
      BY <1>0, <2>1, <2>2, <2>4 DEF OrderInv, Placed, TypeOK
    <3> QED
      BY <1>1, <2>1, <3>1
  <2>5. CASE links[l] = None
    <3>1. l \notin Attached /\ Attached \subseteq Links \ {l}
      BY <2>5 DEF Attached
    <3>2. \A q \in Attached : links'[q] = links[q]
      BY <2>3, <3>1
    <3>3. \A q \in w.after : links'[q] < w.order
      BY <2>1, <2>2, <3>2 DEF OrderInv, Placed
    <3>4. ShownInOrder'
      <4> SUFFICES ASSUME NEW q \in later' PROVE links'[q[1]] > links'[q[2]]
        BY DEF ShownInOrder
      <4>1. CASE q \in later
        <5>1. q[1] \in Attached /\ q[2] \in Attached /\ links[q[1]] > links[q[2]]
          BY <1>0, <4>1 DEF OrderInv, ShownInOrder, TypeOK
        <5> QED
          BY <3>2, <5>1
      <4>2. CASE q \notin later
        <5>1. PICK a \in w.after : q = <<l, a>>
          BY <2>2, <4>2
        <5>2. links'[a] < w.order /\ a \in Attached
          BY <2>1, <3>3, <5>1
        <5>3. links[a] \in Int /\ w.order \in Int
          BY <1>0, <2>1, <5>2, AssetsAssumption DEF TypeOK, Attached
        <5> QED
          BY <2>3, <3>2, <5>1, <5>2, <5>3
      <4> QED
        BY <4>1, <4>2
    <3>5. ASSUME NEW o \in Requests, Doing(o, "linked")'
          PROVE  /\ request'[o] = request[o] /\ links'[request[o].link] = links[request[o].link]
                 /\ \A q \in request[o].after : links'[q] = links[q]
      <4>1. o # r /\ Doing(o, "linked") /\ request'[o] = request[o]
        BY <2>1, <3>5
      <4>2. request[o].link \in Links \ {l}
        BY <1>0, <2>2, <4>1, WorkFields DEF OrderInv, Placed, Doing
      <4>3. request[o].after \subseteq Attached
        BY <1>0, <4>1 DEF TypeOK
      <4> QED
        BY <2>3, <3>2, <4>1, <4>2, <4>3
    <3>6. Placed'
      BY <2>1, <3>5 DEF OrderInv, Placed
    <3> QED
      BY <3>4, <3>6
  <2> QED
    BY <2>4, <2>5
<1>11. ASSUME NEW p \in policies, NEW file \in Files, Upload(p, file)
       PROVE  Placed' /\ ShownInOrder'
  <2>1. ASSUME NEW r \in Requests, Doing(r, "linked")'
        PROVE  Doing(r, "linked") /\ request'[r] = request[r]
    <3>1. CASE request[r] # None /\ request[r].stage \in {"stat", "verified", "inserted"}
      <4>1. request[r] \in Work
        BY <1>0, <3>1, WorkFields
      <4>2. request'[r] = request[r] \/ request'[r] = [request[r] EXCEPT !.swapped = TRUE]
        BY <1>11 DEF Upload
      <4> QED
        BY <2>1, <3>1, <4>1, <4>2 DEF Doing, Work
    <3>2. CASE ~(request[r] # None /\ request[r].stage \in {"stat", "verified", "inserted"})
      BY <1>11, <2>1, <3>2 DEF Upload, Doing
    <3> QED
      BY <3>1, <3>2
  <2> QED
    BY <1>1, <1>11, <2>1 DEF Upload
<1>12. ASSUME NEW p \in Links, Detach(p) PROVE Placed' /\ ShownInOrder'
  <2>1. ShownInOrder'
    <3> SUFFICES ASSUME NEW q \in later' PROVE links'[q[1]] > links'[q[2]]
      BY DEF ShownInOrder
    <3>1. q \in later /\ q[1] # p /\ q[2] # p
      BY <1>12 DEF Detach
    <3>2. q[1] \in Links \ {p} /\ q[2] \in Links \ {p} /\ links[q[1]] > links[q[2]]
      BY <1>0, <3>1 DEF OrderInv, ShownInOrder, TypeOK, Attached
    <3> QED
      BY <1>0, <1>12, <3>2, DetachLeaves
  <2>2. ASSUME NEW o \in Requests, Doing(o, "linked")'
        PROVE  /\ Doing(o, "linked")
               /\ request'[o].link = request[o].link /\ request[o].link \in Links \ {p}
               /\ request'[o].order = request[o].order
               /\ request'[o].after = request[o].after \ {p}
               /\ request[o].after \subseteq Links
    <3>1. Doing(o, "linked")
      <4>1. ~Doing(o, "linked") => request'[o] = request[o]
        BY <1>0, <1>12, DetachLeaves
      <4> QED
        BY <2>2, <4>1 DEF Doing
    <3>2. request[o].link \in Links /\ request[o].after \subseteq Links
      BY <1>0, <3>1, WorkFields DEF Doing
    <3> QED
      BY <1>0, <1>12, <3>1, <3>2, DetachLeaves
  <2>3. \A q \in Links \ {p} : links'[q] = links[q]
    BY <1>0, <1>12, DetachLeaves
  <2>4. ASSUME NEW o \in Requests, Doing(o, "linked")'
        PROVE  /\ links'[request'[o].link] # None =>
                      request'[o].after = {} /\ links'[request'[o].link] = request'[o].order
               /\ \A q \in request'[o].after : links'[q] < request'[o].order
    <3>1. /\ links[request[o].link] # None =>
                request[o].after = {} /\ links[request[o].link] = request[o].order
          /\ \A q \in request[o].after : links[q] < request[o].order
      BY <2>2, <2>4 DEF OrderInv, Placed
    <3> QED
      BY <2>2, <2>3, <2>4, <3>1
  <2>5. \A r, o \in Requests : r # o /\ Doing(r, "linked")' /\ Doing(o, "linked")' =>
            request'[o].link # request'[r].link
    BY <2>2 DEF OrderInv, Placed
  <2>6. Placed'
    BY <2>4, <2>5 DEF Placed
  <2> QED
    BY <2>1, <2>6
<1>13. CASE UNCHANGED <<links, later, request>>
  BY <1>1, <1>13 DEF Doing
<1> QED
  BY <1>3, <1>4, <1>5, <1>6, <1>7, <1>8, <1>9, <1>10, <1>11, <1>12, <1>13
  DEF Next, Presign, DeleteKey, vars

\* A screenshot attached after others is shown after them, whatever was detached
\* in between.
THEOREM AttachmentOrder == Spec => []ShownInOrder
<1>1. Init => OrderInv
  BY TypeInit DEF Init, OrderInv, Placed, ShownInOrder, Doing
<1>2. OrderInv => ShownInOrder
  BY DEF OrderInv
<1> QED
  BY <1>1, <1>2, OrderStep, PTL DEF Spec
=============================================================================
