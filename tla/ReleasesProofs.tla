--------------------------- MODULE ReleasesProofs ---------------------------
(***************************************************************************)
(* Theorems about Releases, for any sessions, locales, apps, floors and    *)
(* any number of releases.                                                 *)
(***************************************************************************)
EXTENDS Releases, FiniteSetTheorems, WellFoundedInduction, TLAPS

USE HomeAssumption, FloorsAssumption, MaxReleasesAssumption, NoneAssumption

(***************************************************************************)
(* Type correctness.                                                       *)
(***************************************************************************)
LEMMA NothingType == Nothing \in Strings
BY DEF Nothing, Strings

LEMMA IdleType == Idle \in Cut
BY NothingType DEF Idle, Cut

LEMMA TypeInit == Init => TypeOK
<1> SUFFICES ASSUME Init PROVE TypeOK
    OBVIOUS
<1>1. cut \in [Sessions -> Cut]
  BY IdleType DEF Init
<1>2. client \in [Clients -> Client]
  BY DEF Init, Client
<1>3. DOMAIN releases = {}
  BY DEF Init
<1>4. master \in [Locales -> Texts] /\ archived \in SUBSET Locales
  BY DEF Init
<1> QED
  BY <1>1, <1>2, <1>3, <1>4 DEF TypeOK

\* What the steps of a cut make of its record.
LEMMA BecomesType ==
    ASSUME TypeOK, NEW s \in Sessions, NEW t \in Cut, Becomes(s, t)
    PROVE  /\ cut' \in [Sessions -> Cut] /\ cut'[s] = t
           /\ \A p \in Sessions \ {s} : cut'[p] = cut[p]
BY DEF TypeOK, Becomes

LEMMA AtType ==
    ASSUME NEW t \in Cut, NEW step \in {"idle", "allocate", "insert", "list", "read"}
    PROVE  [t EXCEPT !.at = step] \in Cut
BY DEF Cut

LEMMA AnswerType ==
    ASSUME TypeOK, NEW c \in Clients, NEW text \in Texts \cup {None}, Answer(c, text)
    PROVE  /\ client' \in [Clients -> Client]
           /\ client'[c] = [at |-> "idle", cache |-> text, known |-> {}, withheld |-> {}]
           /\ \A d \in Clients \ {c} : client'[d] = client[d]
<1>1. [at |-> "idle", cache |-> text, known |-> {}, withheld |-> {}] \in Client
  BY DEF Client
<1> QED
  BY <1>1 DEF TypeOK, Answer

(***************************************************************************)
(* The order of the versions.  They are 1 .. n, so that Latest is n; a     *)
(* transaction whose row is in the index has the number n + 1, and it is   *)
(* the only one; and whoever has still to insert has a number that is not  *)
(* beyond n + 1.  TypeOK rests on the first of these, as Latest is a       *)
(* CHOOSE: the two are invariant together.                                 *)
(***************************************************************************)
Sequential == \E n \in Nat : Versions = 1 .. n

NumbersFollow ==
    \A s \in Sessions :
        /\ At(s, "insert") => cut[s].version \in 1 .. Latest + 1
        /\ Inserted(s) => cut[s].version = Latest + 1

OneInserted == \A s, p \in Sessions : Inserted(s) /\ Inserted(p) => s = p

OrderInv == TypeOK /\ Sequential /\ NumbersFollow /\ OneInserted

Typed == TypeOK /\ Latest \in Nat

LEMMA LastOf ==
    ASSUME NEW n \in Nat, NEW V, V = 1 .. n
    PROVE  n = IF V = {} THEN 0 ELSE CHOOSE v \in V : \A w \in V : w <= v
<1>1. CASE n = 0
  BY <1>1
<1>2. CASE n # 0
  <2>1. n \in V /\ \A w \in V : w <= n
    BY <1>2
  <2>2. \A v \in V : (\A w \in V : w <= v) => v = n
    BY <2>1
  <2> QED
    BY <2>1, <2>2
<1> QED
  BY <1>1, <1>2

LEMMA LatestIs ==
    /\ \A n \in Nat : Versions = 1 .. n => Latest = n
    /\ \A n \in Nat : Versions' = 1 .. n => Latest' = n
<1>1. ASSUME NEW n \in Nat, Versions = 1 .. n PROVE Latest = n
  BY <1>1, LastOf DEF Latest
<1>2. ASSUME NEW n \in Nat, Versions' = 1 .. n PROVE Latest' = n
  BY <1>2, LastOf DEF Latest
<1> QED
  BY <1>1, <1>2

LEMMA LatestLast ==
    ASSUME Sequential
    PROVE  Latest \in Nat /\ Versions = 1 .. Latest
BY LatestIs DEF Sequential

LEMMA OrderTypes ==
    ASSUME OrderInv
    PROVE  Typed
BY LatestLast DEF OrderInv, Typed

\* A set of versions has a largest one: the least of those no member exceeds.
LEMMA LargestExists ==
    ASSUME NEW n \in Nat, NEW S \in SUBSET (1 .. n), S # {}
    PROVE  \E v \in S : \A w \in S : w <= v
<1> DEFINE Above == {u \in Nat : \A w \in S : w <= u}
           R == {ss \in Nat \X Nat : ss[1] < ss[2]}
<1>1. IsWellFoundedOn(R, Nat)
  BY NatLessThanWellFounded DEF OpToRel
<1>2. \A w \in S : w \in Nat /\ 0 < w /\ w <= n
  OBVIOUS
<1>3. n \in Above
  BY <1>2
<1>4. PICK u \in Above : \A y \in Above : ~(<<y, u>> \in R)
  <2>1. Above \subseteq Nat /\ Above # {}
    BY <1>3
  <2> HIDE DEF R, Above
  <2> QED
    BY <1>1, <2>1, WFMin
<1>5. u \in Nat /\ \A w \in S : w <= u
  OBVIOUS
<1>6. \A y \in Above : ~(y < u)
  BY <1>4, <1>5
<1>7. u \in S
  <2>1. SUFFICES ASSUME u \notin S PROVE FALSE
    OBVIOUS
  <2>2. \A w \in S : w \in Nat /\ 0 < w /\ w < u
    BY <1>2, <1>5, <2>1
  <2>3. u - 1 \in Nat
    <3>1. PICK w \in S : TRUE
      OBVIOUS
    <3>2. w \in Nat /\ 0 < w /\ w < u
      BY <2>2, <3>1
    <3> QED
      BY <1>5, <3>2
  <2>4. \A w \in S : w <= u - 1
    BY <1>5, <2>2
  <2> QED
    BY <1>5, <1>6, <2>3, <2>4
<1> QED
  BY <1>5, <1>7

LEMMA NewestExists ==
    ASSUME Sequential, NEW S \in SUBSET Versions, S # {}
    PROVE  \E v \in S : \A w \in S : w <= v
<1>1. PICK n \in Nat : Versions = 1 .. n
  BY DEF Sequential
<1>2. S \in SUBSET (1 .. n)
  BY <1>1
<1> QED
  BY <1>2, LargestExists

LEMMA AnswerCache ==
    ASSUME TypeOK, NEW c \in Clients, NEW text, Answer(c, text)
    PROVE  client'[c].cache = text
BY DEF TypeOK, Answer

LEMMA TypeBegin ==
    ASSUME TypeOK, NEW s \in Sessions, BeginPublish(s) \/ BeginMerge(s)
    PROVE  TypeOK'
<1>1. ASSUME NEW f \in Floors, Becomes(s, [Idle EXCEPT !.at = "allocate", !.floor = f]),
             UNCHANGED <<master, archived, releases, client>>
      PROVE  TypeOK'
  <2>1. [Idle EXCEPT !.at = "allocate", !.floor = f] \in Cut
    BY IdleType DEF Cut
  <2> QED
    BY <1>1, <2>1, BecomesType DEF TypeOK
<1>2. ASSUME NEW l \in Locales, NEW t \in Texts,
             Becomes(s, [Idle EXCEPT !.at = "allocate", !.source = "merge",
                                     !.wrote = [Nothing EXCEPT ![l] = t]]),
             UNCHANGED <<master, archived, releases, client>>
      PROVE  TypeOK'
  <2>1. [Nothing EXCEPT ![l] = t] \in Strings
    BY NothingType DEF Strings
  <2>2. [Idle EXCEPT !.at = "allocate", !.source = "merge",
                     !.wrote = [Nothing EXCEPT ![l] = t]] \in Cut
    BY IdleType, <2>1 DEF Cut
  <2> QED
    BY <1>2, <2>2, BecomesType DEF TypeOK
<1> QED
  BY <1>1, <1>2 DEF BeginPublish, BeginMerge

LEMMA TypeCut ==
    ASSUME Typed, NEW s \in Sessions,
           Allocate(s) \/ Insert(s) \/ ListLocales(s) \/ Materialise(s) \/ Abort(s)
    PROVE  TypeOK'
<1>1. cut[s] \in Cut /\ Latest \in Nat
  BY DEF Typed, TypeOK
<1>2. SUFFICES \E t \in Cut : Becomes(s, t) /\ UNCHANGED <<master, archived, releases, client>>
  BY BecomesType DEF Typed, TypeOK
<1>3. CASE Allocate(s)
  <2>1. NextVersion(s) \in Nat
    BY <1>1 DEF NextVersion
  <2>2. [cut[s] EXCEPT !.at = "insert", !.version = NextVersion(s)] \in Cut
    BY <1>1, <2>1 DEF Cut
  <2> QED
    BY <1>3, <2>2 DEF Allocate
<1>4. CASE Insert(s)
  BY <1>1, <1>4, IdleType, AtType DEF Insert, GoTo
<1>5. CASE ListLocales(s)
  <2>1. [cut[s] EXCEPT !.at = "read", !.todo = Locales \ archived] \in Cut
    BY <1>1 DEF Cut
  <2> QED
    BY <1>5, <2>1 DEF ListLocales
<1>6. CASE Materialise(s)
  <2>1. PICK l \in cut[s].todo :
            /\ Becomes(s, [cut[s] EXCEPT !.bundle[l] = View(s, l), !.todo = @ \ {l}])
            /\ UNCHANGED <<master, archived, releases, client>>
    BY <1>6 DEF Materialise
  <2>2. l \in Locales /\ View(s, l) \in Texts \cup {None}
    BY <1>1 DEF Cut, Strings, View, Typed, TypeOK
  <2>3. [cut[s].bundle EXCEPT ![l] = View(s, l)] \in Strings
    BY <1>1, <2>2 DEF Cut, Strings
  <2>4. [cut[s] EXCEPT !.bundle[l] = View(s, l), !.todo = @ \ {l}] \in Cut
    BY <1>1, <2>2, <2>3 DEF Cut
  <2> QED
    BY <2>1, <2>4
<1>7. CASE Abort(s)
  BY <1>7, IdleType DEF Abort
<1> QED
  BY <1>3, <1>4, <1>5, <1>6, <1>7

LEMMA TypeCommit ==
    ASSUME TypeOK, NEW s \in Sessions, Commit(s)
    PROVE  TypeOK'
<1>1. cut[s] \in Cut
  BY DEF TypeOK
<1>2. cut[s].version \in Nat /\ cut[s].floor \in Floors /\ cut[s].bundle \in Strings
      /\ cut[s].wrote \in Strings
  BY <1>1 DEF Cut
<1>3. Finished(s) \in Release
  BY <1>2 DEF Finished, Release
<1>4. DOMAIN releases' = Versions \cup {cut[s].version}
  BY DEF Commit
<1>5. \A v \in DOMAIN releases' : releases'[v] \in Release
  BY <1>3 DEF Commit, TypeOK, Versions
<1>6. master' \in [Locales -> Texts]
  BY <1>2 DEF Commit, TypeOK, View, Strings
<1>7. cut' \in [Sessions -> Cut]
  BY IdleType, BecomesType DEF Commit
<1> QED
  BY <1>2, <1>4, <1>5, <1>6, <1>7 DEF Commit, TypeOK, Versions

LEMMA TypeElse ==
    ASSUME TypeOK,
           \/ \E l \in Locales : Edit(l) \/ ArchiveLocale(l) \/ ActivateLocale(l)
           \/ \E v \in Versions : Rollback(v)
    PROVE  TypeOK'
<1>1. CASE \E l \in Locales : Edit(l) \/ ArchiveLocale(l) \/ ActivateLocale(l)
  BY <1>1 DEF TypeOK, Edit, ArchiveLocale, ActivateLocale
<1>2. ASSUME NEW v \in Versions, Rollback(v)
      PROVE  TypeOK'
  <2>1. PICK a \in Actors : releases' = [releases EXCEPT ![v].rolled_back_by = a]
    BY <1>2 DEF Rollback
  <2>2. \A w \in Versions : releases[w] \in Release
    BY DEF TypeOK, Versions
  <2>3. [releases[v] EXCEPT !.rolled_back_by = a] \in Release
    BY <2>2 DEF Release
  <2>4. DOMAIN releases' = DOMAIN releases
    BY <2>1
  <2>5. \A w \in DOMAIN releases' : releases'[w] \in Release
    BY <2>1, <2>2, <2>3 DEF Versions
  <2> QED
    BY <1>2, <2>4, <2>5 DEF Rollback, TypeOK
<1> QED
  BY <1>1, <1>2
LEMMA TypeAnswers ==
    ASSUME TypeOK, Sequential, NEW c \in Clients,
           AskLocale(c) \/ Query(c) \/ AskVerdict(c) \/ Lose(c)
    PROVE  TypeOK'
<1>1. client[c] \in Client
  BY DEF TypeOK
<1>2. SUFFICES client' \in [Clients -> Client] /\ UNCHANGED <<master, archived, releases, cut>>
  BY DEF TypeOK, AskLocale, Query, AskBundle, FailBundle, AskVerdict, Lose
<1>3. client[c].cache \in Texts \cup {None}
  BY <1>1 DEF Client
<1>4. Versions \subseteq Nat /\ Withheld \subseteq Versions
  BY DEF TypeOK, Versions, Withheld
<1>5. CASE AskLocale(c)
  <2>1. [client[c] EXCEPT !.at = "bundle", !.known = Versions \ Withheld,
                          !.withheld = Withheld] \in Client
    BY <1>1, <1>4 DEF Client
  <2>2. client' = [client EXCEPT ![c] =
            [client[c] EXCEPT !.at = "bundle", !.known = Versions \ Withheld,
                              !.withheld = Withheld]]
    BY <1>5 DEF AskLocale
  <2> QED
    BY <1>5, <2>1, <2>2 DEF AskLocale, TypeOK
<1>6. CASE AskBundle(c) /\ Servable(c) # {}
  <2>1. Servable(c) \in SUBSET Versions
    BY DEF Servable
  <2>2. Newest(c) \in Servable(c)
    BY <1>6, <2>1, NewestExists DEF Newest
  <2>3. releases[Newest(c)] \in Release
    BY <2>1, <2>2 DEF TypeOK, Versions
  <2>4. For(c, Newest(c)) \in Texts \cup {None}
    BY <2>3, HomeAssumption DEF For, Release, Strings
  <2> QED
    BY <1>6, <2>4, AnswerType DEF AskBundle
<1>7. CASE AskBundle(c) /\ Servable(c) = {}
  <2>1. [client[c] EXCEPT !.at = "verdict"] \in Client
    BY <1>1 DEF Client
  <2> QED
    BY <1>7, <2>1 DEF AskBundle, TypeOK
<1>8. CASE FailBundle(c) \/ Lose(c)
  BY <1>3, <1>8, AnswerType DEF FailBundle, Lose
<1>9. CASE AskVerdict(c)
  <2>1. (IF KillSwitched(c) THEN None ELSE client[c].cache) \in Texts \cup {None}
    BY <1>3
  <2> QED
    BY <1>9, <2>1, AnswerType DEF AskVerdict
<1> QED
  BY <1>5, <1>6, <1>7, <1>8, <1>9 DEF Query
LEMMA TypeStep ==
    ASSUME OrderInv, [Next]_vars
    PROVE  TypeOK'
<1>1. TypeOK /\ Typed /\ Sequential
  BY OrderTypes DEF OrderInv
<1>2. ASSUME NEW s \in Sessions,
             BeginPublish(s) \/ BeginMerge(s) \/ CutStep(s) \/ Abort(s)
      PROVE  TypeOK'
  BY <1>1, <1>2, TypeBegin, TypeCut, TypeCommit DEF CutStep
<1>3. ASSUME NEW c \in Clients, AskLocale(c) \/ Query(c) \/ AskVerdict(c) \/ Lose(c)
      PROVE  TypeOK'
  BY <1>1, <1>3, TypeAnswers
<1>4. CASE UNCHANGED vars
  BY <1>1, <1>4 DEF TypeOK, vars
<1> QED
  BY <1>1, <1>2, <1>3, <1>4, TypeElse DEF Next

\* What a step of a cut means for the others, and for the index.
LEMMA BecomesOrder ==
    ASSUME OrderInv, NEW s \in Sessions, NEW t \in Cut, Becomes(s, t),
           releases' = releases,
           t.at = "insert" => t.version \in 1 .. Latest + 1,
           t.at \in {"list", "read"} =>
               t.version = Latest + 1 /\ \A p \in Sessions \ {s} : ~Inserted(p)
    PROVE  Sequential' /\ NumbersFollow' /\ OneInserted'
<1>1. /\ cut'[s] = t
      /\ \A p \in Sessions \ {s} : cut'[p] = cut[p]
  BY BecomesType DEF OrderInv
<1>2. Versions' = Versions /\ Latest' = Latest
  BY DEF Versions, Latest
<1>3. NumbersFollow'
  BY <1>1, <1>2 DEF OrderInv, NumbersFollow, At, Inserted
<1>4. OneInserted'
  BY <1>1 DEF OrderInv, OneInserted, Inserted
<1> QED
  BY <1>2, <1>3, <1>4 DEF OrderInv, Sequential

\* An insert that the index lets through is the only one with a number as high.
LEMMA InsertOrder ==
    ASSUME OrderInv, NEW s \in Sessions, Insert(s), ~Collides(s)
    PROVE  cut[s].version = Latest + 1 /\ \A p \in Sessions \ {s} : ~Inserted(p)
<1>1. Latest \in Nat /\ Versions = 1 .. Latest
  BY LatestLast DEF OrderInv
<1>2. cut[s].version \in 1 .. Latest + 1 /\ cut[s].version \notin 1 .. Latest
  BY <1>1 DEF Insert, OrderInv, NumbersFollow, Collides
<1>3. cut[s].version = Latest + 1
  BY <1>1, <1>2
<1> QED
  BY <1>3 DEF Insert, UncommittedElsewhere, OrderInv, NumbersFollow
LEMMA CutOrder ==
    ASSUME OrderInv, NEW s \in Sessions,
           \/ BeginPublish(s) \/ BeginMerge(s) \/ Allocate(s) \/ Insert(s)
           \/ ListLocales(s) \/ Materialise(s) \/ Abort(s)
    PROVE  Sequential' /\ NumbersFollow' /\ OneInserted'
<1>1. /\ cut[s] \in Cut /\ Latest \in Nat /\ Idle \in Cut /\ Idle.at = "idle"
      /\ releases' = releases
  BY OrderTypes, IdleType
     DEF OrderInv, Typed, TypeOK, Idle, BeginPublish, BeginMerge, Allocate, Insert, ListLocales,
         Materialise, Abort
<1>2. ASSUME NEW t \in Cut, Becomes(s, t), t.at \in {"idle", "allocate"}
      PROVE  Sequential' /\ NumbersFollow' /\ OneInserted'
  BY <1>1, <1>2, BecomesOrder
<1>3. ASSUME NEW t \in Cut, Becomes(s, t), t.at \in {"list", "read"},
             t.version = cut[s].version, Inserted(s)
      PROVE  Sequential' /\ NumbersFollow' /\ OneInserted'
  <2>1. /\ cut[s].version = Latest + 1
        /\ \A p \in Sessions \ {s} : ~Inserted(p)
    BY <1>3 DEF OrderInv, NumbersFollow, OneInserted
  <2> QED
    BY <1>1, <1>3, <2>1, BecomesOrder
<1>4. CASE BeginPublish(s)
  <2>1. PICK f \in Floors : Becomes(s, [Idle EXCEPT !.at = "allocate", !.floor = f])
    BY <1>4 DEF BeginPublish
  <2>2. /\ [Idle EXCEPT !.at = "allocate", !.floor = f] \in Cut
        /\ [Idle EXCEPT !.at = "allocate", !.floor = f].at = "allocate"
    BY IdleType DEF Cut
  <2> QED
    BY <1>2, <2>1, <2>2
<1>5. CASE BeginMerge(s)
  <2>1. PICK l \in Locales, u \in Texts :
            Becomes(s, [Idle EXCEPT !.at = "allocate", !.source = "merge",
                                    !.wrote = [Nothing EXCEPT ![l] = u]])
    BY <1>5 DEF BeginMerge
  <2>2. [Nothing EXCEPT ![l] = u] \in Strings
    BY NothingType DEF Strings
  <2>3. /\ [Idle EXCEPT !.at = "allocate", !.source = "merge",
                        !.wrote = [Nothing EXCEPT ![l] = u]] \in Cut
        /\ [Idle EXCEPT !.at = "allocate", !.source = "merge",
                        !.wrote = [Nothing EXCEPT ![l] = u]].at = "allocate"
    BY IdleType, <2>2 DEF Cut
  <2> QED
    BY <1>2, <2>1, <2>3
<1>6. CASE Allocate(s)
  <2> DEFINE t == [cut[s] EXCEPT !.at = "insert", !.version = NextVersion(s)]
  <2>1. NextVersion(s) \in 1 .. Latest + 1 /\ NextVersion(s) \in Nat
    BY <1>1 DEF NextVersion
  <2>2. t \in Cut /\ t.at = "insert" /\ t.version = NextVersion(s)
    BY <1>1, <2>1 DEF Cut
  <2>3. Becomes(s, t)
    BY <1>6 DEF Allocate
  <2> HIDE DEF t
  <2> QED
    BY <1>1, <2>1, <2>2, <2>3, BecomesOrder
<1>7. CASE Insert(s) /\ Collides(s)
  BY <1>1, <1>2, <1>7 DEF Insert
<1>8. CASE Insert(s) /\ ~Collides(s)
  <2> DEFINE t == [cut[s] EXCEPT !.at = "list"]
  <2>1. t \in Cut /\ t.at = "list" /\ t.version = cut[s].version
    BY <1>1, AtType DEF Cut
  <2>2. Becomes(s, t)
    BY <1>8 DEF Insert, GoTo
  <2>3. cut[s].version = Latest + 1 /\ \A p \in Sessions \ {s} : ~Inserted(p)
    BY <1>8, InsertOrder
  <2> HIDE DEF t
  <2> QED
    BY <1>1, <2>1, <2>2, <2>3, BecomesOrder
<1>9. CASE ListLocales(s)
  <2> DEFINE t == [cut[s] EXCEPT !.at = "read", !.todo = Locales \ archived]
  <2>1. t \in Cut /\ t.at = "read" /\ t.version = cut[s].version
    BY <1>1 DEF Cut
  <2>2. Becomes(s, t) /\ Inserted(s)
    BY <1>9 DEF ListLocales, At, Inserted
  <2> HIDE DEF t
  <2> QED
    BY <1>3, <2>1, <2>2
<1>10. CASE Materialise(s)
  <2>1. PICK l \in cut[s].todo :
            Becomes(s, [cut[s] EXCEPT !.bundle[l] = View(s, l), !.todo = @ \ {l}])
    BY <1>10 DEF Materialise
  <2> DEFINE t == [cut[s] EXCEPT !.bundle[l] = View(s, l), !.todo = @ \ {l}]
  <2>2. cut[s].at = "read" /\ Inserted(s)
    BY <1>10 DEF Materialise, At, Inserted
  <2>3. l \in Locales /\ View(s, l) \in Texts \cup {None}
    BY <1>1 DEF Cut, Strings, View, OrderInv, TypeOK
  <2>4. [cut[s].bundle EXCEPT ![l] = View(s, l)] \in Strings
    BY <1>1, <2>3 DEF Cut, Strings
  <2>5. t \in Cut /\ t.at = "read" /\ t.version = cut[s].version
    BY <1>1, <2>2, <2>4 DEF Cut
  <2> HIDE DEF t
  <2> QED
    BY <1>3, <2>1, <2>2, <2>5 DEF t
<1>11. CASE Abort(s)
  BY <1>1, <1>2, <1>11 DEF Abort
<1> QED
  BY <1>4, <1>5, <1>6, <1>7, <1>8, <1>9, <1>10, <1>11

\* A commit adds the number that comes next, and with it the index is free.
LEMMA CommitAppends ==
    ASSUME OrderInv, NEW s \in Sessions, Commit(s)
    PROVE  /\ cut[s].version = Latest + 1 /\ cut[s].version \notin Versions
           /\ Versions = 1 .. Latest /\ Versions' = 1 .. Latest + 1
           /\ Versions' = Versions \cup {cut[s].version}
           /\ \A p \in Sessions \ {s} : ~Inserted(p)
<1>1. Latest \in Nat /\ Versions = 1 .. Latest
  BY LatestLast DEF OrderInv
<1>2. Inserted(s)
  BY DEF Commit, At, Inserted
<1>3. cut[s].version = Latest + 1 /\ \A p \in Sessions \ {s} : ~Inserted(p)
  BY <1>2 DEF OrderInv, NumbersFollow, OneInserted
<1>4. Versions' = Versions \cup {cut[s].version}
  BY DEF Commit, Versions
<1> QED
  BY <1>1, <1>3, <1>4

LEMMA CommitOrder ==
    ASSUME OrderInv, NEW s \in Sessions, Commit(s)
    PROVE  Sequential' /\ NumbersFollow' /\ OneInserted'
<1>1. Latest \in Nat /\ Latest + 1 \in Nat
  BY LatestLast DEF OrderInv
<1>2. Sequential'
  BY <1>1, CommitAppends DEF Sequential
<1>3. Latest' = Latest + 1
  BY <1>1, LatestIs, CommitAppends
<1>4. /\ cut'[s] = Idle
      /\ \A p \in Sessions \ {s} : cut'[p] = cut[p] /\ ~Inserted(p)
  BY IdleType, BecomesType, CommitAppends DEF Commit, OrderInv
<1>5. ~Inserted(s)' /\ ~At(s, "insert")'
  BY <1>4 DEF Inserted, At, Idle
<1>6. \A p \in Sessions : ~Inserted(p)'
  BY <1>4, <1>5 DEF Inserted
<1>7. \A p \in Sessions \ {s} : At(p, "insert")' =>
          cut'[p].version \in 1 .. Latest' + 1
  BY <1>1, <1>3, <1>4 DEF OrderInv, NumbersFollow, At
<1> QED
  BY <1>2, <1>5, <1>6, <1>7 DEF NumbersFollow, OneInserted

LEMMA OrderStep ==
    ASSUME OrderInv, [Next]_vars
    PROVE  Sequential' /\ NumbersFollow' /\ OneInserted'
<1>1. ASSUME NEW s \in Sessions,
             BeginPublish(s) \/ BeginMerge(s) \/ CutStep(s) \/ Abort(s)
      PROVE  Sequential' /\ NumbersFollow' /\ OneInserted'
  BY <1>1, CutOrder, CommitOrder DEF CutStep
<1>2. ASSUME cut' = cut, Versions' = Versions
      PROVE  Sequential' /\ NumbersFollow' /\ OneInserted'
  BY <1>2 DEF OrderInv, Sequential, NumbersFollow, OneInserted, At, Inserted, Latest
<1>3. ASSUME \E l \in Locales : Edit(l) \/ ArchiveLocale(l) \/ ActivateLocale(l)
      PROVE  cut' = cut /\ Versions' = Versions
  BY <1>3 DEF Edit, ArchiveLocale, ActivateLocale, Versions
<1>4. ASSUME NEW v \in Versions, Rollback(v)
      PROVE  cut' = cut /\ Versions' = Versions
  BY <1>4 DEF Rollback, Versions
<1>5. ASSUME NEW c \in Clients, AskLocale(c) \/ Query(c) \/ AskVerdict(c) \/ Lose(c)
      PROVE  cut' = cut /\ Versions' = Versions
  BY <1>5 DEF AskLocale, Query, AskBundle, FailBundle, AskVerdict, Lose, Versions
<1>6. CASE UNCHANGED vars
  BY <1>2, <1>6 DEF vars, Versions
<1> QED
  BY <1>1, <1>2, <1>3, <1>4, <1>5, <1>6 DEF Next

LEMMA OrderInit == Init => OrderInv
<1> SUFFICES ASSUME Init PROVE OrderInv
    OBVIOUS
<1>1. Versions = {} /\ \A s \in Sessions : cut[s] = Idle
  BY DEF Init, Versions
<1>2. Sequential
  <2>1. {} = 1 .. 0
    OBVIOUS
  <2> QED
    BY <1>1, <2>1 DEF Sequential
<1>3. NumbersFollow /\ OneInserted
  BY <1>1 DEF NumbersFollow, OneInserted, At, Inserted, Idle
<1> QED
  BY <1>2, <1>3, TypeInit DEF OrderInv

LEMMA OrderInvariant == Spec => []OrderInv
<1>1. OrderInv /\ [Next]_vars => OrderInv'
  BY TypeStep, OrderStep DEF OrderInv
<1> QED
  BY <1>1, OrderInit, PTL DEF Spec

\* Every variable of Releases keeps its type: cuts, the bundles they read, the
\* releases and what the apps hold.
THEOREM ReleasesTypeCorrect == Spec => []TypeOK
<1>1. OrderInv => TypeOK
  BY DEF OrderInv
<1> QED
  BY <1>1, OrderInvariant, PTL
(***************************************************************************)
(* What a step does to the releases: only a commit and a rollback write    *)
(* them, and neither touches what a release shipped.                       *)
(***************************************************************************)
LEMMA ReleasesWritten ==
    ASSUME [Next]_vars
    PROVE  \/ releases' = releases
           \/ \E s \in Sessions : Commit(s)
           \/ \E v \in Versions : Rollback(v)
<1>1. ASSUME NEW s \in Sessions,
             \/ BeginPublish(s) \/ BeginMerge(s) \/ Allocate(s) \/ Insert(s)
             \/ ListLocales(s) \/ Materialise(s) \/ Abort(s)
      PROVE  releases' = releases
  BY <1>1 DEF BeginPublish, BeginMerge, Allocate, Insert, ListLocales, Materialise, Abort
<1>2. ASSUME \E l \in Locales : Edit(l) \/ ArchiveLocale(l) \/ ActivateLocale(l)
      PROVE  releases' = releases
  BY <1>2 DEF Edit, ArchiveLocale, ActivateLocale
<1>3. ASSUME NEW c \in Clients, AskLocale(c) \/ Query(c) \/ AskVerdict(c) \/ Lose(c)
      PROVE  releases' = releases
  BY <1>3 DEF AskLocale, Query, AskBundle, FailBundle, AskVerdict, Lose
<1> QED
  BY <1>1, <1>2, <1>3 DEF Next, CutStep, vars

Settled(v) ==
    /\ v \in Versions'
    /\ releases'[v].bundle = releases[v].bundle
    /\ releases'[v].floor = releases[v].floor
    /\ v \in Withheld => releases'[v].rolled_back_by = releases[v].rolled_back_by

LEMMA SettledStep ==
    ASSUME OrderInv, [Next]_vars, NEW v \in Versions
    PROVE  Settled(v)
<1>1. CASE releases' = releases
  BY <1>1 DEF Settled, Versions
<1>2. ASSUME NEW s \in Sessions, Commit(s)
      PROVE  Settled(v)
  <2>1. cut[s].version \notin Versions /\ Versions' = Versions \cup {cut[s].version}
    BY <1>2, CommitAppends
  <2>2. releases'[v] = releases[v]
    BY <1>2, <2>1 DEF Commit
  <2> QED
    BY <2>1, <2>2 DEF Settled
<1>3. ASSUME NEW w \in Versions, Rollback(w)
      PROVE  Settled(v)
  <2>1. PICK a \in Actors : releases' = [releases EXCEPT ![w].rolled_back_by = a]
    BY <1>3 DEF Rollback
  <2>2. Versions' = Versions
    BY <2>1 DEF Versions
  <2>3. releases[v] \in Release
    BY DEF OrderInv, TypeOK, Versions
  <2>4. CASE v # w
    <3>1. releases'[v] = releases[v]
      BY <2>1, <2>4 DEF Versions
    <3> QED
      BY <2>2, <3>1 DEF Settled
  <2>5. CASE v = w
    <3>1. releases'[v] = [releases[v] EXCEPT !.rolled_back_by = a]
      BY <2>1, <2>5 DEF Versions
    <3>2. v \notin Withheld
      BY <1>3, <2>5 DEF Rollback, NotRolledBack, Withheld
    <3>3. releases'[v].bundle = releases[v].bundle /\ releases'[v].floor = releases[v].floor
      BY <2>3, <3>1 DEF Release
    <3> QED
      BY <2>2, <3>2, <3>3 DEF Settled
  <2> QED
    BY <2>4, <2>5
<1> QED
  BY <1>1, <1>2, <1>3, ReleasesWritten

\* Versions have no gaps and no number comes late, however many publishes and
\* merges overlap, although none of them locks anything against the others: the
\* unique index alone sees to it.
THEOREM VersionsAppend == Spec => ReleasesAppend
<1>1. ASSUME OrderInv, [Next]_vars
      PROVE  Versions' # Versions => Versions' = Versions \cup {Cardinality(Versions) + 1}
  <2>1. Latest \in Nat /\ Versions = 1 .. Latest
    BY <1>1, LatestLast DEF OrderInv
  <2>2. Cardinality(Versions) = Latest
    BY <2>1, FS_Interval
  <2>3. CASE releases' = releases
    BY <2>3 DEF Versions
  <2>4. CASE \E s \in Sessions : Commit(s)
    BY <1>1, <2>2, <2>4, CommitAppends
  <2>5. CASE \E v \in Versions : Rollback(v)
    BY <2>5 DEF Rollback, Versions
  <2> QED
    BY <1>1, <2>3, <2>4, <2>5, ReleasesWritten
<1>2. OrderInv /\ [Next]_vars =>
          [Versions' # Versions => Versions' = Versions \cup {Cardinality(Versions) + 1}]_vars
  BY <1>1
<1> QED
  BY <1>2, OrderInvariant, PTL DEF Spec, ReleasesAppend

\* No cut, edit or second rollback rewrites what a release shipped, or who
\* withheld it.
THEOREM ReleasesStaySettled == Spec => ReleasesSettled
<1>1. ASSUME OrderInv, [Next]_vars
      PROVE  \A v \in Versions :
                 /\ v \in Versions'
                 /\ releases'[v].bundle = releases[v].bundle
                 /\ releases'[v].floor = releases[v].floor
                 /\ v \in Withheld =>
                        releases'[v].rolled_back_by = releases[v].rolled_back_by
  BY <1>1, SettledStep DEF Settled
<1> QED
  BY <1>1, OrderInvariant, PTL DEF Spec, ReleasesSettled
(***************************************************************************)
(* What a merge ships.  Its statements see its own writes, so that what it *)
(* has read of a locale it wrote is what it wrote, from the first locale   *)
(* on.                                                                     *)
(***************************************************************************)
ReadsItself ==
    \A s \in Sessions, l \in Locales :
        cut[s].wrote[l] # None /\ cut[s].bundle[l] # None => cut[s].bundle[l] = cut[s].wrote[l]

LEMMA FreshReadsItself ==
    ASSUME OrderInv, ReadsItself, NEW s \in Sessions, NEW t \in Cut, Becomes(s, t),
           \A l \in Locales : t.wrote[l] # None /\ t.bundle[l] # None => t.bundle[l] = t.wrote[l]
    PROVE  ReadsItself'
BY BecomesType DEF OrderInv, ReadsItself

LEMMA CutReadsItself ==
    ASSUME OrderInv, ReadsItself, NEW s \in Sessions,
           BeginPublish(s) \/ BeginMerge(s) \/ CutStep(s) \/ Abort(s)
    PROVE  ReadsItself'
<1>1. /\ cut[s] \in Cut /\ Latest \in Nat /\ Idle \in Cut
      /\ Idle.bundle = Nothing /\ \A l \in Locales : Nothing[l] = None
  BY OrderTypes, IdleType DEF OrderInv, Typed, TypeOK, Idle, Nothing
<1>2. ASSUME NEW t \in Cut, Becomes(s, t), t.bundle = Nothing
      PROVE  ReadsItself'
  BY <1>1, <1>2, FreshReadsItself
<1>3. ASSUME NEW t \in Cut, Becomes(s, t), t.bundle = cut[s].bundle, t.wrote = cut[s].wrote
      PROVE  ReadsItself'
  BY <1>3, FreshReadsItself DEF ReadsItself
<1>4. CASE BeginPublish(s)
  <2>1. PICK f \in Floors : Becomes(s, [Idle EXCEPT !.at = "allocate", !.floor = f])
    BY <1>4 DEF BeginPublish
  <2>2. /\ [Idle EXCEPT !.at = "allocate", !.floor = f] \in Cut
        /\ [Idle EXCEPT !.at = "allocate", !.floor = f].bundle = Nothing
    BY <1>1 DEF Cut
  <2> QED
    BY <1>2, <2>1, <2>2
<1>5. CASE BeginMerge(s)
  <2>1. PICK l \in Locales, u \in Texts :
            Becomes(s, [Idle EXCEPT !.at = "allocate", !.source = "merge",
                                    !.wrote = [Nothing EXCEPT ![l] = u]])
    BY <1>5 DEF BeginMerge
  <2>2. [Nothing EXCEPT ![l] = u] \in Strings
    BY NothingType DEF Strings
  <2>3. /\ [Idle EXCEPT !.at = "allocate", !.source = "merge",
                        !.wrote = [Nothing EXCEPT ![l] = u]] \in Cut
        /\ [Idle EXCEPT !.at = "allocate", !.source = "merge",
                        !.wrote = [Nothing EXCEPT ![l] = u]].bundle = Nothing
    BY <1>1, <2>2 DEF Cut
  <2> QED
    BY <1>2, <2>1, <2>3
<1>6. CASE Allocate(s)
  <2>1. NextVersion(s) \in Nat
    BY <1>1 DEF NextVersion
  <2> DEFINE t == [cut[s] EXCEPT !.at = "insert", !.version = NextVersion(s)]
  <2>2. t \in Cut /\ t.bundle = cut[s].bundle /\ t.wrote = cut[s].wrote
    BY <1>1, <2>1 DEF Cut
  <2> QED
    BY <1>3, <1>6, <2>2 DEF Allocate
<1>7. CASE Insert(s) \/ Abort(s) \/ Commit(s)
  <2> DEFINE t == [cut[s] EXCEPT !.at = "list"]
  <2>1. t \in Cut /\ t.bundle = cut[s].bundle /\ t.wrote = cut[s].wrote
    BY <1>1, AtType DEF Cut
  <2>2. Becomes(s, t) \/ Becomes(s, Idle)
    BY <1>7 DEF Insert, Abort, Commit, GoTo
  <2> QED
    BY <1>1, <1>2, <1>3, <2>1, <2>2
<1>8. CASE ListLocales(s)
  <2> DEFINE t == [cut[s] EXCEPT !.at = "read", !.todo = Locales \ archived]
  <2>1. t \in Cut /\ t.bundle = cut[s].bundle /\ t.wrote = cut[s].wrote
    BY <1>1 DEF Cut
  <2> QED
    BY <1>3, <1>8, <2>1 DEF ListLocales
<1>9. CASE Materialise(s)
  <2>1. PICK l \in cut[s].todo :
            Becomes(s, [cut[s] EXCEPT !.bundle[l] = View(s, l), !.todo = @ \ {l}])
    BY <1>9 DEF Materialise
  <2> DEFINE t == [cut[s] EXCEPT !.bundle[l] = View(s, l), !.todo = @ \ {l}]
  <2>2. l \in Locales /\ View(s, l) \in Texts \cup {None}
    BY <1>1 DEF Cut, Strings, View, OrderInv, TypeOK
  <2>3. [cut[s].bundle EXCEPT ![l] = View(s, l)] \in Strings
    BY <1>1, <2>2 DEF Cut, Strings
  <2>4. /\ t \in Cut /\ t.wrote = cut[s].wrote
        /\ t.bundle = [cut[s].bundle EXCEPT ![l] = View(s, l)]
    BY <1>1, <2>3 DEF Cut
  <2>5. \A m \in Locales : t.bundle[m] = IF m = l THEN View(s, l) ELSE cut[s].bundle[m]
    BY <1>1, <2>4 DEF Cut, Strings
  <2>6. \A m \in Locales :
            t.wrote[m] # None /\ t.bundle[m] # None => t.bundle[m] = t.wrote[m]
    BY <2>4, <2>5 DEF ReadsItself, View
  <2> HIDE DEF t
  <2> QED
    BY <2>1, <2>4, <2>6, FreshReadsItself DEF t
<1> QED
  BY <1>4, <1>5, <1>6, <1>7, <1>8, <1>9 DEF CutStep

LEMMA ReadsItselfInvariant == Spec => []ReadsItself
<1>1. Init => ReadsItself
  BY DEF Init, ReadsItself, Idle, Nothing
<1>2. ASSUME OrderInv, ReadsItself, [Next]_vars
      PROVE  ReadsItself'
  <2>1. ASSUME cut' = cut PROVE ReadsItself'
    BY <1>2, <2>1 DEF ReadsItself
  <2>2. \/ \E s \in Sessions : BeginPublish(s) \/ BeginMerge(s) \/ CutStep(s) \/ Abort(s)
        \/ cut' = cut
    BY <1>2 DEF Next, vars, Edit, ArchiveLocale, ActivateLocale, Rollback, AskLocale, Query,
       AskBundle, FailBundle, AskVerdict, Lose
  <2> QED
    BY <1>2, <2>1, <2>2, CutReadsItself
<1> QED
  BY <1>1, <1>2, OrderInvariant, PTL DEF Spec

\* The bundles of a release that a merge cuts hold, at the locales it wrote, what it
\* wrote and what master holds from then on, whatever is edited, archived or
\* published between its statements.
THEOREM MergesShipThemselves == Spec => MergeShipsItself
<1>1. ASSUME OrderInv, ReadsItself, NEW s \in Sessions, Commit(s), NEW l \in Locales,
             cut[s].wrote[l] # None, cut[s].bundle[l] # None
      PROVE  /\ releases'[cut[s].version].bundle[l] = master'[l]
             /\ master'[l] = cut[s].wrote[l]
  <2>1. releases'[cut[s].version] = Finished(s)
    BY <1>1 DEF Commit
  <2>2. releases'[cut[s].version].bundle = cut[s].bundle
    BY <2>1 DEF Finished
  <2>3. master'[l] = cut[s].wrote[l]
    BY <1>1 DEF Commit, View
  <2> QED
    BY <1>1, <2>2, <2>3 DEF ReadsItself
<1>2. ASSUME OrderInv, ReadsItself
      PROVE  \A s \in Sessions : Merging(s) /\ Commit(s) =>
                 \A l \in Locales : cut[s].wrote[l] # None /\ cut[s].bundle[l] # None =>
                     /\ releases'[cut[s].version].bundle[l] = master'[l]
                     /\ master'[l] = cut[s].wrote[l]
  BY <1>1, <1>2
<1> QED
  BY <1>2, OrderInvariant, ReadsItselfInvariant, PTL DEF Spec, MergeShipsItself
(***************************************************************************)
(* What an app holds.  Between its queries releases only gain versions and *)
(* lose servable ones, so that what a query found out stays true: what the *)
(* app was ever given is still some release's text for it, and once no     *)
(* release that it knew can be served to it, none ever can.                *)
(***************************************************************************)
ClientInv(c) ==
    /\ client[c].known \subseteq Versions
    /\ client[c].withheld \subseteq Withheld
    /\ client[c].at = "verdict" => client[c].known \cap Servable(c) = {}
    /\ client[c].cache # None =>
           \E v \in Versions : Reaches(c, v) /\ For(c, v) = client[c].cache

LEMMA ReleasesAge ==
    ASSUME OrderInv, [Next]_vars, NEW c \in Clients
    PROVE  /\ Versions \subseteq Versions'
           /\ Withheld \subseteq Withheld'
           /\ \A v \in Versions : For(c, v)' = For(c, v) /\ Reaches(c, v)' = Reaches(c, v)
           /\ Servable(c)' \cap Versions \subseteq Servable(c)
<1>1. Versions \subseteq Versions'
  BY SettledStep DEF Settled
<1>2. Withheld \subseteq Withheld'
  BY <1>1, SettledStep DEF Settled, Withheld
<1>3. \A v \in Versions : For(c, v)' = For(c, v) /\ Reaches(c, v)' = Reaches(c, v)
  BY SettledStep DEF Settled, For, Reaches
<1> QED
  BY <1>1, <1>2, <1>3 DEF Servable

LEMMA ClientStays ==
    ASSUME OrderInv, [Next]_vars, NEW c \in Clients, ClientInv(c), client'[c] = client[c]
    PROVE  ClientInv(c)'
<1>1. /\ client'[c].known \subseteq Versions'
      /\ client'[c].withheld \subseteq Withheld'
  BY ReleasesAge DEF ClientInv
<1>2. client'[c].at = "verdict" => client'[c].known \cap Servable(c)' = {}
  BY ReleasesAge DEF ClientInv
<1>3. ASSUME client'[c].cache # None
      PROVE  \E v \in Versions' : Reaches(c, v)' /\ For(c, v)' = client'[c].cache
  <2>1. PICK v \in Versions : Reaches(c, v) /\ For(c, v) = client[c].cache
    BY <1>3 DEF ClientInv
  <2> QED
    BY <2>1, ReleasesAge
<1> QED
  BY <1>1, <1>2, <1>3 DEF ClientInv

\* The newest release that may be served.
LEMMA NewestServed ==
    ASSUME OrderInv, NEW c \in Clients, Servable(c) # {}
    PROVE  /\ Newest(c) \in Servable(c) /\ \A w \in Servable(c) : w <= Newest(c)
           /\ For(c, Newest(c)) \in Texts \cup {None}
<1>1. Servable(c) \in SUBSET Versions
  BY DEF Servable
<1>2. Newest(c) \in Servable(c) /\ \A w \in Servable(c) : w <= Newest(c)
  BY <1>1, NewestExists DEF OrderInv, Newest
<1>3. releases[Newest(c)] \in Release
  BY <1>1, <1>2 DEF OrderInv, TypeOK, Versions
<1> QED
  BY <1>2, <1>3, HomeAssumption DEF For, Release, Strings

LEMMA Answered ==
    ASSUME OrderInv, NEW c \in Clients, releases' = releases,
           NEW text \in Texts \cup {None}, Answer(c, text),
           text # None => \E v \in Versions : Reaches(c, v) /\ For(c, v) = text
    PROVE  ClientInv(c)'
<1>1. client'[c] = [at |-> "idle", cache |-> text, known |-> {}, withheld |-> {}]
  BY AnswerType DEF OrderInv
<1>2. client'[c].cache # None =>
          \E v \in Versions' : Reaches(c, v)' /\ For(c, v)' = client'[c].cache
  BY <1>1 DEF Versions, Reaches, For
<1> QED
  BY <1>1, <1>2 DEF ClientInv

LEMMA ClientMoves ==
    ASSUME OrderInv, NEW c \in Clients, ClientInv(c),
           AskLocale(c) \/ Query(c) \/ AskVerdict(c) \/ Lose(c)
    PROVE  ClientInv(c)'
<1>1. client[c] \in Client /\ releases' = releases
  BY DEF OrderInv, TypeOK, AskLocale, Query, AskBundle, FailBundle, AskVerdict, Lose
<1>2. /\ Versions' = Versions /\ Withheld' = Withheld /\ Servable(c)' = Servable(c)
      /\ \A v \in Versions : Reaches(c, v)' = Reaches(c, v) /\ For(c, v)' = For(c, v)
  BY <1>1 DEF Versions, Withheld, Servable, Reaches, For
<1>3. client[c].cache \in Texts \cup {None}
  BY <1>1 DEF Client
<1>4. CASE AskLocale(c)
  <2>1. /\ client'[c].cache = client[c].cache /\ client'[c].at = "bundle"
        /\ client'[c].known = Versions \ Withheld /\ client'[c].withheld = Withheld
    BY <1>1, <1>4 DEF AskLocale, OrderInv, TypeOK, Client
  <2> QED
    BY <1>2, <2>1 DEF ClientInv
<1>5. CASE AskBundle(c) /\ Servable(c) # {}
  <2>1. /\ Newest(c) \in Versions /\ Reaches(c, Newest(c))
        /\ For(c, Newest(c)) \in Texts \cup {None}
    BY <1>5, NewestServed DEF Servable
  <2> QED
    BY <1>1, <1>5, <2>1, Answered DEF AskBundle
<1>6. CASE AskBundle(c) /\ Servable(c) = {}
  <2>1. /\ client'[c].cache = client[c].cache
        /\ client'[c].known = client[c].known /\ client'[c].withheld = client[c].withheld
    BY <1>1, <1>6 DEF AskBundle, OrderInv, TypeOK, Client
  <2> QED
    BY <1>2, <1>6, <2>1 DEF ClientInv
<1>7. CASE FailBundle(c) \/ Lose(c)
  BY <1>1, <1>3, <1>7, Answered DEF FailBundle, Lose, ClientInv
<1>8. CASE AskVerdict(c) /\ KillSwitched(c)
  BY <1>1, <1>8, Answered DEF AskVerdict
<1>9. CASE AskVerdict(c) /\ ~KillSwitched(c)
  BY <1>1, <1>3, <1>9, Answered DEF AskVerdict, ClientInv
<1> QED
  BY <1>4, <1>5, <1>6, <1>7, <1>8, <1>9 DEF Query

ClientsInv == \A c \in Clients : ClientInv(c)

LEMMA ClientsInvariant == Spec => []ClientsInv
<1>1. ASSUME Init, NEW c \in Clients PROVE ClientInv(c)
  <2>1. client[c] = [at |-> "idle", cache |-> None, known |-> {}, withheld |-> {}]
    BY <1>1 DEF Init
  <2> QED
    BY <2>1 DEF ClientInv
<1>2. ASSUME OrderInv, ClientsInv, [Next]_vars, NEW c \in Clients
      PROVE  ClientInv(c)'
  <2>1. ClientInv(c)
    BY <1>2 DEF ClientsInv
  <2>2. CASE AskLocale(c) \/ Query(c) \/ AskVerdict(c) \/ Lose(c)
    BY <1>2, <2>1, <2>2, ClientMoves
  <2>3. ASSUME NEW d \in Clients \ {c},
               AskLocale(d) \/ Query(d) \/ AskVerdict(d) \/ Lose(d)
        PROVE  client'[c] = client[c]
    BY <1>2, <2>3
       DEF OrderInv, TypeOK, AskLocale, Query, AskBundle, FailBundle, AskVerdict, Lose, Answer
  <2>4. ASSUME NEW s \in Sessions,
               BeginPublish(s) \/ BeginMerge(s) \/ CutStep(s) \/ Abort(s)
        PROVE  client' = client
    BY <2>4 DEF BeginPublish, BeginMerge, CutStep, Allocate, Insert, ListLocales, Materialise,
       Commit, Abort
  <2>5. ASSUME \/ \E l \in Locales : Edit(l) \/ ArchiveLocale(l) \/ ActivateLocale(l)
               \/ \E v \in Versions : Rollback(v)
               \/ UNCHANGED vars
        PROVE  client' = client
    BY <2>5 DEF Edit, ArchiveLocale, ActivateLocale, Rollback, vars
  <2>6. ASSUME client'[c] = client[c] PROVE ClientInv(c)'
    BY <1>2, <2>1, <2>6, ClientStays
  <2> QED
    BY <1>2, <2>2, <2>3, <2>4, <2>5, <2>6 DEF Next
<1>3. Init => ClientsInv
  BY <1>1 DEF ClientsInv
<1>4. OrderInv /\ ClientsInv /\ [Next]_vars => ClientsInv'
  BY <1>2 DEF ClientsInv
<1> QED
  BY <1>3, <1>4, OrderInvariant, PTL DEF Spec

\* Though the queries behind an answer share no transaction, an app ends up with
\* nothing, or with a bundle that was not withheld when it asked, that its version
\* may have and that no release it could then have had instead supersedes.
THEOREM AnswersStayCurrent == Spec => AnswersAreCurrent
<1>1. ASSUME OrderInv, ClientsInv, NEW c \in Clients,
             AskBundle(c) \/ AskVerdict(c), client'[c].at = "idle"
      PROVE  \/ client'[c].cache = None
             \/ \E v \in Versions \ client[c].withheld :
                    /\ Reaches(c, v) /\ For(c, v) = client'[c].cache
                    /\ \A w \in client[c].known \cap Servable(c) : w <= v
  <2>1. ClientInv(c) /\ client[c] \in Client
    BY <1>1 DEF ClientsInv, OrderInv, TypeOK
  <2>2. CASE AskBundle(c) /\ Servable(c) # {}
    <3>1. /\ Newest(c) \in Servable(c) /\ \A w \in Servable(c) : w <= Newest(c)
          /\ For(c, Newest(c)) \in Texts \cup {None}
      BY <1>1, <2>2, NewestServed
    <3>2. client'[c].cache = For(c, Newest(c))
      <4>1. Answer(c, For(c, Newest(c)))
        BY <2>2 DEF AskBundle
      <4> QED
        BY <1>1, <4>1, AnswerCache DEF OrderInv
    <3>3. /\ Newest(c) \in Versions \ client[c].withheld
          /\ Reaches(c, Newest(c))
      BY <2>1, <3>1 DEF Servable, ClientInv
    <3> QED
      BY <3>1, <3>2, <3>3
  <2>3. CASE AskBundle(c) /\ Servable(c) = {}
    BY <1>1, <2>1, <2>3 DEF AskBundle, OrderInv, TypeOK, Client
  <2>4. CASE AskVerdict(c) /\ KillSwitched(c)
    <3>1. Answer(c, None)
      BY <2>4 DEF AskVerdict
    <3> QED
      BY <1>1, <3>1, AnswerCache DEF OrderInv
  <2>5. CASE AskVerdict(c) /\ ~KillSwitched(c)
    <3>1. client'[c].cache = client[c].cache
      <4>1. Answer(c, client[c].cache)
        BY <2>5 DEF AskVerdict
      <4> QED
        BY <1>1, <4>1, AnswerCache DEF OrderInv
    <3>2. client[c].known \cap Servable(c) = {}
      BY <2>1, <2>5 DEF AskVerdict, ClientInv
    <3>3. ASSUME client[c].cache # None
          PROVE  \E v \in Versions \ client[c].withheld :
                     Reaches(c, v) /\ For(c, v) = client[c].cache
      <4>1. PICK v \in Versions : Reaches(c, v) /\ For(c, v) = client[c].cache
        BY <2>1, <3>3 DEF ClientInv
      <4>2. v \notin Withheld
        BY <2>5, <4>1 DEF KillSwitched, Reaches
      <4> QED
        BY <2>1, <4>1, <4>2 DEF ClientInv
    <3> QED
      BY <3>1, <3>2, <3>3
  <2> QED
    BY <1>1, <2>2, <2>3, <2>4, <2>5
<1>2. ASSUME OrderInv, ClientsInv
      PROVE  \A c \in Clients :
                 (AskBundle(c) \/ AskVerdict(c)) /\ client'[c].at = "idle" =>
                     \/ client'[c].cache = None
                     \/ \E v \in Versions \ client[c].withheld :
                            /\ Reaches(c, v) /\ For(c, v) = client'[c].cache
                            /\ \A w \in client[c].known \cap Servable(c) : w <= v
  BY <1>1, <1>2
<1> QED
  BY <1>2, OrderInvariant, ClientsInvariant, PTL DEF Spec, AnswersAreCurrent
=============================================================================
