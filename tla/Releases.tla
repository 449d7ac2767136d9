------------------------------ MODULE Releases ------------------------------
(***************************************************************************)
(* Releases: how they are cut, withheld and served to the apps.            *)
(*                                                                         *)
(* A release is cut by a merge or by a publish, inside one transaction     *)
(* that allocates the next version number and then reads master locale by  *)
(* locale.  Each statement reads what is committed when it starts, and     *)
(* what its own transaction wrote.  Publishes take no lock at all: the     *)
(* unique index on the version is all that keeps two cuts apart.           *)
(*                                                                         *)
(* The kill switch withholds a release.  An app asks for its locale's      *)
(* bundle in up to three statements that share no transaction, keeps what  *)
(* it is given, and forgets it when it is told to.  What the app does with *)
(* an answer is external: it is what route/ota.go expects of it.           *)
(*                                                                         *)
(* A locale's strings are one text.  A version floor is a number, and no   *)
(* floor is 0, the version a client without one is taken to have.  Floors  *)
(* are 64 bits wide where they are validated and 32 where they are         *)
(* compared, in SQL: beyond those, a number cannot be cast.                *)
(***************************************************************************)
EXTENDS Naturals, FiniteSets

CONSTANTS
    Sessions,    \* database connections that may be cutting a release
    Locales,
    Texts,
    Actors,      \* who may pull the kill switch
    Clients,     \* installed apps
    Home,        \* Home[c]: the locale an app asks for
    AppVersion,  \* AppVersion[c]: its X-App-Version
    Floors,      \* the min_app_versions publishers choose from
    MaxInt,      \* the largest number SQL casts to an integer
    MaxReleases, \* bound: no cut goes beyond this version
    None         \* no text, no bundle, nobody

ASSUME HomeAssumption == Home \in [Clients -> Locales]
ASSUME FloorsAssumption == /\ 0 \in Floors /\ Floors \subseteq Nat
                           /\ AppVersion \in [Clients -> Nat] /\ MaxInt \in Nat
ASSUME MaxReleasesAssumption == MaxReleases \in Nat
ASSUME NoneAssumption == None \notin Texts /\ None \notin Actors /\ None \notin Sessions

VARIABLES
    master,     \* what an export of each locale reads
    archived,   \* locales with status 'archived'
    releases,   \* the committed releases and their bundles, by version
    cut,        \* each session's transaction
    client      \* each app

vars == <<master, archived, releases, cut, client>>

Strings == [Locales -> Texts \cup {None}]
Release == [floor : Floors, bundle : Strings, rolled_back_by : Actors \cup {None}]

\* version is the number the INSERT computed; wrote is what a merge applied.
Cut == [at : {"idle", "allocate", "insert", "list", "read"},
        source : {"merge", "publish"}, version : Nat, floor : Floors,
        wrote : Strings, todo : SUBSET Locales, bundle : Strings]

\* known is a history variable: the releases there were when the request began,
\* those withheld by then apart.
Client == [at : {"idle", "bundle", "verdict"}, cache : Texts \cup {None},
           known : SUBSET Nat, withheld : SUBSET Nat]

TypeOK ==
    /\ master \in [Locales -> Texts]
    /\ archived \in SUBSET Locales
    /\ DOMAIN releases \subseteq Nat
    /\ \A v \in DOMAIN releases : releases[v] \in Release
    /\ cut \in [Sessions -> Cut]
    /\ client \in [Clients -> Client]

Nothing == [l \in Locales |-> None]
Idle == [at |-> "idle", source |-> "publish", version |-> 0, floor |-> 0,
         wrote |-> Nothing, todo |-> {}, bundle |-> Nothing]

Init ==
    /\ \E t \in Texts : master = [l \in Locales |-> t]
    /\ archived = {}
    /\ releases = [v \in {} |-> None]
    /\ cut = [s \in Sessions |-> Idle]
    /\ client = [c \in Clients |->
                    [at |-> "idle", cache |-> None, known |-> {}, withheld |-> {}]]
-----------------------------------------------------------------------------
(* Cutting a release.                                                      *)

Versions == DOMAIN releases
Latest == IF Versions = {} THEN 0 ELSE CHOOSE v \in Versions : \A w \in Versions : w <= v

At(s, step) == cut[s].at = step
Becomes(s, t) == cut' = [cut EXCEPT ![s] = t]
GoTo(s, step) == Becomes(s, [cut[s] EXCEPT !.at = step])

BeginPublish(s) ==
    \E f \in Floors :
        /\ At(s, "idle")
        /\ Latest < MaxReleases
        /\ Becomes(s, [Idle EXCEPT !.at = "allocate", !.floor = f])
        /\ UNCHANGED <<master, archived, releases, client>>

\* The rows a merge writes stay locked until it ends, and so does the lock
\* that every merge takes first.
Merging(s) == ~At(s, "idle") /\ cut[s].source = "merge"
Locked(l) == \E s \in Sessions : Merging(s) /\ cut[s].wrote[l] # None

BeginMerge(s) ==
    \E l \in Locales, t \in Texts :
        /\ At(s, "idle")
        /\ ~\E p \in Sessions : Merging(p)
        /\ Latest < MaxReleases
        /\ Becomes(s, [Idle EXCEPT !.at = "allocate", !.source = "merge",
                                   !.wrote = [Nothing EXCEPT ![l] = t]])
        /\ UNCHANGED <<master, archived, releases, client>>

\* max(version) + 1, over the releases this statement can see.
SequenceVersion(s) == Cardinality({p \in Sessions : cut[p].at \in {"list", "read"}}) + Latest + 1
NextVersion(s) == Latest + 1

Allocate(s) ==
    /\ At(s, "allocate")
    /\ Latest < MaxReleases
    /\ Becomes(s, [cut[s] EXCEPT !.at = "insert", !.version = NextVersion(s)])
    /\ UNCHANGED <<master, archived, releases, client>>

\* The transactions whose row is in the index, committed or not.
Inserted(s) == cut[s].at \in {"list", "read"}
UncommittedElsewhere(s) ==
    \E p \in Sessions \ {s} : Inserted(p) /\ cut[p].version = cut[s].version

NeverCollides(s) == FALSE
Collides(s) == cut[s].version \in Versions

\* The insert waits for an uncommitted row with its number.  If that row
\* commits, this one is a unique violation and its transaction ends:
\* ErrReleaseVersionRace for a publish, a plain error for a merge.
Insert(s) ==
    /\ At(s, "insert")
    /\ ~UncommittedElsewhere(s)
    /\ IF Collides(s) THEN Becomes(s, Idle) ELSE GoTo(s, "list")
    /\ UNCHANGED <<master, archived, releases, client>>

\* locales.List, active ones only.
ListLocales(s) ==
    /\ At(s, "list")
    /\ Becomes(s, [cut[s] EXCEPT !.at = "read", !.todo = Locales \ archived])
    /\ UNCHANGED <<master, archived, releases, client>>

\* What the transaction reads of a locale.
Committed(s, l) == master[l]
WroteOnly(s, l) == cut[s].wrote[l]
View(s, l) == IF cut[s].wrote[l] # None THEN cut[s].wrote[l] ELSE master[l]

\* ForExport and MaterialiseBundle, one locale at a time.
Materialise(s) ==
    \E l \in cut[s].todo :
        /\ At(s, "read")
        /\ Becomes(s, [cut[s] EXCEPT !.bundle[l] = View(s, l), !.todo = @ \ {l}])
        /\ UNCHANGED <<master, archived, releases, client>>

Finished(s) ==
    [floor |-> cut[s].floor, bundle |-> cut[s].bundle, rolled_back_by |-> None]

Commit(s) ==
    /\ At(s, "read") /\ cut[s].todo = {}
    /\ releases' = [v \in Versions \cup {cut[s].version} |->
                       IF v = cut[s].version THEN Finished(s) ELSE releases[v]]
    /\ master' = [l \in Locales |-> View(s, l)]
    /\ Becomes(s, Idle)
    /\ UNCHANGED <<archived, client>>

\* The connection is lost, or a later statement of the merge fails.
Abort(s) ==
    /\ ~At(s, "idle")
    /\ Becomes(s, Idle)
    /\ UNCHANGED <<master, archived, releases, client>>
-----------------------------------------------------------------------------
(* What else moves.                                                        *)

\* Any direct write to master.
Edit(l) ==
    \E t \in Texts \ {master[l]} :
        /\ ~Locked(l)
        /\ master' = [master EXCEPT ![l] = t]
        /\ UNCHANGED <<archived, releases, cut, client>>

ArchiveLocale(l) ==
    /\ archived' = archived \cup {l}
    /\ UNCHANGED <<master, releases, cut, client>>

ActivateLocale(l) ==
    /\ archived' = archived \ {l}
    /\ UNCHANGED <<master, releases, cut, client>>

\* rollbackSQL: only from the not yet withheld state.
NotRolledBack(v) == releases[v].rolled_back_by = None

Rollback(v) ==
    \E a \in Actors :
        /\ NotRolledBack(v)
        /\ releases' = [releases EXCEPT ![v].rolled_back_by = a]
        /\ UNCHANGED <<master, archived, cut, client>>
-----------------------------------------------------------------------------
(* Serving.                                                                *)

Withheld == {v \in Versions : releases[v].rolled_back_by # None}
For(c, v) == releases[v].bundle[Home[c]]
Reaches(c, v) == For(c, v) # None /\ releases[v].floor <= AppVersion[c]

\* servableBundleSQL, and the release it picks.
Servable(c) == {v \in Versions \ Withheld : Reaches(c, v)}
Oldest(c) == CHOOSE v \in Servable(c) : \A w \in Servable(c) : v <= w
Newest(c) == CHOOSE v \in Servable(c) : \A w \in Servable(c) : w <= v

\* A floor that cannot be cast, or compared with what can, fails the query that
\* reads its row.  It reads from the newest row down to the one it picks, or every
\* row and sorts then: that is the planner's choice.
Uncast(c) ==
    {v \in Versions \ Withheld :
        For(c, v) # None /\ releases[v].floor # 0
            /\ (releases[v].floor > MaxInt \/ AppVersion[c] > MaxInt)}
Fails(c) == \E v \in Uncast(c) : \A w \in Servable(c) : w < v

\* The second query, when the first finds nothing.
NewestWithheld(c) ==
    \E v \in Withheld : For(c, v) # None /\ \A w \in Versions : For(c, w) # None => w <= v
KillSwitched(c) == \E v \in Withheld : For(c, v) # None

Answer(c, text) ==
    client' = [client EXCEPT ![c] =
        [at |-> "idle", cache |-> text, known |-> {}, withheld |-> {}]]

\* The app is launched.  ByCode, and 404 for an archived locale, which tells
\* the app nothing about its cache.
AskLocale(c) ==
    /\ client[c].at = "idle"
    /\ Home[c] \notin archived
    /\ client' = [client EXCEPT ![c].at = "bundle",
                                ![c].known = Versions \ Withheld, ![c].withheld = Withheld]
    /\ UNCHANGED <<master, archived, releases, cut>>

\* 200 with the bundle, or 304 when its fingerprint is the one the app holds.
AskBundle(c) ==
    /\ client[c].at = "bundle"
    /\ ~Fails(c)
    /\ IF Servable(c) # {} THEN Answer(c, For(c, Newest(c)))
       ELSE client' = [client EXCEPT ![c].at = "verdict"]
    /\ UNCHANGED <<master, archived, releases, cut>>

\* 500, which tells the app nothing either.
FailBundle(c) ==
    /\ client[c].at = "bundle"
    /\ Uncast(c) # {}
    /\ Answer(c, client[c].cache)
    /\ UNCHANGED <<master, archived, releases, cut>>

Query(c) == AskBundle(c) \/ FailBundle(c)

\* 410 makes the app delete its cache, 404 leaves it alone.
AskVerdict(c) ==
    /\ client[c].at = "verdict"
    /\ Answer(c, IF KillSwitched(c) THEN None ELSE client[c].cache)
    /\ UNCHANGED <<master, archived, releases, cut>>

\* The request or its answer is lost.
Lose(c) ==
    /\ client[c].at # "idle"
    /\ Answer(c, client[c].cache)
    /\ UNCHANGED <<master, archived, releases, cut>>

CutStep(s) ==
    \/ Allocate(s) \/ Insert(s) \/ ListLocales(s) \/ Materialise(s) \/ Commit(s)

Next ==
    \/ \E s \in Sessions : BeginPublish(s) \/ BeginMerge(s) \/ CutStep(s) \/ Abort(s)
    \/ \E l \in Locales : Edit(l) \/ ArchiveLocale(l) \/ ActivateLocale(l)
    \/ \E v \in Versions : Rollback(v)
    \/ \E c \in Clients : AskLocale(c) \/ Query(c) \/ AskVerdict(c) \/ Lose(c)

\* An app asks whenever it is launched, and is launched again and again; a
\* request is answered again and again, whatever else is lost.
Fairness ==
    \A c \in Clients : /\ SF_vars(AskLocale(c))
                       /\ SF_vars(Query(c))
                       /\ SF_vars(AskVerdict(c))

Spec == Init /\ [][Next]_vars /\ Fairness
-----------------------------------------------------------------------------
(* Properties.                                                             *)

\* Releases are cut one behind the other: whatever transactions overlap, a
\* release commits with the number that follows the newest, so versions have no
\* gaps and an older number never appears behind a newer one's back.
ReleasesAppend ==
    [][Versions' # Versions => Versions' = Versions \cup {Cardinality(Versions) + 1}]_vars

\* What a release shipped, and who withheld it, is settled once: no cut that
\* races it, later edit of master or second rollback rewrites either.
ReleasesSettled ==
    [][\A v \in Versions :
          /\ v \in Versions'
          /\ releases'[v].bundle = releases[v].bundle
          /\ releases'[v].floor = releases[v].floor
          /\ v \in Withheld => releases'[v].rolled_back_by = releases[v].rolled_back_by]_vars

\* A merge releases what it merged, and nothing that raced it: every bundle it
\* ships agrees with master as it leaves it at the locales it wrote.
MergeShipsItself ==
    [][\A s \in Sessions : Merging(s) /\ Commit(s) =>
          \A l \in Locales : cut[s].wrote[l] # None /\ cut[s].bundle[l] # None =>
              /\ releases'[cut[s].version].bundle[l] = master'[l]
              /\ master'[l] = cut[s].wrote[l]]_vars

\* What an answer leaves an app with, though its queries share no transaction:
\* a bundle that was not withheld when the app asked, that its version may have,
\* and that no release it could then have had instead supersedes; or nothing.
AnswersAreCurrent ==
    [][\A c \in Clients :
          (AskBundle(c) \/ AskVerdict(c)) /\ client'[c].at = "idle" =>
              \/ client'[c].cache = None
              \/ \E v \in Versions \ client[c].withheld :
                     /\ Reaches(c, v) /\ For(c, v) = client'[c].cache
                     /\ \A w \in client[c].known \cap Servable(c) : w <= v]_vars

\* The app holds nothing, or strings that a release may serve it.
Current(c) ==
    client[c].cache = None \/ \E v \in Servable(c) : For(c, v) = client[c].cache

\* The kill switch works: an app that holds strings no release may serve it
\* gets rid of them, unless its locale stays archived or a floor that cannot be
\* cast stands in the way again and again: that one answers every app of the locale
\* with an error, and nothing but its own withdrawal ends that.
WithheldIsForgotten ==
    \A c \in Clients :
        []<>(Home[c] \notin archived) /\ <>[](Uncast(c) = {}) => (~Current(c) ~> Current(c))
=============================================================================
