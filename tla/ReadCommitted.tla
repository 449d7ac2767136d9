--------------------------- MODULE ReadCommitted ---------------------------
(***************************************************************************)
(* What overlapping transactions do to each other under READ COMMITTED.    *)
(*                                                                         *)
(* Workspace runs each handler as one step.  Here a handler is its         *)
(* sequence of SQL statements, on one (key, locale) pair, one branch that  *)
(* drafts it and that branch's merge request.  A statement reads what is   *)
(* committed when it starts (and what its own transaction wrote), writes   *)
(* under a row lock held to the end of the transaction, and evaluates its  *)
(* predicate on the row it locked.  now() is the start of the TRANSACTION. *)
(*                                                                         *)
(* A statement that would wait for a lock is taken to start when the lock  *)
(* is free.  The one statement whose older snapshot matters is the merge's *)
(* INSERT ... ON CONFLICT DO UPDATE, which has a step for its snapshot and *)
(* a step for its write.                                                   *)
(*                                                                         *)
(* No conflict is resolved here, so a merge that finds one stops.          *)
(***************************************************************************)
EXTENDS Naturals

CONSTANTS
    Sessions,   \* database connections: at most one transaction each
    Texts,
    Actions,    \* the review actions offered, a subset of DOMAIN transitions
    MaxTx,      \* bound: transactions ever begun, and so the clock
    Absent, Removed, Untouched, Nobody

ASSUME MaxTxAssumption == MaxTx \in Nat
ASSUME NobodyAssumption == Nobody \notin Sessions

(***************************************************************************)
(* The four rows the handlers contend for, and mergesvc's advisory lock.   *)
(***************************************************************************)
Rows == {"master", "delta", "branch", "request"}
Locks == Rows \cup {"merge_lock"}

VARIABLES
    committed,  \* committed[row]: what every other transaction sees
    newest,     \* newest[row]: what the holder of the row's lock wrote
    holder,     \* holder[l]: the session that holds lock l
    session,    \* each session's transaction
    clock,      \* transactions begun so far: the source of now()
    given       \* history variable: clock when the newest approval committed

vars == <<committed, newest, holder, session, clock, given>>

\* translations, with the newest translation_history row that speaks of master
MasterRow == [value : Texts \cup {Absent}, version : Nat,
              logged : Texts \cup {Absent}]
\* branch_translations; at is updated_at
DeltaRow == [text : Texts \cup {Removed, Untouched}, base : Nat, at : 0..MaxTx]
BranchRow == [status : {"open", "closed", "merged"}, last_edited_at : 0..MaxTx]
\* endorsed is a history variable: the delta that stood when the request was approved
RequestRow == [status : {"open", "changes_requested", "approved", "rejected",
                         "closed", "merged"},
               approved_at : 0..MaxTx,
               endorsed : Texts \cup {Removed, Untouched}]
Database == [master : MasterRow, delta : DeltaRow, branch : BranchRow,
             request : RequestRow]

Steps == {"idle", "write", "touch", "invalidate", "lock", "validate", "reread",
          "lock_rows", "conflicts", "apply", "land", "finish", "close_branch", "commit"}
Operations == {"", "edit", "set", "remove", "close", "reopen", "merge"} \cup Actions

\* One transaction: where it is, what it does, its now(), its argument, the
\* master version it read (the merge: in its FOR UPDATE), and the delta that the
\* merge's statement found applicable.
Transaction == [at : Steps, op : Operations, now : 0..MaxTx,
                arg : Texts \cup {Removed, Untouched}, seen : Nat,
                landing : DeltaRow]

NoDelta == [text |-> Untouched, base |-> 0, at |-> 0]
Idle == [at |-> "idle", op |-> "", now |-> 0, arg |-> Untouched, seen |-> 0,
         landing |-> NoDelta]

TypeOK ==
    /\ committed \in Database
    /\ newest \in Database
    /\ holder \in [Locks -> Sessions \cup {Nobody}]
    /\ session \in [Sessions -> Transaction]
    /\ clock \in 0..MaxTx
    /\ given \in 0..MaxTx

\* A translator has drafted the pair, or not yet, over a master that holds a
\* text or does not; the request is open or was approved as things stand.
Init ==
    /\ \E t \in Texts, v \in {0, 1}, drafted \in BOOLEAN, s \in {"open", "approved"} :
           LET d == IF drafted THEN t ELSE Untouched
           IN committed =
               [master |-> [value |-> IF v = 0 THEN Absent ELSE t, version |-> v,
                            logged |-> IF v = 0 THEN Absent ELSE t],
                delta |-> [text |-> d, base |-> IF drafted THEN v ELSE 0, at |-> 0],
                branch |-> [status |-> "open", last_edited_at |-> 0],
                request |-> [status |-> s, approved_at |-> 0,
                             endorsed |-> IF s = "approved" THEN d ELSE Untouched]]
    /\ newest = committed
    /\ holder = [l \in Locks |-> Nobody]
    /\ session = [s \in Sessions |-> Idle]
    /\ clock = 0
    /\ given = 0
-----------------------------------------------------------------------------
(* Statements.                                                             *)

\* What session s reads.
View(s, row) == IF holder[row] = s THEN newest[row] ELSE committed[row]

Free(s, l) == holder[l] \in {Nobody, s}
At(s, step) == session[s].at = step
Does(s, op) == session[s].op = op

GoTo(s, step) == session' = [session EXCEPT ![s].at = step]

Take(s, l) == holder' = [holder EXCEPT ![l] = s]

\* Lock the row and write it.
Write(s, row, new) ==
    /\ Free(s, row)
    /\ Take(s, row)
    /\ newest' = [newest EXCEPT ![row] = new]
    /\ UNCHANGED <<committed, clock, given>>

\* A statement that writes nothing.
Read == UNCHANGED <<committed, newest, holder, clock, given>>

Begin(s, op, arg, seen, first) ==
    /\ At(s, "idle")
    /\ clock < MaxTx
    /\ clock' = clock + 1
    /\ session' = [session EXCEPT ![s] =
           [Idle EXCEPT !.at = first, !.op = op, !.now = clock + 1, !.arg = arg,
                        !.seen = seen]]
    /\ UNCHANGED <<committed, newest, holder, given>>

\* Every lock goes with the transaction, the advisory one included: it is the
\* _xact_ variant.
LeakingRelease(s) ==
    [l \in Locks |-> IF holder[l] = s /\ l # "merge_lock" THEN Nobody ELSE holder[l]]
Release(s) == [l \in Locks |-> IF holder[l] = s THEN Nobody ELSE holder[l]]

End(s) ==
    /\ holder' = Release(s)
    /\ session' = [session EXCEPT ![s] = Idle]
    /\ UNCHANGED clock

Commit(s) ==
    /\ At(s, "commit")
    /\ committed' = [row \in Rows |-> View(s, row)]
    /\ given' = IF Does(s, "approve") THEN clock ELSE given
    /\ UNCHANGED newest
    /\ End(s)

Rollback(s) ==
    /\ newest' = [row \in Rows |-> IF holder[row] = s THEN committed[row] ELSE newest[row]]
    /\ UNCHANGED <<committed, given>>
    /\ End(s)
-----------------------------------------------------------------------------
(* SetTranslation and DeleteTranslation on the branch.  The branch is read *)
(* once, without a lock, and never looked at again.                        *)

Found(s) ==
    IF View(s, "delta").text = Untouched THEN View(s, "master").version # 0
    ELSE View(s, "delta").text # Removed

BeginEdit(s) ==
    \E d \in Texts \cup {Removed} :
        /\ committed.branch.status = "open"
        /\ d = Removed => Found(s)
        /\ Begin(s, "edit", d, 0, "write")

\* setValueSQL and removeValueSQL: the base is captured on insert only.
WriteDelta(s) ==
    /\ At(s, "write") /\ Does(s, "edit")
    /\ Write(s, "delta",
             [text |-> session[s].arg,
              base |-> IF newest.delta.text = Untouched THEN View(s, "master").version
                       ELSE newest.delta.base,
              at |-> session[s].now])
    /\ GoTo(s, "touch")

Untouching(s) == newest.branch
Touched(s) == [newest.branch EXCEPT !.last_edited_at = session[s].now]

TouchBranch(s) ==
    /\ At(s, "touch")
    /\ Write(s, "branch", Touched(s))
    /\ GoTo(s, "invalidate")

\* invalidateApprovalSQL, run by every branch edit and again by the merge.
EditedSince(s) ==
    /\ View(s, "request").status = "approved"
    /\ View(s, "branch").last_edited_at > View(s, "request").approved_at

Invalidate(s) ==
    /\ At(s, "invalidate")
    /\ GoTo(s, "commit")
    /\ IF EditedSince(s)
       THEN Write(s, "request", [newest.request EXCEPT !.status = "open",
                                     !.approved_at = 0, !.endorsed = Untouched])
       ELSE Read
-----------------------------------------------------------------------------
(* Review.  The status is checked when it is read and again by the UPDATE. *)

Live == {"open", "changes_requested", "approved"}
transitions == [
    approve         |-> [from |-> {"open", "changes_requested"}, to |-> "approved"],
    request_changes |-> [from |-> {"open", "approved"}, to |-> "changes_requested"],
    reject          |-> [from |-> Live, to |-> "rejected"],
    close_request   |-> [from |-> Live, to |-> "closed"],
    reopen_request  |-> [from |-> {"rejected", "closed"}, to |-> "open"]]

ASSUME ActionsAssumption == Actions \subseteq DOMAIN transitions

BeginReview(s) ==
    \E a \in Actions :
        /\ committed.request.status \in transitions[a].from
        /\ Begin(s, a, Untouched, 0, "write")

\* The state predicate of Approve and SetStatus.
UnguardedMove(s, from) == TRUE
GuardedMove(s, from) == newest.request.status \in from

Review(s) ==
    LET a == session[s].op
    IN /\ At(s, "write") /\ a \in Actions
       /\ IF GuardedMove(s, transitions[a].from)
          THEN /\ Write(s, "request",
                        IF a = "approve"
                        THEN [status |-> "approved", approved_at |-> session[s].now,
                              endorsed |-> View(s, "delta").text]
                        ELSE [newest.request EXCEPT !.status = transitions[a].to,
                                                    !.endorsed = Untouched])
               /\ GoTo(s, "commit")
          ELSE Free(s, "request") /\ Rollback(s)

\* Close and Reopen of the branch.  A branch already there is left alone.
ArchiveTarget == [close |-> "archived", reopen |-> "open"]
BranchTarget == [close |-> "closed", reopen |-> "open"]

BeginTransition(s) ==
    \E op \in DOMAIN BranchTarget :
        /\ committed.branch.status \notin {"merged", BranchTarget[op]}
        /\ Begin(s, op, Untouched, 0, "write")

Transition(s) ==
    /\ At(s, "write") /\ session[s].op \in DOMAIN BranchTarget
    /\ IF newest.branch.status # "merged"
       THEN /\ Write(s, "branch",
                     [newest.branch EXCEPT !.status = BranchTarget[session[s].op]])
            /\ GoTo(s, "commit")
       ELSE Free(s, "branch") /\ Rollback(s)
-----------------------------------------------------------------------------
(* SetTranslation and DeleteTranslation on master.                         *)

BeginSet(s) ==
    \E t \in Texts : Begin(s, "set", t, committed.master.version, "write")

\* CreateCell and UpdateWithVersion carry the version in the statement itself:
\* the row must still be absent, or still at the version that was read.
UncheckedVersion(s) == TRUE
CheckedVersion(s) == newest.master.version = session[s].seen

SetMaster(s) ==
    /\ At(s, "write") /\ Does(s, "set")
    /\ IF CheckedVersion(s)
       THEN /\ Write(s, "master", [value |-> session[s].arg, logged |-> session[s].arg,
                                   version |-> session[s].seen + 1])
            /\ GoTo(s, "commit")
       ELSE Free(s, "master") /\ Rollback(s)

BeginRemove(s) ==
    /\ committed.master.version # 0
    /\ Begin(s, "remove", Untouched, committed.master.version, "write")

\* Without a base_version the DELETE takes whatever version it finds.
RemoveMaster(s) ==
    /\ At(s, "write") /\ Does(s, "remove")
    /\ IF newest.master.version # 0
       THEN /\ Write(s, "master", [value |-> Absent, version |-> 0, logged |-> Absent])
            /\ GoTo(s, "commit")
       ELSE Free(s, "master") /\ Rollback(s)
-----------------------------------------------------------------------------
(* The merge.                                                              *)

BeginMerge(s) == Begin(s, "merge", Untouched, 0, "lock")

\* pg_advisory_xact_lock, and the branch by name, whatever its status.
LockMerges(s) ==
    /\ At(s, "lock")
    /\ Free(s, "merge_lock")
    /\ Take(s, "merge_lock")
    /\ GoTo(s, "validate")
    /\ UNCHANGED <<committed, newest, clock, given>>

\* A stale approval is taken back, and ErrStaleApproval rolls that back too.
Validate(s) ==
    /\ At(s, "validate")
    /\ IF EditedSince(s) THEN Free(s, "request") /\ Rollback(s)
       ELSE GoTo(s, "reread") /\ Read

RereadRequest(s) ==
    /\ At(s, "reread")
    /\ IF View(s, "request").status = "approved" THEN GoTo(s, "lock_rows") /\ Read
       ELSE Rollback(s)

\* SELECT ... FOR UPDATE reaches the translations row that is there, if the
\* branch has a delta over it.
Affected(s) == View(s, "delta").text # Untouched /\ View(s, "master").version # 0
LockedNothing(s) == FALSE
LockedRows(s) == Affected(s)

LockRows(s) ==
    /\ At(s, "lock_rows")
    /\ session' = [session EXCEPT ![s].at = "conflicts",
           ![s].seen = IF Affected(s) THEN View(s, "master").version ELSE 0]
    /\ IF LockedRows(s) THEN Write(s, "master", newest.master) ELSE Read

Conflicted(s) ==
    LET d == View(s, "delta")
    IN d.text # Untouched /\ View(s, "master").version # d.base

CheckConflicts(s) ==
    /\ At(s, "conflicts")
    /\ IF Conflicted(s) THEN Rollback(s) ELSE GoTo(s, "apply") /\ Read

\* The snapshot of applyDeltasSQL and removeDeltasSQL: a delta that is no
\* longer applicable is ErrConcurrentMasterWrite.
Apply(s) ==
    /\ At(s, "apply")
    /\ IF Conflicted(s) THEN Rollback(s)
       ELSE /\ session' = [session EXCEPT ![s].at = "land",
                                          ![s].landing = View(s, "delta")]
            /\ Read

Upserts(s) == session[s].landing.text \in Texts
Deletes(s) == session[s].landing.text = Removed /\ session[s].landing.base # 0

\* The write of the same statements.  The upsert waits for whoever inserts the
\* row and then updates what it finds; the delete reaches only a row its
\* snapshot held.
Land(s) ==
    LET d == session[s].landing
    IN /\ At(s, "land")
       /\ GoTo(s, "finish")
       /\ \/ /\ Upserts(s)
             /\ Write(s, "master", [value |-> d.text, logged |-> d.text,
                                    version |-> newest.master.version + 1])
          \/ /\ Deletes(s)
             /\ Write(s, "master", [value |-> Absent, version |-> 0, logged |-> Absent])
          \/ ~Upserts(s) /\ ~Deletes(s) /\ Read

\* SetStatus, only from 'approved'.
FinishRequest(s) ==
    /\ At(s, "finish")
    /\ IF GuardedMove(s, {"approved"})
       THEN /\ Write(s, "request", [newest.request EXCEPT !.status = "merged"])
            /\ GoTo(s, "close_branch")
       ELSE Free(s, "request") /\ Rollback(s)

FinishBranch(s) ==
    /\ At(s, "close_branch")
    /\ Write(s, "branch", [newest.branch EXCEPT !.status = "merged"])
    /\ GoTo(s, "commit")
-----------------------------------------------------------------------------
(* Waiting.                                                                *)

\* The lock that the statement s is at would wait for.
Needs(s) ==
    CASE At(s, "write") /\ Does(s, "edit") -> {"delta"}
      [] At(s, "write") /\ session[s].op \in Actions -> {"request"}
      [] At(s, "write") /\ session[s].op \in DOMAIN BranchTarget -> {"branch"}
      [] At(s, "write") /\ session[s].op \in {"set", "remove"} -> {"master"}
      [] At(s, "touch") \/ At(s, "close_branch") -> {"branch"}
      [] At(s, "invalidate") \/ At(s, "validate") ->
             IF EditedSince(s) THEN {"request"} ELSE {}
      [] At(s, "lock") -> {"merge_lock"}
      [] At(s, "lock_rows") -> IF LockedRows(s) THEN {"master"} ELSE {}
      [] At(s, "land") -> IF Upserts(s) \/ Deletes(s) THEN {"master"} ELSE {}
      [] At(s, "finish") -> {"request"}
      [] OTHER -> {}

WaitsFor(s) == {holder[l] : l \in {k \in Needs(s) : ~Free(s, k)}}

\* A set of sessions each waiting for another of the set, all of it.
Deadlocked(S) == S # {} /\ UNION {WaitsFor(s) : s \in S} = S

\* Postgres breaks a deadlock by failing one statement of it.
Victim(s) ==
    /\ \E S \in SUBSET Sessions : s \in S /\ Deadlocked(S)
    /\ Rollback(s)

\* The process dies, the client goes away or the connection is lost.
Crash(s) == ~At(s, "idle") /\ Rollback(s)

Step(s) ==
    \/ WriteDelta(s) \/ TouchBranch(s) \/ Invalidate(s)
    \/ Review(s) \/ Transition(s)
    \/ SetMaster(s) \/ RemoveMaster(s)
    \/ LockMerges(s) \/ Validate(s) \/ RereadRequest(s) \/ LockRows(s)
    \/ CheckConflicts(s) \/ Apply(s) \/ Land(s)
    \/ FinishRequest(s) \/ FinishBranch(s)
    \/ Commit(s)

Arrive(s) ==
    \/ BeginEdit(s) \/ BeginReview(s) \/ BeginTransition(s)
    \/ BeginSet(s) \/ BeginRemove(s) \/ BeginMerge(s)

\* All the transactions there are have ended.
Quiet == clock = MaxTx /\ session = [s \in Sessions |-> Idle] /\ UNCHANGED vars

Next ==
    \/ \E s \in Sessions : Arrive(s) \/ Step(s) \/ Victim(s) \/ Crash(s)
    \/ Quiet

\* A transaction that can go on does, and the deadlock detector always runs.
\* Nothing makes a request arrive or a process crash.
Fairness ==
    /\ \A s \in Sessions : WF_vars(Step(s))
    /\ \A s \in Sessions : WF_vars(Victim(s))

Spec == Init /\ [][Next]_vars /\ Fairness
-----------------------------------------------------------------------------
(* Properties.                                                             *)

MergeCommits(s) == Does(s, "merge") /\ Commit(s)

\* A direct edit never replaces a version its author was not shown: the row it
\* replaces is the one it read, whatever committed in between (SetTranslation).
NoLostUpdate ==
    [][\A s \in Sessions : Does(s, "set") /\ Commit(s) =>
           committed.master.version = session[s].seen]_vars

\* Merged is for ever, and happens once: a close, a reject or a branch transition
\* that read the old status and arrives late never undoes a merge (SetStatus, both
\* of them), and whatever reviews and merges race, a merge commits only while its
\* request stands approved, so never behind another one.
MergedIsFinal ==
    [][/\ committed.request.status = "merged" => committed'.request.status = "merged"
       /\ committed.branch.status = "merged" => committed'.branch.status = "merged"
       /\ \A s \in Sessions : MergeCommits(s) => committed.request.status = "approved"]_vars

\* No edit whose transaction began after the approval was committed can reach
\* master on the strength of it, however it interleaves with the merge.
LaterEditsNeedApproval ==
    [][\A s \in Sessions : MergeCommits(s) => session[s].landing.at <= given]_vars

\* A master row that was there when the merge locked the rows it affects is the
\* row its branch started from when the merge commits: nothing overtakes it.
LockedRowsRespected ==
    [][\A s \in Sessions :
           MergeCommits(s) /\ session[s].landing.text # Untouched /\ session[s].seen # 0 =>
               committed.master.version = session[s].landing.base]_vars

\* Every transaction commits or rolls back: no wait outlives the deadlock
\* detector, and no lock outlives its transaction.
TransactionsEnd == \A s \in Sessions : ~At(s, "idle") ~> At(s, "idle")

\* What the merge says of its last guard: a master write that the conflict
\* check did not see is impossible to overwrite silently.
NoRaceOverwrites ==
    [][\A s \in Sessions :
           MergeCommits(s) /\ session[s].landing.text # Untouched =>
               committed.master.version = session[s].landing.base]_vars

\* What the repository says of the approval check: a reviewer cannot approve
\* one diff and have a different one merged.
ApprovalCoversWhatLands ==
    [][\A s \in Sessions : MergeCommits(s) =>
           session[s].landing.text = committed.request.endorsed]_vars
=============================================================================
