------------------------- MODULE ReadCommittedProofs ------------------------
(***************************************************************************)
(* Theorems about ReadCommitted, for any connections, texts and review     *)
(* actions and any number of transactions.                                 *)
(***************************************************************************)
EXTENDS ReadCommitted, TLAPS

USE MaxTxAssumption, NobodyAssumption, ActionsAssumption DEF Rows, Locks

(***************************************************************************)
(* What holds between the statements of the transactions.                  *)
(***************************************************************************)
MergeSteps == {"lock", "validate", "reread", "lock_rows", "conflicts", "apply", "land",
               "finish", "close_branch"}

\* A row that nobody holds is as committed, and no uncommitted row undoes a merge.
\* An approval is not older than the delta it stands over, by the clock at its commit.
Database_OK ==
    /\ \A row \in Rows : holder[row] = Nobody => newest[row] = committed[row]
    /\ committed.request.status = "merged" => newest.request.status = "merged"
    /\ committed.branch.status = "merged" => newest.branch.status = "merged"
    /\ given <= clock /\ committed.delta.at <= clock
    /\ committed.request.status = "approved" =>
           committed.delta.at <= given /\ committed.request.approved_at <= given

\* Which steps are whose, and what is held at them.
Placed(s) ==
    /\ session[s].at \in {"idle", "write", "lock"} => \A l \in Locks : holder[l] # s
    /\ session[s].at \in {"validate", "reread", "lock_rows"} => \A row \in Rows : holder[row] # s
    /\ session[s].at \in {"touch", "invalidate"} => session[s].op = "edit"
    /\ session[s].at \in MergeSteps => session[s].op = "merge"
    /\ holder["delta"] = s => session[s].op = "edit"
    /\ session[s].op = "set" => session[s].arg \in Texts
    /\ session[s].now <= clock

\* Only an approval in progress holds the request with an approval on it.
Approving(s) ==
    holder["request"] = s /\ newest.request.status = "approved" =>
        session[s].op = "approve" /\ newest.request.approved_at = session[s].now

\* An edit that is about to commit has stamped the branch, and either has seen the
\* approval, or the approval was given after the edit began.
Editing(s) ==
    session[s].op = "edit" =>
        /\ session[s].at \in {"touch", "invalidate", "commit"} =>
               holder["delta"] = s /\ newest.delta.at = session[s].now
        /\ session[s].at \in {"invalidate", "commit"} =>
               holder["branch"] = s /\ newest.branch.last_edited_at = session[s].now
        /\ /\ session[s].at = "commit" /\ holder["request"] # s
           /\ committed.request.status = "approved"
           => session[s].now <= given

Setting(s) ==
    session[s].op = "set" /\ session[s].at = "commit" =>
        holder["master"] = s /\ committed.master.version = session[s].seen

\* The row a merge locked stays the row it saw; what it lands is no younger than
\* the approval it ends with, which stands until it commits.
Merging(s) ==
    session[s].op = "merge" =>
        /\ /\ session[s].at \in {"conflicts", "apply", "land", "finish", "close_branch", "commit"}
           /\ session[s].seen # 0
           => /\ holder["master"] = s /\ committed.master.version = session[s].seen
              /\ session[s].at \in {"conflicts", "apply"} =>
                     newest.master.version = session[s].seen
        /\ session[s].at \in {"land", "finish", "close_branch", "commit"} =>
               /\ session[s].landing.at <= clock
               /\ session[s].seen # 0 /\ session[s].landing.text # Untouched =>
                      session[s].landing.base = session[s].seen
        /\ session[s].at \in {"land", "finish"} /\ committed.request.status = "approved" =>
               session[s].landing.at <= given
        /\ session[s].at \in {"close_branch", "commit"} =>
               /\ session[s].landing.at <= given
               /\ holder["request"] = s /\ committed.request.status = "approved"

SessionOK(s) == Placed(s) /\ Approving(s) /\ Editing(s) /\ Setting(s) /\ Merging(s)

Inv == TypeOK /\ Database_OK /\ \A s \in Sessions : SessionOK(s)

(***************************************************************************)
(* Statements.                                                             *)
(***************************************************************************)
LEMMA IdleType == Idle \in Transaction
BY DEF Idle, Transaction, NoDelta, DeltaRow, Steps, Operations

LEMMA Fields ==
    ASSUME TypeOK, NEW s \in Sessions
    PROVE  /\ session[s] \in Transaction
           /\ \A row \in Rows : holder[row] \in Sessions \cup {Nobody}
           /\ committed.master \in MasterRow /\ newest.master \in MasterRow
           /\ committed.delta \in DeltaRow /\ newest.delta \in DeltaRow
           /\ committed.branch \in BranchRow /\ newest.branch \in BranchRow
           /\ committed.request \in RequestRow /\ newest.request \in RequestRow
BY DEF TypeOK, Database

LEMMA ViewType ==
    ASSUME TypeOK, NEW s \in Sessions
    PROVE  /\ View(s, "master") \in MasterRow /\ View(s, "delta") \in DeltaRow
           /\ View(s, "branch") \in BranchRow /\ View(s, "request") \in RequestRow
BY Fields DEF View

\* A session goes on to a step, with everything else of it, and of the others,
\* unchanged.
GoesTo(s, step) ==
    /\ session' \in [Sessions -> Transaction]
    /\ session'[s].at = step
    /\ session'[s].op = session[s].op /\ session'[s].now = session[s].now
    /\ session'[s].arg = session[s].arg /\ session'[s].seen = session[s].seen
    /\ session'[s].landing = session[s].landing
    /\ \A p \in Sessions \ {s} : session'[p] = session[p]

LEMMA GoToGoes ==
    ASSUME TypeOK, NEW s \in Sessions, NEW step \in Steps, GoTo(s, step)
    PROVE  GoesTo(s, step)
<1>1. session[s] \in Transaction
  BY DEF TypeOK
<1>2. [session[s] EXCEPT !.at = step] \in Transaction
  BY <1>1 DEF Transaction
<1>3. session' = [session EXCEPT ![s] = [session[s] EXCEPT !.at = step]]
  BY DEF GoTo
<1>4. session' \in [Sessions -> Transaction]
  BY <1>2, <1>3 DEF TypeOK
<1>5. /\ session'[s] = [session[s] EXCEPT !.at = step]
      /\ \A p \in Sessions \ {s} : session'[p] = session[p]
  BY <1>3 DEF TypeOK
<1> QED
  BY <1>1, <1>4, <1>5 DEF GoesTo, Transaction

\* A statement that writes a row.
Wrote(s, row, new) ==
    /\ holder' \in [Locks -> Sessions \cup {Nobody}]
    /\ holder[row] \in {Nobody, s} /\ holder'[row] = s
    /\ \A l \in Locks \ {row} : holder'[l] = holder[l]
    /\ newest'[row] = new
    /\ \A r \in Rows \ {row} : newest'[r] = newest[r]
    /\ committed' = committed /\ clock' = clock /\ given' = given

LEMMA WriteWrote ==
    ASSUME TypeOK, NEW s \in Sessions, NEW row \in Rows, NEW new, Write(s, row, new)
    PROVE  Wrote(s, row, new)
BY DEF TypeOK, Database, Write, Free, Take, Wrote

LEMMA WriteType ==
    ASSUME TypeOK, NEW s \in Sessions, NEW row \in Rows, NEW new, Write(s, row, new),
           row = "master" => new \in MasterRow, row = "delta" => new \in DeltaRow,
           row = "branch" => new \in BranchRow, row = "request" => new \in RequestRow
    PROVE  newest' \in Database
BY DEF TypeOK, Database, Write

(***************************************************************************)
(* Whoever takes no part in a step keeps what is said of it, if the rows   *)
(* it holds stay as they are and an approval is only ever given at the     *)
(* present time.                                                           *)
(***************************************************************************)
LEMMA Bystander ==
    ASSUME Inv, NEW p \in Sessions, session'[p] = session[p],
           clock \in Nat, clock' \in Nat, given \in Nat, given' \in Nat,
           clock <= clock', given <= given',
           \A l \in Locks : holder'[l] = p <=> holder[l] = p,
           \A row \in Rows : holder[row] = p =>
               newest'[row] = newest[row] /\ committed'[row] = committed[row],
           committed'.request.status = "approved" =>
               committed.request.status = "approved" \/ given' = clock
    PROVE  SessionOK(p)'
<1>1. SessionOK(p) /\ session[p] \in Transaction
  BY DEF Inv, TypeOK
<1>2. session[p].now \in Nat /\ session[p].landing.at \in Nat
  BY <1>1 DEF Transaction, DeltaRow
<1>3. Placed(p)'
  BY <1>1, <1>2 DEF SessionOK, Placed
<1>4. Approving(p)'
  BY <1>1 DEF SessionOK, Approving
<1>5. Editing(p)'
  BY <1>1, <1>2 DEF SessionOK, Placed, Editing
<1>6. Setting(p)'
  BY <1>1 DEF SessionOK, Setting
<1>7. Merging(p)'
  BY <1>1, <1>2 DEF SessionOK, Merging
<1> QED
  BY <1>3, <1>4, <1>5, <1>6, <1>7 DEF SessionOK

LEMMA Clocks ==
    ASSUME TypeOK
    PROVE  clock \in Nat /\ given \in Nat
BY DEF TypeOK

\* A write disturbs nobody but the session that makes it.
LEMMA WriteBystanders ==
    ASSUME Inv, NEW s \in Sessions, NEW row \in Rows, NEW new, Wrote(s, row, new),
           \A p \in Sessions \ {s} : session'[p] = session[p]
    PROVE  \A p \in Sessions \ {s} : SessionOK(p)'
<1> TAKE p \in Sessions \ {s}
<1>1. clock \in Nat /\ given \in Nat /\ clock' = clock /\ given' = given
  BY Clocks DEF Inv, Wrote
<1>2. \A l \in Locks : holder'[l] = p <=> holder[l] = p
  BY DEF Wrote
<1>3. \A r \in Rows : holder[r] = p => newest'[r] = newest[r] /\ committed'[r] = committed[r]
  BY DEF Wrote
<1> QED
  BY <1>1, <1>2, <1>3, Bystander DEF Wrote

LEMMA ReadBystanders ==
    ASSUME Inv, NEW s \in Sessions, Read,
           \A p \in Sessions \ {s} : session'[p] = session[p]
    PROVE  \A p \in Sessions \ {s} : SessionOK(p)'
<1> TAKE p \in Sessions \ {s}
<1>1. clock \in Nat /\ given \in Nat /\ clock' = clock /\ given' = given
  BY Clocks DEF Inv, Read
<1> QED
  BY <1>1, Bystander DEF Read

\* What a write has to keep of the database.
LEMMA WriteKeeps ==
    ASSUME Inv, NEW s \in Sessions, NEW row \in Rows, NEW new, Wrote(s, row, new),
           row = "request" => new.status = "merged" \/ committed.request.status # "merged",
           row = "branch" => new.status = "merged" \/ committed.branch.status # "merged"
    PROVE  Database_OK'
BY DEF Inv, Database_OK, Wrote

LEMMA ReadKeeps ==
    ASSUME Inv, Read
    PROVE  Database_OK'
BY DEF Inv, Database_OK, Read

\* A row that a session may write has the committed contents, or its own.
LEMMA FreeRows ==
    ASSUME Inv, NEW s \in Sessions, NEW row \in Rows, Free(s, row), holder[row] # s
    PROVE  newest[row] = committed[row]
BY DEF Inv, Database_OK, Free

\* The committed status of a row that is not merged for whoever may write it.
LEMMA NotMergedYet ==
    ASSUME Inv
    PROVE  /\ newest.request.status # "merged" => committed.request.status # "merged"
           /\ newest.branch.status # "merged" => committed.branch.status # "merged"
BY DEF Inv, Database_OK

\* Sessions other than s do nothing.
Alone(s) ==
    /\ session' \in [Sessions -> Transaction]
    /\ \A p \in Sessions \ {s} : session'[p] = session[p]

\* A statement that writes keeps the invariant if it keeps what is said of its session.
LEMMA WriteStep ==
    ASSUME Inv, NEW s \in Sessions, NEW row \in Rows, NEW new, Write(s, row, new), Alone(s),
           row = "master" => new \in MasterRow, row = "delta" => new \in DeltaRow,
           row = "branch" => new \in BranchRow, row = "request" => new \in RequestRow,
           row = "request" => new.status = "merged" \/ committed.request.status # "merged",
           row = "branch" => new.status = "merged" \/ committed.branch.status # "merged",
           SessionOK(s)'
    PROVE  Inv'
<1>1. Wrote(s, row, new)
  BY WriteWrote DEF Inv
<1>2. newest' \in Database
  BY WriteType DEF Inv
<1>3. TypeOK'
  BY <1>1, <1>2 DEF Inv, TypeOK, Alone, Wrote
<1>4. Database_OK'
  BY <1>1, WriteKeeps
<1>5. \A p \in Sessions \ {s} : SessionOK(p)'
  BY <1>1, WriteBystanders DEF Alone
<1> QED
  BY <1>3, <1>4, <1>5 DEF Inv

LEMMA ReadStep ==
    ASSUME Inv, NEW s \in Sessions, Read, Alone(s), SessionOK(s)'
    PROVE  Inv'
<1>1. TypeOK'
  BY DEF Inv, TypeOK, Alone, Read
<1>2. \A p \in Sessions \ {s} : SessionOK(p)'
  BY ReadBystanders DEF Alone
<1> QED
  BY <1>1, <1>2, ReadKeeps DEF Inv

LEMMA IdleFields == Idle.at = "idle" /\ Idle.op = "" /\ Idle.now = 0
BY DEF Idle

\* What is said of a session that is idle.
LEMMA IdleOK ==
    ASSUME NEW s \in Sessions, session'[s] = Idle, clock' \in Nat,
           \A l \in Locks : holder'[l] # s
    PROVE  SessionOK(s)'
<1>1. session'[s].at = "idle" /\ session'[s].op = "" /\ session'[s].now = 0
  BY IdleFields
<1>2. 0 <= clock'
  OBVIOUS
<1> QED
  BY <1>1, <1>2 DEF SessionOK, Placed, Approving, Editing, Setting, Merging, MergeSteps

LEMMA EndAlone ==
    ASSUME Inv, NEW s \in Sessions, End(s)
    PROVE  /\ Alone(s) /\ session'[s] = Idle /\ clock' = clock
           /\ holder' \in [Locks -> Sessions \cup {Nobody}]
           /\ \A l \in Locks : holder'[l] = IF holder[l] = s THEN Nobody ELSE holder[l]
           /\ \A l \in Locks : holder'[l] # s
BY IdleType DEF Inv, TypeOK, Alone, End, Release

LEMMA RollbackInv ==
    ASSUME Inv, NEW s \in Sessions, Rollback(s)
    PROVE  Inv'
<1>1. /\ Alone(s) /\ session'[s] = Idle /\ clock' = clock
      /\ holder' \in [Locks -> Sessions \cup {Nobody}]
      /\ \A l \in Locks : holder'[l] = IF holder[l] = s THEN Nobody ELSE holder[l]
      /\ \A l \in Locks : holder'[l] # s
  BY EndAlone DEF Rollback
<1>2. /\ committed' = committed /\ given' = given
      /\ newest' = [row \in Rows |-> IF holder[row] = s THEN committed[row] ELSE newest[row]]
  BY DEF Rollback
<1>3. newest' \in Database
  BY <1>2 DEF Inv, TypeOK, Database
<1>4. TypeOK'
  BY <1>1, <1>2, <1>3 DEF Inv, TypeOK, Alone
<1>5. Database_OK'
  BY <1>1, <1>2 DEF Inv, Database_OK
<1>6. clock \in Nat /\ given \in Nat
  BY Clocks DEF Inv
<1>7. SessionOK(s)'
  BY <1>1, <1>6, IdleOK
<1>8. ASSUME NEW p \in Sessions \ {s}
      PROVE  SessionOK(p)'
  <2>1. \A l \in Locks : holder'[l] = p <=> holder[l] = p
    BY <1>1
  <2>2. \A row \in Rows : holder[row] = p =>
            newest'[row] = newest[row] /\ committed'[row] = committed[row]
    BY <1>2
  <2> QED
    BY <1>1, <1>2, <1>6, <2>1, <2>2, Bystander DEF Alone
<1> QED
  BY <1>4, <1>5, <1>7, <1>8 DEF Inv

(***************************************************************************)
(* A transaction begins.                                                   *)
(***************************************************************************)
LEMMA BeginInv ==
    ASSUME Inv, NEW s \in Sessions, NEW op \in Operations,
           NEW arg \in Texts \cup {Removed, Untouched}, NEW seen \in Nat,
           NEW first \in {"write", "lock"}, Begin(s, op, arg, seen, first),
           first = "lock" => op = "merge", op = "set" => arg \in Texts
    PROVE  Inv'
<1> DEFINE t == [Idle EXCEPT !.at = first, !.op = op, !.now = clock + 1, !.arg = arg,
                             !.seen = seen]
<1>1. clock \in Nat /\ given \in Nat /\ clock < MaxTx /\ clock' = clock + 1
  BY Clocks DEF Inv, Begin
<1>2. /\ committed' = committed /\ newest' = newest /\ holder' = holder /\ given' = given
      /\ session[s].at = "idle" /\ session' = [session EXCEPT ![s] = t]
  BY DEF Begin, At
<1>3. t \in Transaction
  <2>1. clock + 1 \in 0..MaxTx
    BY <1>1
  <2> QED
    BY <2>1, IdleType DEF Transaction, Steps
<1>4. /\ session' \in [Sessions -> Transaction] /\ session'[s] = t
      /\ \A p \in Sessions \ {s} : session'[p] = session[p]
  BY <1>2, <1>3 DEF Inv, TypeOK
<1>5. TypeOK'
  BY <1>1, <1>2, <1>4 DEF Inv, TypeOK
<1>6. Database_OK'
  <2>1. committed.delta.at \in Nat
    BY Fields DEF Inv, DeltaRow
  <2> QED
    BY <1>1, <1>2, <2>1 DEF Inv, Database_OK
<1>7. SessionOK(s)'
  <2>1. \A l \in Locks : holder'[l] # s
    BY <1>2 DEF Inv, SessionOK, Placed
  <2>2. /\ session'[s].at = first /\ session'[s].op = op /\ session'[s].now = clock'
        /\ session'[s].arg = arg
    BY <1>1, <1>3, <1>4, IdleType DEF Transaction
  <2> HIDE DEF t
  <2>3. Placed(s)'
    BY <1>1, <2>1, <2>2 DEF Placed, MergeSteps
  <2> QED
    BY <2>1, <2>2, <2>3 DEF SessionOK, Approving, Editing, Setting, Merging
<1>8. \A p \in Sessions \ {s} : SessionOK(p)'
  BY <1>1, <1>2, <1>4, Bystander
<1> QED
  BY <1>5, <1>6, <1>7, <1>8 DEF Inv

LEMMA ArriveInv ==
    ASSUME Inv, NEW s \in Sessions, Arrive(s)
    PROVE  Inv'
<1>1. CASE BeginEdit(s)
  <2>1. PICK d \in Texts \cup {Removed} : Begin(s, "edit", d, 0, "write")
    BY <1>1 DEF BeginEdit
  <2> QED
    BY <2>1, BeginInv DEF Operations
<1>2. CASE BeginReview(s)
  <2>1. PICK a \in Actions : Begin(s, a, Untouched, 0, "write")
    BY <1>2 DEF BeginReview
  <2>2. a \in Operations /\ a # "set"
    BY DEF Operations, transitions
  <2> QED
    BY <2>1, <2>2, BeginInv
<1>3. CASE BeginTransition(s)
  <2>1. PICK op \in {"close", "reopen"} : Begin(s, op, Untouched, 0, "write")
    BY <1>3 DEF BeginTransition, BranchTarget
  <2> QED
    BY <2>1, BeginInv DEF Operations
<1>4. committed.master.version \in Nat
  BY Fields DEF Inv, MasterRow
<1>5. CASE BeginSet(s)
  <2>1. PICK t \in Texts : Begin(s, "set", t, committed.master.version, "write")
    BY <1>5 DEF BeginSet
  <2> QED
    BY <1>4, <2>1, BeginInv DEF Operations
<1>6. CASE BeginRemove(s)
  BY <1>4, <1>6, BeginInv DEF BeginRemove, Operations
<1>7. CASE BeginMerge(s)
  BY <1>7, BeginInv DEF BeginMerge, Operations
<1> QED
  BY <1>1, <1>2, <1>3, <1>5, <1>6, <1>7 DEF Arrive

(***************************************************************************)
(* A transaction commits.                                                  *)
(***************************************************************************)
LEMMA CommitInv ==
    ASSUME Inv, NEW s \in Sessions, Commit(s)
    PROVE  Inv'
<1>1. /\ Alone(s) /\ session'[s] = Idle /\ clock' = clock
      /\ holder' \in [Locks -> Sessions \cup {Nobody}]
      /\ \A l \in Locks : holder'[l] = IF holder[l] = s THEN Nobody ELSE holder[l]
      /\ \A l \in Locks : holder'[l] # s
  BY EndAlone DEF Commit
<1>2. /\ committed' = [row \in Rows |-> View(s, row)] /\ newest' = newest
      /\ given' = IF session[s].op = "approve" THEN clock ELSE given
      /\ session[s].at = "commit"
  BY DEF Commit, Does, At
<1>3. /\ committed' \in Database
      /\ \A row \in Rows : committed'[row] = IF holder[row] = s THEN newest[row]
                                                                 ELSE committed[row]
  BY <1>2 DEF Inv, TypeOK, Database, View
<1>4. /\ clock \in Nat /\ given \in Nat /\ given' \in Nat
      /\ given <= clock /\ given <= given' /\ given' <= clock
  BY <1>2, Clocks DEF Inv, Database_OK
<1>5. TypeOK'
  BY <1>1, <1>2, <1>3 DEF Inv, TypeOK, Alone
<1>6. /\ Placed(s) /\ Approving(s) /\ Editing(s)
      /\ committed.delta.at \in Nat /\ newest.delta.at \in Nat /\ session[s].now \in Nat
      /\ committed.request.approved_at \in Nat
  BY Fields DEF Inv, SessionOK, Transaction, DeltaRow, RequestRow
\* The approval that stands now is either new, and by s, or the one that stood.
<1>7. ASSUME committed'.request.status = "approved"
      PROVE  \/ holder["request"] = s /\ session[s].op = "approve" /\ given' = clock
                /\ committed'.request.approved_at = session[s].now
             \/ holder["request"] # s /\ committed'.request = committed.request
                /\ committed.request.status = "approved"
  BY <1>2, <1>3, <1>6, <1>7 DEF Approving
<1>8. committed'.delta.at <= clock
  BY <1>2, <1>3, <1>4, <1>6 DEF Inv, Database_OK, Placed, Editing
<1>9. ASSUME committed'.request.status = "approved"
      PROVE  committed'.delta.at <= given' /\ committed'.request.approved_at <= given'
  <2>1. CASE given' = clock /\ committed'.request.approved_at = session[s].now
    BY <1>8, <2>1, <1>6 DEF Placed
  <2>2. CASE holder["request"] # s /\ committed'.request = committed.request
             /\ committed.request.status = "approved"
    <3>1. committed.delta.at <= given /\ committed.request.approved_at <= given
      BY <2>2 DEF Inv, Database_OK
    <3>2. holder["delta"] = s => newest.delta.at <= given
      BY <1>2, <1>6, <2>2 DEF Placed, Editing
    <3>3. committed'.delta = IF holder["delta"] = s THEN newest.delta ELSE committed.delta
      BY <1>3
    <3> QED
      BY <1>4, <1>6, <2>2, <3>1, <3>2, <3>3
  <2>3. \/ given' = clock /\ committed'.request.approved_at = session[s].now
        \/ /\ holder["request"] # s /\ committed'.request = committed.request
           /\ committed.request.status = "approved"
    BY <1>7, <1>9
  <2> QED
    BY <2>1, <2>2, <2>3
<1>10. Database_OK'
  <2>1. \A row \in Rows : holder'[row] = Nobody => newest'[row] = committed'[row]
    BY <1>1, <1>2, <1>3 DEF Inv, Database_OK
  <2>2. /\ committed'.request.status = "merged" => newest'.request.status = "merged"
        /\ committed'.branch.status = "merged" => newest'.branch.status = "merged"
    BY <1>2, <1>3 DEF Inv, Database_OK
  <2> QED
    BY <1>1, <1>4, <1>8, <1>9, <2>1, <2>2 DEF Database_OK
<1>11. SessionOK(s)'
  BY <1>1, <1>4, IdleOK
<1>12. ASSUME NEW p \in Sessions \ {s}
       PROVE  SessionOK(p)'
  <2>1. \A l \in Locks : holder'[l] = p <=> holder[l] = p
    BY <1>1
  <2>2. \A row \in Rows : holder[row] = p =>
            newest'[row] = newest[row] /\ committed'[row] = committed[row]
    BY <1>2, <1>3
  <2>3. committed'.request.status = "approved" =>
            committed.request.status = "approved" \/ given' = clock
    BY <1>7
  <2>4. clock' = clock /\ given' \in Nat /\ session'[p] = session[p]
    BY <1>1, <1>2, <1>4 DEF Alone
  <2> QED
    BY <1>4, <2>1, <2>2, <2>3, <2>4, Bystander
<1> QED
  BY <1>5, <1>10, <1>11, <1>12 DEF Inv

(***************************************************************************)
(* The statements of an edit.                                              *)
(***************************************************************************)
LEMMA GoesAlone ==
    ASSUME NEW s \in Sessions, NEW step, GoesTo(s, step)
    PROVE  Alone(s)
BY DEF GoesTo, Alone

LEMMA WriteDeltaInv ==
    ASSUME Inv, NEW s \in Sessions, WriteDelta(s)
    PROVE  Inv'
<1> DEFINE new == [text |-> session[s].arg,
                   base |-> IF newest.delta.text = Untouched THEN View(s, "master").version
                            ELSE newest.delta.base,
                   at |-> session[s].now]
<1>1. GoesTo(s, "touch") /\ session[s].at = "write" /\ session[s].op = "edit"
  BY GoToGoes DEF Inv, WriteDelta, At, Does, Steps
<1>2. Write(s, "delta", new)
  BY DEF WriteDelta
<1>3. new \in DeltaRow
  BY Fields, ViewType DEF Inv, Transaction, DeltaRow, MasterRow
<1>4. new.at = session[s].now
  OBVIOUS
<1> HIDE DEF new
<1>5. Wrote(s, "delta", new)
  BY <1>2, WriteWrote DEF Inv
<1>6. \A l \in Locks : holder[l] # s
  BY <1>1 DEF Inv, SessionOK, Placed
<1>7. SessionOK(s)'
  <2>1. Placed(s)'
    BY <1>1, <1>5 DEF Inv, SessionOK, Placed, GoesTo, Wrote, MergeSteps
  <2>2. Approving(s)' /\ Editing(s)' /\ Setting(s)' /\ Merging(s)'
    BY <1>1, <1>4, <1>5, <1>6 DEF Approving, Editing, Setting, Merging, GoesTo, Wrote
  <2> QED
    BY <2>1, <2>2 DEF SessionOK
<1> QED
  BY <1>1, <1>2, <1>3, <1>7, GoesAlone, WriteStep

LEMMA TouchBranchInv ==
    ASSUME Inv, NEW s \in Sessions, TouchBranch(s)
    PROVE  Inv'
<1>1. GoesTo(s, "invalidate") /\ session[s].at = "touch" /\ session[s].op = "edit"
  BY GoToGoes DEF Inv, SessionOK, Placed, TouchBranch, At, Steps
<1>2. Write(s, "branch", Touched(s))
  BY DEF TouchBranch
<1>3. /\ Touched(s) \in BranchRow /\ Touched(s).status = newest.branch.status
      /\ Touched(s).last_edited_at = session[s].now
  BY Fields DEF Inv, Touched, Transaction, BranchRow
<1>4. Wrote(s, "branch", Touched(s))
  BY <1>2, WriteWrote DEF Inv
<1>5. SessionOK(s)'
  <2>1. Placed(s)'
    BY <1>1, <1>4 DEF Inv, SessionOK, Placed, GoesTo, Wrote, MergeSteps
  <2>2. Approving(s)'
    BY <1>1, <1>4 DEF Inv, SessionOK, Approving, GoesTo, Wrote
  <2>3. Editing(s)'
    BY <1>1, <1>3, <1>4 DEF Inv, SessionOK, Editing, GoesTo, Wrote
  <2>4. Setting(s)' /\ Merging(s)'
    BY <1>1 DEF Setting, Merging, GoesTo
  <2> QED
    BY <2>1, <2>2, <2>3, <2>4 DEF SessionOK
<1> QED
  BY <1>1, <1>2, <1>3, <1>5, GoesAlone, WriteStep, NotMergedYet

\* An approval that is left to stand is not older than the edit.
LEMMA InvalidateInv ==
    ASSUME Inv, NEW s \in Sessions, Invalidate(s)
    PROVE  Inv'
<1> DEFINE new == [newest.request EXCEPT !.status = "open", !.approved_at = 0,
                                         !.endorsed = Untouched]
<1>1. GoesTo(s, "commit") /\ session[s].at = "invalidate" /\ session[s].op = "edit"
  BY GoToGoes DEF Inv, SessionOK, Placed, Invalidate, At, Steps
<1>2. /\ holder["delta"] = s /\ newest.delta.at = session[s].now
      /\ holder["branch"] = s /\ newest.branch.last_edited_at = session[s].now
      /\ Placed(s)
      /\ ~(holder["request"] = s /\ newest.request.status = "approved")
  BY <1>1 DEF Inv, SessionOK, Editing, Approving
<1>3. CASE EditedSince(s)
  <2>1. Write(s, "request", new)
    BY <1>3 DEF Invalidate
  <2>2. new \in RequestRow /\ new.status = "open"
    <3>1. newest.request \in RequestRow /\ 0 \in 0..MaxTx
      BY Fields DEF Inv
    <3> QED
      BY <3>1 DEF RequestRow
  <2>3. committed.request.status # "merged"
    <3>1. View(s, "request").status = "approved"
      BY <1>3 DEF EditedSince
    <3>2. holder["request"] # s
      BY <1>2, <3>1 DEF View
    <3> QED
      BY <3>1, <3>2 DEF View
  <2> HIDE DEF new
  <2>4. Wrote(s, "request", new)
    BY <2>1, WriteWrote DEF Inv
  <2>5. SessionOK(s)'
    <3>1. Placed(s)'
      BY <1>1, <1>2, <2>4 DEF Placed, GoesTo, Wrote, MergeSteps
    <3>2. Approving(s)' /\ Editing(s)' /\ Setting(s)' /\ Merging(s)'
      BY <1>1, <1>2, <2>2, <2>4 DEF Approving, Editing, Setting, Merging, GoesTo, Wrote
    <3> QED
      BY <3>1, <3>2 DEF SessionOK
  <2> QED
    BY <1>1, <2>1, <2>2, <2>3, <2>5, GoesAlone, WriteStep
<1>4. CASE ~EditedSince(s)
  <2>1. Read
    BY <1>4 DEF Invalidate
  <2>2. ASSUME holder["request"] # s, committed.request.status = "approved"
        PROVE  session[s].now <= given
    <3>1. session[s].now <= committed.request.approved_at
      <4>1. session[s].now \in Nat /\ committed.request.approved_at \in Nat
        BY Fields DEF Inv, Transaction, RequestRow
      <4> QED
        BY <1>2, <1>4, <2>2, <4>1 DEF EditedSince, View
    <3>2. committed.request.approved_at <= given
      BY <2>2 DEF Inv, Database_OK
    <3>3. /\ session[s].now \in Nat /\ committed.request.approved_at \in Nat
          /\ given \in Nat
      BY Fields, Clocks DEF Inv, Transaction, RequestRow
    <3> QED
      BY <3>1, <3>2, <3>3
  <2>3. SessionOK(s)'
    <3>1. Placed(s)'
      BY <1>1, <1>2, <2>1 DEF Placed, GoesTo, Read, MergeSteps
    <3>2. Approving(s)' /\ Editing(s)' /\ Setting(s)' /\ Merging(s)'
      BY <1>1, <1>2, <2>1, <2>2 DEF Approving, Editing, Setting, Merging, GoesTo, Read
    <3> QED
      BY <3>1, <3>2 DEF SessionOK
  <2> QED
    BY <1>1, <2>1, <2>3, GoesAlone, ReadStep
<1> QED
  BY <1>3, <1>4

(***************************************************************************)
(* The statements of a review, a branch transition and a direct edit: one, *)
(* and the commit.                                                         *)
(***************************************************************************)
LEMMA ReviewMoves ==
    ASSUME NEW a \in Actions
    PROVE  /\ a \in {"approve", "request_changes", "reject", "close_request", "reopen_request"}
           /\ a # "approve" => transitions[a].to \in {"changes_requested", "rejected", "closed",
                                                      "open"}
           /\ "merged" \notin transitions[a].from
<1>1. a \in {"approve", "request_changes", "reject", "close_request", "reopen_request"}
  BY DEF transitions
<1>2. CASE a = "approve"
  BY <1>2 DEF transitions, Live
<1>3. CASE a = "request_changes"
  BY <1>3 DEF transitions, Live
<1>4. CASE a = "reject"
  BY <1>4 DEF transitions, Live
<1>5. CASE a = "close_request"
  BY <1>5 DEF transitions, Live
<1>6. CASE a = "reopen_request"
  BY <1>6 DEF transitions, Live
<1> QED
  BY <1>1, <1>2, <1>3, <1>4, <1>5, <1>6

LEMMA ReviewInv ==
    ASSUME Inv, NEW s \in Sessions, Review(s)
    PROVE  Inv'
<1> DEFINE a == session[s].op
           new == IF a = "approve"
                  THEN [status |-> "approved", approved_at |-> session[s].now,
                        endorsed |-> View(s, "delta").text]
                  ELSE [newest.request EXCEPT !.status = transitions[a].to,
                                              !.endorsed = Untouched]
<1>1. session[s].at = "write" /\ a \in Actions
  BY DEF Review, At
<1>2. CASE ~GuardedMove(s, transitions[a].from)
  BY <1>2, RollbackInv DEF Review
<1>3. CASE GuardedMove(s, transitions[a].from)
  <2>1. Write(s, "request", new) /\ GoesTo(s, "commit")
    BY <1>3, GoToGoes DEF Review, Inv, Steps
  <2>2. newest.request.status # "merged"
    BY <1>1, <1>3, ReviewMoves DEF GuardedMove
  <2>3. new \in RequestRow
    <3>1. CASE a = "approve"
      BY <3>1, Fields, ViewType DEF Inv, RequestRow, Transaction, DeltaRow
    <3>2. CASE a # "approve"
      <4>1. newest.request \in RequestRow
        BY Fields DEF Inv
      <4>2. transitions[a].to \in {"changes_requested", "rejected", "closed", "open"}
        BY <1>1, <3>2, ReviewMoves
      <4> QED
        BY <3>2, <4>1, <4>2 DEF RequestRow
    <3> QED
      BY <3>1, <3>2
  <2>4. new.status = "approved" => a = "approve" /\ new.approved_at = session[s].now
    <3>1. CASE a = "approve"
      BY <3>1
    <3>2. CASE a # "approve"
      <4>1. transitions[a].to # "approved"
        BY <1>1, <3>2, ReviewMoves
      <4>2. newest.request \in RequestRow
        BY Fields DEF Inv
      <4> QED
        BY <3>2, <4>1, <4>2 DEF RequestRow
    <3> QED
      BY <3>1, <3>2
  <2> HIDE DEF new
  <2>5. Wrote(s, "request", new)
    BY <2>1, WriteWrote DEF Inv
  <2>6. SessionOK(s)'
    <3>1. a \notin {"edit", "set", "merge"}
      BY <1>1, ReviewMoves
    <3>2. Placed(s)'
      BY <1>1, <2>1, <2>5, <3>1 DEF Inv, SessionOK, Placed, GoesTo, Wrote, MergeSteps
    <3>3. Approving(s)'
      BY <2>1, <2>4, <2>5 DEF Approving, GoesTo, Wrote
    <3>4. Editing(s)' /\ Setting(s)' /\ Merging(s)'
      BY <2>1, <3>1 DEF Editing, Setting, Merging, GoesTo
    <3> QED
      BY <3>2, <3>3, <3>4 DEF SessionOK
  <2> QED
    BY <2>1, <2>2, <2>3, <2>6, GoesAlone, WriteStep, NotMergedYet
<1> QED
  BY <1>2, <1>3

LEMMA TransitionInv ==
    ASSUME Inv, NEW s \in Sessions, Transition(s)
    PROVE  Inv'
<1> DEFINE new == [newest.branch EXCEPT !.status = BranchTarget[session[s].op]]
<1>1. session[s].at = "write" /\ session[s].op \in {"close", "reopen"}
  BY DEF Transition, At, BranchTarget
<1>2. CASE newest.branch.status = "merged"
  BY <1>2, RollbackInv DEF Transition
<1>3. CASE newest.branch.status # "merged"
  <2>1. Write(s, "branch", new) /\ GoesTo(s, "commit")
    BY <1>3, GoToGoes DEF Transition, Inv, Steps
  <2>2. new \in BranchRow
    <3>1. newest.branch \in BranchRow
      BY Fields DEF Inv
    <3>2. BranchTarget[session[s].op] \in {"closed", "open"}
      BY <1>1 DEF BranchTarget
    <3> QED
      BY <3>1, <3>2 DEF BranchRow
  <2> HIDE DEF new
  <2>3. Wrote(s, "branch", new)
    BY <2>1, WriteWrote DEF Inv
  <2>4. SessionOK(s)'
    <3>1. \A l \in Locks : holder[l] # s
      BY <1>1 DEF Inv, SessionOK, Placed
    <3>2. Placed(s)'
      BY <1>1, <2>1, <2>3 DEF Inv, SessionOK, Placed, GoesTo, Wrote, MergeSteps
    <3>3. Approving(s)' /\ Editing(s)' /\ Setting(s)' /\ Merging(s)'
      BY <1>1, <2>1, <2>3, <3>1 DEF Approving, Editing, Setting, Merging, GoesTo, Wrote
    <3> QED
      BY <3>2, <3>3 DEF SessionOK
  <2> QED
    BY <1>3, <2>1, <2>2, <2>4, GoesAlone, WriteStep, NotMergedYet
<1> QED
  BY <1>2, <1>3

\* The row that is replaced is the committed one: nobody holds it, and nor does s.
LEMMA SetMasterInv ==
    ASSUME Inv, NEW s \in Sessions, SetMaster(s)
    PROVE  Inv'
<1> DEFINE new == [value |-> session[s].arg, logged |-> session[s].arg,
                   version |-> session[s].seen + 1]
<1>1. session[s].at = "write" /\ session[s].op = "set"
  BY DEF SetMaster, At, Does
<1>2. CASE ~CheckedVersion(s)
  BY <1>2, RollbackInv DEF SetMaster
<1>3. CASE CheckedVersion(s)
  <2>1. Write(s, "master", new) /\ GoesTo(s, "commit")
    BY <1>3, GoToGoes DEF SetMaster, Inv, Steps
  <2>2. new \in MasterRow
    BY <1>1, Fields DEF Inv, SessionOK, Placed, Transaction, MasterRow
  <2> HIDE DEF new
  <2>3. Wrote(s, "master", new)
    BY <2>1, WriteWrote DEF Inv
  <2>4. \A l \in Locks : holder[l] # s
    BY <1>1 DEF Inv, SessionOK, Placed
  <2>5. committed.master.version = session[s].seen
    BY <1>3, <2>1, <2>4, FreeRows DEF CheckedVersion, Write
  <2>6. SessionOK(s)'
    <3>1. Placed(s)'
      BY <1>1, <2>1, <2>3 DEF Inv, SessionOK, Placed, GoesTo, Wrote, MergeSteps
    <3>2. Approving(s)' /\ Editing(s)' /\ Setting(s)' /\ Merging(s)'
      BY <1>1, <2>1, <2>3, <2>4, <2>5
         DEF Approving, Editing, Setting, Merging, GoesTo, Wrote
    <3> QED
      BY <3>1, <3>2 DEF SessionOK
  <2> QED
    BY <2>1, <2>2, <2>6, GoesAlone, WriteStep
<1> QED
  BY <1>2, <1>3

LEMMA RemoveMasterInv ==
    ASSUME Inv, NEW s \in Sessions, RemoveMaster(s)
    PROVE  Inv'
<1> DEFINE new == [value |-> Absent, version |-> 0, logged |-> Absent]
<1>1. session[s].at = "write" /\ session[s].op = "remove"
  BY DEF RemoveMaster, At, Does
<1>2. CASE newest.master.version = 0
  BY <1>2, RollbackInv DEF RemoveMaster
<1>3. CASE newest.master.version # 0
  <2>1. Write(s, "master", new) /\ GoesTo(s, "commit")
    BY <1>3, GoToGoes DEF RemoveMaster, Inv, Steps
  <2>2. new \in MasterRow
    BY DEF MasterRow
  <2> HIDE DEF new
  <2>3. Wrote(s, "master", new)
    BY <2>1, WriteWrote DEF Inv
  <2>4. SessionOK(s)'
    <3>1. \A l \in Locks : holder[l] # s
      BY <1>1 DEF Inv, SessionOK, Placed
    <3>2. Placed(s)'
      BY <1>1, <2>1, <2>3 DEF Inv, SessionOK, Placed, GoesTo, Wrote, MergeSteps
    <3>3. Approving(s)' /\ Editing(s)' /\ Setting(s)' /\ Merging(s)'
      BY <1>1, <2>1, <2>3, <3>1 DEF Approving, Editing, Setting, Merging, GoesTo, Wrote
    <3> QED
      BY <3>2, <3>3 DEF SessionOK
  <2> QED
    BY <2>1, <2>2, <2>4, GoesAlone, WriteStep
<1> QED
  BY <1>2, <1>3

(***************************************************************************)
(* The statements of the merge.                                            *)
(***************************************************************************)
LEMMA LockMergesInv ==
    ASSUME Inv, NEW s \in Sessions, LockMerges(s)
    PROVE  Inv'
<1>1. GoesTo(s, "validate") /\ session[s].at = "lock" /\ session[s].op = "merge"
  BY GoToGoes DEF Inv, SessionOK, Placed, LockMerges, At, Steps, MergeSteps
<1>2. /\ holder["merge_lock"] \in {Nobody, s}
      /\ holder' \in [Locks -> Sessions \cup {Nobody}]
      /\ \A row \in Rows : holder'[row] = holder[row]
      /\ holder'["merge_lock"] = s
      /\ committed' = committed /\ newest' = newest /\ clock' = clock /\ given' = given
  BY DEF Inv, TypeOK, LockMerges, Free, Take
<1>3. TypeOK'
  BY <1>1, <1>2 DEF Inv, TypeOK, GoesTo
<1>4. Database_OK'
  BY <1>2 DEF Inv, Database_OK
<1>5. \A row \in Rows : holder[row] # s
  BY <1>1 DEF Inv, SessionOK, Placed
<1>6. SessionOK(s)'
  <2>1. Placed(s)'
    BY <1>1, <1>2, <1>5 DEF Inv, SessionOK, Placed, GoesTo, MergeSteps
  <2>2. Approving(s)' /\ Editing(s)' /\ Setting(s)' /\ Merging(s)'
    BY <1>1, <1>2, <1>5 DEF Approving, Editing, Setting, Merging, GoesTo
  <2> QED
    BY <2>1, <2>2 DEF SessionOK
<1>7. ASSUME NEW p \in Sessions \ {s}
      PROVE  SessionOK(p)'
  <2>1. clock \in Nat /\ given \in Nat /\ session'[p] = session[p]
    BY <1>1, Clocks DEF Inv, GoesTo
  <2>2. \A l \in Locks : holder'[l] = p <=> holder[l] = p
    BY <1>2
  <2> QED
    BY <1>2, <2>1, <2>2, Bystander
<1> QED
  BY <1>3, <1>4, <1>6, <1>7 DEF Inv

\* A check that passes: the merge has no row and is not past its conflict check.
LEMMA CheckInv ==
    ASSUME Inv, NEW s \in Sessions, NEW step \in {"reread", "lock_rows"},
           session[s].at \in {"validate", "reread"}, GoTo(s, step), Read
    PROVE  Inv'
<1>1. GoesTo(s, step) /\ session[s].op = "merge"
  BY GoToGoes DEF Inv, SessionOK, Placed, MergeSteps, Steps
<1>2. \A row \in Rows : holder[row] # s
  BY DEF Inv, SessionOK, Placed
<1>3. SessionOK(s)'
  <2>1. Placed(s)'
    BY <1>1, <1>2 DEF Inv, SessionOK, Placed, GoesTo, Read, MergeSteps
  <2>2. Approving(s)' /\ Editing(s)' /\ Setting(s)' /\ Merging(s)'
    BY <1>1, <1>2 DEF Approving, Editing, Setting, Merging, GoesTo, Read
  <2> QED
    BY <2>1, <2>2 DEF SessionOK
<1> QED
  BY <1>1, <1>3, GoesAlone, ReadStep

LEMMA ValidateInv ==
    ASSUME Inv, NEW s \in Sessions, Validate(s) \/ RereadRequest(s)
    PROVE  Inv'
<1>1. CASE Rollback(s)
  BY <1>1, RollbackInv
<1>2. CASE Validate(s) /\ ~Rollback(s)
  BY <1>2, CheckInv DEF Validate, At
<1>3. CASE RereadRequest(s) /\ ~Rollback(s)
  BY <1>3, CheckInv DEF RereadRequest, At
<1> QED
  BY <1>1, <1>2, <1>3

\* The row there is, is locked, and its version is the one that is kept in mind.
LEMMA LockRowsInv ==
    ASSUME Inv, NEW s \in Sessions, LockRows(s)
    PROVE  Inv'
<1> DEFINE seen == IF Affected(s) THEN View(s, "master").version ELSE 0
           t == [session[s] EXCEPT !.at = "conflicts", !.seen = seen]
<1>1. session[s].at = "lock_rows" /\ session[s].op = "merge"
  BY DEF Inv, SessionOK, Placed, LockRows, At, MergeSteps
<1>2. \A row \in Rows : holder[row] # s
  BY <1>1 DEF Inv, SessionOK, Placed
<1>3. t \in Transaction
  <2>1. seen \in Nat
    BY ViewType DEF Inv, MasterRow
  <2>2. session[s] \in Transaction
    BY Fields DEF Inv
  <2> HIDE DEF seen
  <2> QED
    BY <2>1, <2>2 DEF Transaction, Steps
<1>4. session' = [session EXCEPT ![s] = t]
  BY DEF LockRows
<1>5. Alone(s) /\ session'[s] = t
  BY <1>3, <1>4 DEF Inv, TypeOK, Alone
<1>6. /\ session'[s].at = "conflicts" /\ session'[s].op = "merge" /\ session'[s].seen = seen
      /\ session'[s].now = session[s].now /\ session'[s].arg = session[s].arg
  BY <1>1, <1>5, Fields DEF Inv, Transaction
<1> HIDE DEF t
<1>7. seen = IF Affected(s) THEN committed.master.version ELSE 0
  BY <1>2 DEF View
<1> HIDE DEF seen
<1>8. CASE Affected(s)
  <2>1. Write(s, "master", newest.master)
    BY <1>8 DEF LockRows, LockedRows
  <2>2. Wrote(s, "master", newest.master)
    BY <2>1, WriteWrote DEF Inv
  <2>3. newest.master = committed.master
    BY <1>2, <2>1, FreeRows DEF Write
  <2>4. SessionOK(s)'
    <3>1. Placed(s)'
      BY <1>1, <1>2, <1>6, <2>2 DEF Inv, SessionOK, Placed, Wrote, MergeSteps
    <3>2. Approving(s)' /\ Editing(s)' /\ Setting(s)' /\ Merging(s)'
      BY <1>2, <1>6, <1>7, <1>8, <2>2, <2>3 DEF Approving, Editing, Setting, Merging, Wrote
    <3> QED
      BY <3>1, <3>2 DEF SessionOK
  <2> QED
    BY <1>5, <2>1, <2>4, Fields, WriteStep DEF Inv
<1>9. CASE ~Affected(s)
  <2>1. Read
    BY <1>9 DEF LockRows, LockedRows
  <2>2. SessionOK(s)'
    <3>1. Placed(s)'
      BY <1>1, <1>2, <1>6, <2>1 DEF Inv, SessionOK, Placed, Read, MergeSteps
    <3>2. Approving(s)' /\ Editing(s)' /\ Setting(s)' /\ Merging(s)'
      BY <1>2, <1>6, <1>7, <1>9, <2>1 DEF Approving, Editing, Setting, Merging, Read
    <3> QED
      BY <3>1, <3>2 DEF SessionOK
  <2> QED
    BY <1>5, <2>1, <2>2, ReadStep
<1> QED
  BY <1>8, <1>9

LEMMA CheckConflictsInv ==
    ASSUME Inv, NEW s \in Sessions, CheckConflicts(s)
    PROVE  Inv'
<1>1. session[s].at = "conflicts"
  BY DEF CheckConflicts, At
<1>2. CASE Conflicted(s)
  BY <1>2, RollbackInv DEF CheckConflicts
<1>3. CASE ~Conflicted(s)
  <2>1. GoesTo(s, "apply") /\ Read /\ session[s].op = "merge"
    BY <1>1, <1>3, GoToGoes DEF CheckConflicts, Inv, SessionOK, Placed, MergeSteps, Steps
  <2>2. SessionOK(s)'
    <3>1. Placed(s)'
      BY <2>1 DEF Inv, SessionOK, Placed, GoesTo, Read, MergeSteps
    <3>2. Approving(s)'
      BY <2>1 DEF Inv, SessionOK, Approving, GoesTo, Read
    <3>3. Merging(s)'
      BY <1>1, <2>1 DEF Inv, SessionOK, Merging, GoesTo, Read
    <3>4. Editing(s)' /\ Setting(s)'
      BY <2>1 DEF Editing, Setting, GoesTo
    <3> QED
      BY <3>1, <3>2, <3>3, <3>4 DEF SessionOK
  <2> QED
    BY <2>1, <2>2, GoesAlone, ReadStep
<1> QED
  BY <1>2, <1>3

\* The delta that lands is the committed one: it is as old as the approval, if one
\* stands, and its base is the version of the row that the merge has locked.
LEMMA ApplyInv ==
    ASSUME Inv, NEW s \in Sessions, Apply(s)
    PROVE  Inv'
<1> DEFINE t == [session[s] EXCEPT !.at = "land", !.landing = View(s, "delta")]
<1>1. session[s].at = "apply" /\ session[s].op = "merge"
  BY DEF Inv, SessionOK, Placed, Apply, At, MergeSteps
<1>2. CASE Conflicted(s)
  BY <1>2, RollbackInv DEF Apply
<1>3. CASE ~Conflicted(s)
  <2>1. Read /\ session' = [session EXCEPT ![s] = t]
    BY <1>3 DEF Apply
  <2>2. View(s, "delta") = committed.delta
    BY <1>1 DEF Inv, SessionOK, Placed, View
  <2>3. t \in Transaction
    <3>1. session[s] \in Transaction /\ View(s, "delta") \in DeltaRow
      BY Fields, ViewType DEF Inv
    <3> QED
      BY <3>1 DEF Transaction, Steps
  <2>4. Alone(s) /\ session'[s] = t
    BY <2>1, <2>3 DEF Inv, TypeOK, Alone
  <2>5. /\ session'[s].at = "land" /\ session'[s].op = "merge"
        /\ session'[s].seen = session[s].seen /\ session'[s].now = session[s].now
        /\ session'[s].arg = session[s].arg /\ session'[s].landing = committed.delta
    BY <1>1, <2>2, <2>4, Fields DEF Inv, Transaction
  <2> HIDE DEF t
  <2>6. /\ committed.delta.at <= clock
        /\ committed.request.status = "approved" => committed.delta.at <= given
    BY DEF Inv, Database_OK
  <2>7. ASSUME session[s].seen # 0
        PROVE  /\ holder["master"] = s /\ committed.master.version = session[s].seen
               /\ committed.delta.text # Untouched => committed.delta.base = session[s].seen
    <3>1. /\ holder["master"] = s /\ committed.master.version = session[s].seen
          /\ newest.master.version = session[s].seen
      BY <1>1, <2>7 DEF Inv, SessionOK, Merging
    <3> QED
      BY <1>3, <2>2, <3>1 DEF Conflicted, View
  <2>8. SessionOK(s)'
    <3>1. Placed(s)'
      BY <1>1, <2>1, <2>5 DEF Inv, SessionOK, Placed, Read, MergeSteps
    <3>2. Approving(s)'
      BY <1>1, <2>1, <2>5 DEF Inv, SessionOK, Approving, Read
    <3>3. Merging(s)'
      BY <2>1, <2>5, <2>6, <2>7 DEF Merging, Read
    <3>4. Editing(s)' /\ Setting(s)'
      BY <2>5 DEF Editing, Setting
    <3> QED
      BY <3>1, <3>2, <3>3, <3>4 DEF SessionOK
  <2> QED
    BY <2>1, <2>4, <2>8, ReadStep
<1> QED
  BY <1>2, <1>3

LEMMA LandInv ==
    ASSUME Inv, NEW s \in Sessions, Land(s)
    PROVE  Inv'
<1> DEFINE d == session[s].landing
           put == [value |-> d.text, logged |-> d.text, version |-> newest.master.version + 1]
           gone == [value |-> Absent, version |-> 0, logged |-> Absent]
<1>1. GoesTo(s, "finish") /\ session[s].at = "land" /\ session[s].op = "merge"
  BY GoToGoes DEF Inv, SessionOK, Placed, Land, At, Steps, MergeSteps
<1>2. ASSUME NEW new \in MasterRow, Write(s, "master", new)
      PROVE  Inv'
  <2>1. Wrote(s, "master", new)
    BY <1>2, WriteWrote DEF Inv
  <2>2. SessionOK(s)'
    <3>1. Placed(s)'
      BY <1>1, <2>1 DEF Inv, SessionOK, Placed, GoesTo, Wrote, MergeSteps
    <3>2. Approving(s)'
      BY <1>1, <2>1 DEF Inv, SessionOK, Approving, GoesTo, Wrote
    <3>3. Merging(s)'
      BY <1>1, <2>1 DEF Inv, SessionOK, Merging, GoesTo, Wrote
    <3>4. Editing(s)' /\ Setting(s)'
      BY <1>1 DEF Editing, Setting, GoesTo
    <3> QED
      BY <3>1, <3>2, <3>3, <3>4 DEF SessionOK
  <2> QED
    BY <1>1, <1>2, <2>2, GoesAlone, WriteStep
<1>3. CASE Upserts(s) /\ Write(s, "master", put)
  <2>1. put \in MasterRow
    BY <1>3, Fields DEF Inv, Upserts, MasterRow
  <2> QED
    BY <1>2, <1>3, <2>1
<1>4. CASE Write(s, "master", gone)
  <2>1. gone \in MasterRow
    BY DEF MasterRow
  <2> QED
    BY <1>2, <1>4, <2>1
<1>5. CASE Read
  <2>1. SessionOK(s)'
    <3>1. Placed(s)'
      BY <1>1, <1>5 DEF Inv, SessionOK, Placed, GoesTo, Read, MergeSteps
    <3>2. Approving(s)'
      BY <1>1, <1>5 DEF Inv, SessionOK, Approving, GoesTo, Read
    <3>3. Merging(s)'
      BY <1>1, <1>5 DEF Inv, SessionOK, Merging, GoesTo, Read
    <3>4. Editing(s)' /\ Setting(s)'
      BY <1>1 DEF Editing, Setting, GoesTo
    <3> QED
      BY <3>1, <3>2, <3>3, <3>4 DEF SessionOK
  <2> QED
    BY <1>1, <1>5, <2>1, GoesAlone, ReadStep
<1> QED
  BY <1>3, <1>4, <1>5 DEF Land

\* The request that becomes merged is approved as committed: nobody, the merge
\* included, has written it and kept it approved.
LEMMA FinishRequestInv ==
    ASSUME Inv, NEW s \in Sessions, FinishRequest(s)
    PROVE  Inv'
<1> DEFINE new == [newest.request EXCEPT !.status = "merged"]
<1>1. session[s].at = "finish" /\ session[s].op = "merge"
  BY DEF Inv, SessionOK, Placed, FinishRequest, At, MergeSteps
<1>2. CASE ~GuardedMove(s, {"approved"})
  BY <1>2, RollbackInv DEF FinishRequest
<1>3. CASE GuardedMove(s, {"approved"})
  <2>1. Write(s, "request", new) /\ GoesTo(s, "close_branch")
    BY <1>3, GoToGoes DEF FinishRequest, Inv, Steps
  <2>2. new \in RequestRow /\ new.status = "merged"
    <3>1. newest.request \in RequestRow
      BY Fields DEF Inv
    <3> QED
      BY <3>1 DEF RequestRow
  <2> HIDE DEF new
  <2>3. Wrote(s, "request", new)
    BY <2>1, WriteWrote DEF Inv
  <2>4. committed.request.status = "approved"
    <3>1. newest.request.status = "approved"
      BY <1>3 DEF GuardedMove
    <3>2. holder["request"] # s
      BY <1>1, <3>1 DEF Inv, SessionOK, Approving
    <3> QED
      BY <2>1, <3>1, <3>2, FreeRows DEF Write
  <2>5. SessionOK(s)'
    <3>1. Placed(s)'
      BY <1>1, <2>1, <2>3 DEF Inv, SessionOK, Placed, GoesTo, Wrote, MergeSteps
    <3>2. Merging(s)'
      BY <1>1, <2>1, <2>3, <2>4 DEF Inv, SessionOK, Merging, GoesTo, Wrote
    <3>3. Approving(s)' /\ Editing(s)' /\ Setting(s)'
      BY <1>1, <2>1, <2>2, <2>3 DEF Approving, Editing, Setting, GoesTo, Wrote
    <3> QED
      BY <3>1, <3>2, <3>3 DEF SessionOK
  <2> QED
    BY <2>1, <2>2, <2>5, GoesAlone, WriteStep
<1> QED
  BY <1>2, <1>3

LEMMA FinishBranchInv ==
    ASSUME Inv, NEW s \in Sessions, FinishBranch(s)
    PROVE  Inv'
<1> DEFINE new == [newest.branch EXCEPT !.status = "merged"]
<1>1. session[s].at = "close_branch" /\ session[s].op = "merge"
  BY DEF Inv, SessionOK, Placed, FinishBranch, At, MergeSteps
<1>2. Write(s, "branch", new) /\ GoesTo(s, "commit")
  BY GoToGoes DEF FinishBranch, Inv, Steps
<1>3. new \in BranchRow /\ new.status = "merged"
  <2>1. newest.branch \in BranchRow
    BY Fields DEF Inv
  <2> QED
    BY <2>1 DEF BranchRow
<1> HIDE DEF new
<1>4. Wrote(s, "branch", new)
  BY <1>2, WriteWrote DEF Inv
<1>5. SessionOK(s)'
  <2>1. Placed(s)'
    BY <1>1, <1>2, <1>4 DEF Inv, SessionOK, Placed, GoesTo, Wrote, MergeSteps
  <2>2. Approving(s)'
    BY <1>1, <1>2, <1>4 DEF Inv, SessionOK, Approving, GoesTo, Wrote
  <2>3. Merging(s)'
    BY <1>1, <1>2, <1>4 DEF Inv, SessionOK, Merging, GoesTo, Wrote
  <2>4. Editing(s)' /\ Setting(s)'
    BY <1>1, <1>2 DEF Editing, Setting, GoesTo
  <2> QED
    BY <2>1, <2>2, <2>3, <2>4 DEF SessionOK
<1> QED
  BY <1>2, <1>3, <1>5, GoesAlone, WriteStep

(***************************************************************************)
(* Every step.                                                             *)
(***************************************************************************)
LEMMA InitInv == Init => Inv
<1> SUFFICES ASSUME Init
             PROVE  Inv
  OBVIOUS
<1>1. PICK t \in Texts, v \in {0, 1}, drafted \in BOOLEAN, st \in {"open", "approved"} :
          LET d == IF drafted THEN t ELSE Untouched
          IN committed =
              [master |-> [value |-> IF v = 0 THEN Absent ELSE t, version |-> v,
                           logged |-> IF v = 0 THEN Absent ELSE t],
               delta |-> [text |-> d, base |-> IF drafted THEN v ELSE 0, at |-> 0],
               branch |-> [status |-> "open", last_edited_at |-> 0],
               request |-> [status |-> st, approved_at |-> 0,
                            endorsed |-> IF st = "approved" THEN d ELSE Untouched]]
  BY DEF Init
<1>2. /\ newest = committed /\ holder = [l \in Locks |-> Nobody]
      /\ session = [s \in Sessions |-> Idle] /\ clock = 0 /\ given = 0
  BY DEF Init
<1>3. /\ committed.master \in MasterRow /\ committed.delta \in DeltaRow
      /\ committed.branch \in BranchRow /\ committed.request \in RequestRow
  BY <1>1 DEF MasterRow, DeltaRow, BranchRow, RequestRow
<1>4. committed \in Database
  <2> DEFINE m == committed.master
             d == committed.delta
             b == committed.branch
             r == committed.request
  <2>1. committed = [master |-> m, delta |-> d, branch |-> b, request |-> r]
    BY <1>1
  <2> HIDE DEF m, d, b, r
  <2>2. m \in MasterRow /\ d \in DeltaRow /\ b \in BranchRow /\ r \in RequestRow
    BY <1>3 DEF m, d, b, r
  <2> QED
    BY <2>1, <2>2 DEF Database
<1>5. /\ committed.delta.at = 0 /\ committed.request.approved_at = 0
      /\ committed.request.status # "merged" /\ committed.branch.status = "open"
  BY <1>1
<1>6. TypeOK
  BY <1>2, <1>4, IdleType DEF TypeOK
<1>7. Database_OK
  BY <1>2, <1>5 DEF Database_OK
<1>8. ASSUME NEW s \in Sessions
      PROVE  SessionOK(s)
  <2>1. session[s].at = "idle" /\ session[s].op = "" /\ session[s].now = 0
    BY <1>2, IdleFields
  <2>2. \A l \in Locks : holder[l] # s
    BY <1>2
  <2>3. 0 <= clock
    BY <1>2
  <2> QED
    BY <2>1, <2>2, <2>3
       DEF SessionOK, Placed, Approving, Editing, Setting, Merging, MergeSteps
<1> QED
  BY <1>6, <1>7, <1>8 DEF Inv

LEMMA StepInv ==
    ASSUME Inv, NEW s \in Sessions, Step(s)
    PROVE  Inv'
<1>1. CASE WriteDelta(s) \/ TouchBranch(s) \/ Invalidate(s)
  BY <1>1, WriteDeltaInv, TouchBranchInv, InvalidateInv
<1>2. CASE Review(s) \/ Transition(s) \/ SetMaster(s) \/ RemoveMaster(s)
  BY <1>2, ReviewInv, TransitionInv, SetMasterInv, RemoveMasterInv
<1>3. CASE LockMerges(s) \/ Validate(s) \/ RereadRequest(s) \/ LockRows(s)
  BY <1>3, LockMergesInv, ValidateInv, LockRowsInv
<1>4. CASE CheckConflicts(s) \/ Apply(s) \/ Land(s)
  BY <1>4, CheckConflictsInv, ApplyInv, LandInv
<1>5. CASE FinishRequest(s) \/ FinishBranch(s)
  BY <1>5, FinishRequestInv, FinishBranchInv
<1>6. CASE Commit(s)
  BY <1>6, CommitInv
<1> QED
  BY <1>1, <1>2, <1>3, <1>4, <1>5, <1>6 DEF Step

LEMMA StutterInv ==
    ASSUME Inv, UNCHANGED vars
    PROVE  Inv'
<1>1. /\ committed' = committed /\ newest' = newest /\ holder' = holder
      /\ session' = session /\ clock' = clock /\ given' = given
  BY DEF vars
<1>2. TypeOK' /\ Database_OK'
  BY <1>1 DEF Inv, TypeOK, Database_OK
<1>3. ASSUME NEW s \in Sessions
      PROVE  SessionOK(s)'
  <2>1. clock \in Nat /\ given \in Nat
    BY Clocks DEF Inv
  <2> QED
    BY <1>1, <2>1, Bystander
<1> QED
  BY <1>2, <1>3 DEF Inv

LEMMA NextInv == Inv /\ [Next]_vars => Inv'
<1> SUFFICES ASSUME Inv, [Next]_vars
             PROVE  Inv'
  OBVIOUS
<1>1. ASSUME NEW s \in Sessions, Arrive(s)
      PROVE  Inv'
  BY <1>1, ArriveInv
<1>2. ASSUME NEW s \in Sessions, Step(s)
      PROVE  Inv'
  BY <1>2, StepInv
<1>3. ASSUME NEW s \in Sessions, Victim(s) \/ Crash(s)
      PROVE  Inv'
  BY <1>3, RollbackInv DEF Victim, Crash
<1>4. CASE Quiet \/ UNCHANGED vars
  BY <1>4, StutterInv DEF Quiet
<1> QED
  BY <1>1, <1>2, <1>3, <1>4 DEF Next

LEMMA InvAlways == Spec => []Inv
<1> QED
  BY InitInv, NextInv, PTL DEF Spec

\* Nothing but a commit changes what is committed.
LEMMA OnlyCommitsCommit ==
    ASSUME [Next]_vars, ~\E s \in Sessions : Commit(s)
    PROVE  committed' = committed
<1>1. ASSUME NEW s \in Sessions, Arrive(s)
      PROVE  committed' = committed
  BY <1>1 DEF Arrive, BeginEdit, BeginReview, BeginTransition, BeginSet, BeginRemove,
              BeginMerge, Begin
<1>2. ASSUME NEW s \in Sessions, Rollback(s) \/ Read
      PROVE  committed' = committed
  BY <1>2 DEF Rollback, Read
<1>3. ASSUME NEW s \in Sessions, NEW row, NEW new, Write(s, row, new)
      PROVE  committed' = committed
  BY <1>3 DEF Write
<1>4. ASSUME NEW s \in Sessions, Step(s), ~Commit(s)
      PROVE  committed' = committed
  <2>1. CASE WriteDelta(s) \/ TouchBranch(s) \/ Invalidate(s) \/ FinishBranch(s)
    BY <1>2, <1>3, <2>1 DEF WriteDelta, TouchBranch, Invalidate, FinishBranch
  <2>2. CASE Review(s) \/ Transition(s) \/ SetMaster(s) \/ RemoveMaster(s) \/ FinishRequest(s)
    BY <1>2, <1>3, <2>2 DEF Review, Transition, SetMaster, RemoveMaster, FinishRequest
  <2>3. CASE LockMerges(s) \/ Validate(s) \/ RereadRequest(s) \/ LockRows(s)
    BY <1>2, <1>3, <2>3 DEF LockMerges, Validate, RereadRequest, LockRows
  <2>4. CASE CheckConflicts(s) \/ Apply(s) \/ Land(s)
    BY <1>2, <1>3, <2>4 DEF CheckConflicts, Apply, Land
  <2> QED
    BY <1>4, <2>1, <2>2, <2>3, <2>4 DEF Step
<1>5. CASE Quiet \/ UNCHANGED vars
  BY <1>5 DEF Quiet, vars
<1> QED
  BY <1>1, <1>2, <1>4, <1>5 DEF Next, Victim, Crash

(***************************************************************************)
(* Theorems.                                                               *)
(***************************************************************************)
\* Every row, committed or not, every lock and every transaction keeps its type,
\* whatever the texts, the connections and the number of transactions.
THEOREM TransactionsTypeCorrect == Spec => []TypeOK
<1>1. Inv => TypeOK
  BY DEF Inv
<1> QED
  BY <1>1, InvAlways, PTL

\* A direct edit of master commits over the version it read (CheckedVersion and the
\* row lock held to the commit), for any number of connections at once.
THEOREM DirectEditsKeepUpdates == Spec => NoLostUpdate
<1>1. Inv => [\A s \in Sessions : Does(s, "set") /\ Commit(s) =>
                  committed.master.version = session[s].seen]_vars
  BY DEF Inv, SessionOK, Setting, Does, Commit, At
<1> QED
  BY <1>1, InvAlways, PTL DEF NoLostUpdate

\* A merged request and a merged branch stay merged in every order of commits: no
\* row in progress undoes it (GuardedMove and Transition under the row locks).  And a
\* merge holds the approved request from its last check to its commit.
THEOREM MergesAreFinal == Spec => MergedIsFinal
<1> DEFINE Final == /\ committed.request.status = "merged" => committed'.request.status = "merged"
                    /\ committed.branch.status = "merged" => committed'.branch.status = "merged"
                    /\ \A s \in Sessions : MergeCommits(s) => committed.request.status = "approved"
<1>1. ASSUME Inv, [Next]_vars
      PROVE  Final
  <2>0. ASSUME NEW s \in Sessions, MergeCommits(s)
        PROVE  committed.request.status = "approved"
    BY <1>1, <2>0 DEF Inv, SessionOK, Merging, MergeCommits, Does, Commit, At
  <2>1. CASE \E s \in Sessions : Commit(s)
    <3>1. PICK s \in Sessions : Commit(s)
      BY <2>1
    <3>2. \A row \in Rows : committed'[row] \in {newest[row], committed[row]}
      BY <3>1 DEF Commit, View
    <3> QED
      BY <1>1, <2>0, <3>2 DEF Inv, Database_OK
  <2>2. CASE ~\E s \in Sessions : Commit(s)
    <3>1. committed' = committed
      BY <1>1, <2>2, OnlyCommitsCommit
    <3> QED
      BY <2>0, <3>1
  <2> QED
    BY <2>1, <2>2
<1>2. Inv /\ [Next]_vars => [Final]_vars
  BY <1>1
<1> QED
  BY <1>2, InvAlways, PTL DEF Spec, MergedIsFinal

\* No merge carries an edit that began after the newest approval was committed:
\* the edit's stamp on the branch takes back every approval it has seen, and the
\* merge's own check sees the stamp (invalidateApprovalSQL, SetStatus).
THEOREM ApprovalsCoverEdits == Spec => LaterEditsNeedApproval
<1>1. Inv => [\A s \in Sessions : MergeCommits(s) => session[s].landing.at <= given]_vars
  BY DEF Inv, SessionOK, Merging, MergeCommits, Does, Commit, At
<1> QED
  BY <1>1, InvAlways, PTL DEF LaterEditsNeedApproval

\* A row that the merge locked is at the version its delta was drafted over when
\* the merge commits, whoever else writes (the FOR UPDATE of the merge).
THEOREM LocksHoldToTheCommit == Spec => LockedRowsRespected
<1>1. Inv => [\A s \in Sessions :
                 MergeCommits(s) /\ session[s].landing.text # Untouched /\ session[s].seen # 0 =>
                     committed.master.version = session[s].landing.base]_vars
  BY DEF Inv, SessionOK, Merging, MergeCommits, Does, Commit, At
<1> QED
  BY <1>1, InvAlways, PTL DEF LockedRowsRespected
=============================================================================
