-------------------------------- MODULE Import --------------------------------
(***************************************************************************)
(* The import of a Lokalise project, the export of files and the seed from *)
(* files.                                                                  *)
(*                                                                         *)
(* Keys and texts come from the API, page by page and with retries, while  *)
(* others go on working there; which keys have a text at all comes from    *)
(* a file export, because the API says "" for a blank text and for none.   *)
(* What was fetched is then written in one transaction, beside a master    *)
(* that people edit.  A seed writes what files say; the archives that the  *)
(* system exports itself are laid out like those of Lokalise and serve     *)
(* both.  There is one locale, and all keys are keys of the Flutter files; *)
(* keys without any name, which are skipped, are left out.                 *)
(***************************************************************************)
EXTENDS Integers, Files, FiniteSetsExt

CONSTANTS
    RemoteIds,      \* key_id at Lokalise
    Names,          \* canonical names
    Descriptions,
    Texts,          \* texts but the blank one
    PageSize,
    MaxAttempts,    \* maxAttempts
    MaxEdits,       \* bound of the edits, here and there, under way and between
    MaxRuns,        \* bound of the imports and seeds
    Blank,          \* the text ""
    Absent,         \* no text
    NoDescription,  \* the description ""
    None

ASSUME ImportAssumption ==
    /\ RemoteIds \subseteq Nat \ {0} /\ IsFiniteSet(RemoteIds)
    /\ IsFiniteSet(Names)
    /\ {PageSize, MaxAttempts} \subseteq Nat \ {0}
    /\ {MaxEdits, MaxRuns} \subseteq Nat
    /\ {Blank, Absent} \cap Texts = {} /\ Blank # Absent
    /\ NoDescription \in Descriptions

VARIABLES
    remote,     \* the keys of the Lokalise project
    export,     \* the files at hand, a text for each name in them, or None
    rows,       \* keys, each with its text
    importer    \* the run under way, or None

VARIABLES       \* bounds
    edits,
    runs

VARIABLES       \* history
    last        \* what the rows were last made from or into, until somebody edits one, or None

vars == <<remote, export, rows, importer, edits, runs, last>>

Values == Texts \cup {Blank, Absent}
Exports == UNION {[S -> Texts \cup {Blank}] : S \in SUBSET Names}
RemoteKeys == [name : Names, desc : Descriptions, value : Values]
Fetched == [RemoteIds -> RemoteKeys \cup {None}]
Rows == [name : Names, active : BOOLEAN, desc : Descriptions, version : Nat \ {0},
         origin : RemoteIds \cup {None}, value : Values, hint : {"plain", "cdata"},
         valueVersion : Nat]

\* steady: the keys that were there ever since the run began; shifted: some key
\* was not.
Run == [stage : {"languages", "keys", "store"}, page : Nat, attempt : 1 .. MaxAttempts,
        got : Fetched, steady : SUBSET RemoteIds, shifted : BOOLEAN]

\* None is no key, no id, no run, no file and no history.
ASSUME NoneAssumption ==
    /\ None \notin RemoteIds
    /\ None \notin RemoteKeys
    /\ None \notin Run
    /\ None \notin Exports
    /\ None \notin [got : Fetched, export : Exports]
    /\ None \notin [files : Exports, exported : BOOLEAN]

TypeOK ==
    /\ remote \in Fetched
    /\ export \in Exports \cup {None}
    /\ rows \in Seq(Rows)
    /\ \A r \in DOMAIN rows : rows[r].value = Absent <=> rows[r].valueVersion = 0
    /\ \A r, s \in DOMAIN rows : r # s =>
           /\ ~(rows[r].active /\ rows[s].active /\ rows[r].name = rows[s].name)
           /\ rows[r].origin # None => rows[r].origin # rows[s].origin
    /\ importer \in Run \cup {None}
    /\ edits \in 0 .. MaxEdits
    /\ runs \in 0 .. MaxRuns

\* Descriptions come by edits only, which keeps the initial states few.
Init ==
    /\ remote \in [RemoteIds -> [name : Names, desc : {NoDescription}, value : Values] \cup {None}]
    /\ export = None
    /\ rows = <<>>
    /\ importer = None
    /\ edits = 0
    /\ runs = 0
    /\ last = None
-----------------------------------------------------------------------------
(* Lokalise.                                                               *)

Listed == {i \in RemoteIds : remote[i] # None}

Edited == edits < MaxEdits /\ edits' = edits + 1

\* A key is changed, removed, or added, which gives it the largest id.
EditRemote(i, k) ==
    /\ Edited
    /\ remote[i] # k
    /\ remote[i] = None => \A j \in Listed : j < i
    /\ remote' = [remote EXCEPT ![i] = k]
    /\ importer' =
           IF k = None /\ importer # None
           THEN [importer EXCEPT !.steady = @ \ {i}, !.shifted = TRUE] ELSE importer
    /\ UNCHANGED <<export, rows, runs, last>>

\* Somebody exports files, which hold the keys that have a text, blank or not.  A
\* reader takes the last text that a file has for a name.
ExportFiles ==
    LET texted == {i \in Listed : remote[i].value # Absent}
    IN /\ importer = None
       /\ export' = [n \in {remote[i].name : i \in texted} |->
                         remote[Max({i \in texted : remote[i].name = n})].value]
       /\ UNCHANGED <<remote, rows, importer, edits, runs, last>>
-----------------------------------------------------------------------------
(* Master, as people edit it.                                              *)

NewRow(n, desc, origin) ==
    [name |-> n, active |-> TRUE, desc |-> desc, version |-> 1, origin |-> origin,
     value |-> Absent, hint |-> "plain", valueVersion |-> 0]

NameFree(n) == \A r \in DOMAIN rows : ~(rows[r].active /\ rows[r].name = n)

EditRow(r, row) ==
    /\ Edited
    /\ rows' = [rows EXCEPT ![r] = row]
    /\ last' = None
    /\ UNCHANGED <<remote, export, importer, runs>>

CreateKey(n) ==
    /\ NameFree(n)
    /\ Edited
    /\ rows' = Append(rows, NewRow(n, NoDescription, None))
    /\ last' = None
    /\ UNCHANGED <<remote, export, importer, runs>>

RenameKey(r, n) ==
    /\ rows[r].active /\ NameFree(n)
    /\ EditRow(r, [rows[r] EXCEPT !.name = n, !.version = @ + 1])

DeleteKey(r) ==
    /\ rows[r].active
    /\ EditRow(r, [rows[r] EXCEPT !.active = FALSE, !.version = @ + 1])

SetText(r, v, hint) ==
    /\ rows[r].active
    /\ EditRow(r, [rows[r] EXCEPT !.value = v, !.hint = hint, !.valueVersion = @ + 1])

RemoveText(r) ==
    /\ rows[r].active /\ rows[r].value # Absent
    /\ EditRow(r, [rows[r] EXCEPT !.value = Absent, !.hint = "plain", !.valueVersion = 0])
-----------------------------------------------------------------------------
(* The client: get, Languages, Keys.                                       *)

Begin ==
    /\ importer = None
    /\ export # None
    /\ runs < MaxRuns
    /\ runs' = runs + 1
    /\ importer' = [stage |-> "languages", page |-> 1, attempt |-> 1,
                    got |-> [i \in RemoteIds |-> None], steady |-> Listed, shifted |-> FALSE]
    /\ UNCHANGED <<remote, export, rows, edits, last>>

Asking == importer # None /\ importer.stage # "store"

Ends ==
    /\ importer' = None
    /\ UNCHANGED <<remote, export, rows, edits, runs, last>>

\* 429, a server error, or no answer: again, but not for ever.
PerPage(run) == [run EXCEPT !.attempt = @ + 1, !.page = @ + 1]
Again(run) == [run EXCEPT !.attempt = @ + 1]

Retry ==
    /\ Asking /\ importer.attempt < MaxAttempts
    /\ importer' = Again(importer)
    /\ UNCHANGED <<remote, export, rows, edits, runs, last>>

\* Any other error, the last attempt, a locale that Lokalise does not have, an
\* export that cannot be read, a failing statement, a dry run, or a crash.
Fail == importer # None /\ Ends

AnswerLanguages ==
    /\ importer # None /\ importer.stage = "languages"
    /\ importer' = [importer EXCEPT !.stage = "keys", !.attempt = 1]
    /\ UNCHANGED <<remote, export, rows, edits, runs, last>>

\* Pages are cut from the list as it is now.
Place(i) == Cardinality({j \in Listed : j <= i})
Page(p) == {i \in Listed : (p - 1) * PageSize < Place(i) /\ Place(i) <= p * PageSize}

\* A short page is the last page.
NotLonger(S) == Cardinality(S) <= PageSize
LastPage(S) == Cardinality(S) < PageSize

AnswerKeys ==
    /\ importer # None /\ importer.stage = "keys"
    /\ LET S == Page(importer.page)
       IN importer' = [importer EXCEPT
              !.got = [i \in RemoteIds |-> IF i \in S THEN remote[i] ELSE @[i]],
              !.stage = IF LastPage(S) THEN "store" ELSE "keys",
              !.page = @ + 1,
              !.attempt = 1]
    /\ UNCHANGED <<remote, export, rows, edits, runs, last>>
-----------------------------------------------------------------------------
(* run: everything in one transaction, whose upserts lock the keys they     *)
(* meet, changed or not: as if it ran alone.                               *)

Got == {i \in RemoteIds : importer.got[i] # None}

Known(R, n) == {r \in DOMAIN R : R[r].active /\ R[r].name = n}

\* upsertKeySQL: by name, and without touching a row that is as it should be.  No
\* description does not erase one.
Redescribed(row, desc) == [row EXCEPT !.desc = desc, !.version = @ + 1]
Described(row, desc) ==
    IF desc \in {NoDescription, row.desc} THEN row ELSE Redescribed(row, desc)

UpsertByName(R, i) ==
    LET k == importer.got[i]
        known == Known(R, k.name)
    IN IF known # {}
       THEN [r \in DOMAIN R |-> IF r \in known THEN Described(R[r], k.desc) ELSE R[r]]
       ELSE Append(R, NewRow(k.name, k.desc, i))

\* Ascending by id: the rows after the keys up to n.
UpsertedTo[n \in Nat] ==
    IF n = 0 THEN rows
    ELSE IF n \in Got THEN UpsertByName(UpsertedTo[n - 1], n)
    ELSE UpsertedTo[n - 1]

Upserted == UpsertedTo[Max(Got \cup {0})]

Unchecked(R) == TRUE

\* keys_lokalise_key_id_unique.
OriginsUnique(R) ==
    \A r, s \in DOMAIN R : r # s /\ R[r].origin # None => R[r].origin # R[s].origin

\* What the API says of a text, and who speaks of a row; the export decides.
Said(value) == IF value = Absent THEN Blank ELSE value
Trusted(n) == TRUE
Present(n) == n \in DOMAIN export

Speakers(row) ==
    IF row.active /\ Present(row.name)
    THEN {i \in Got : importer.got[i].name = row.name} ELSE {}

\* upsertTranslationBatchSQL: a text that is CDATA here becomes a plain one, which
\* is a change too.
Rewritten(row, value) ==
    [row EXCEPT !.value = value, !.hint = "plain", !.valueVersion = @ + 1]
Upsert(row, value) ==
    IF row.value = value /\ row.hint = "plain" THEN row ELSE Rewritten(row, value)

\* dedupeTranslations.
WithText(row) ==
    IF Speakers(row) = {} THEN row
    ELSE Upsert(row, Said(importer.got[Max(Speakers(row))].value))

Store ==
    /\ importer # None /\ importer.stage = "store"
    /\ OriginsUnique(Upserted)
    /\ rows' = [r \in DOMAIN Upserted |-> WithText(Upserted[r])]
    /\ last' = [got |-> importer.got, export |-> export]
    /\ importer' = None
    /\ UNCHANGED <<remote, export, edits, runs>>

\* The insert of a key whose id another row has ends the run.
Clash ==
    /\ importer # None /\ importer.stage = "store"
    /\ ~OriginsUnique(Upserted)
    /\ Ends
-----------------------------------------------------------------------------
(* Files out of the system, and into it.                                   *)

\* Zip, entriesFor: a key without a text is in the files, as a blank, or is not.
ExportZip(include) ==
    LET written == {r \in DOMAIN rows : rows[r].active /\ (include \/ rows[r].value # Absent)}
        Row(n) == CHOOSE r \in written : rows[r].name = n
    IN /\ importer = None
       /\ export' = [n \in {rows[r].name : r \in written} |-> Said(rows[Row(n)].value)]
       /\ last' = [files |-> export', exported |-> TRUE]
       /\ UNCHANGED <<remote, rows, importer, edits, runs>>

\* The seed: a row for every name in the files, new ones in the order of the file,
\* and then the texts, in one transaction.
Seed(new) ==
    LET inserted == rows \o [i \in DOMAIN new |-> NewRow(new[i], NoDescription, None)]
        Seeded(row) == IF row.active /\ row.name \in DOMAIN export
                       THEN Upsert(row, export[row.name]) ELSE row
    IN /\ runs < MaxRuns
       /\ runs' = runs + 1
       /\ rows' = [r \in DOMAIN inserted |-> Seeded(inserted[r])]
       /\ last' = [files |-> export, exported |-> FALSE]
       /\ UNCHANGED <<remote, export, importer, edits>>

SeedFiles ==
    /\ export # None
    /\ \E new \in SetToSeqs({n \in DOMAIN export : NameFree(n)}) : Seed(new)
-----------------------------------------------------------------------------
Next ==
    \/ \E i \in RemoteIds, k \in RemoteKeys \cup {None} : EditRemote(i, k)
    \/ ExportFiles
    \/ \E n \in Names : CreateKey(n)
    \/ \E r \in DOMAIN rows :
           \/ \E n \in Names : RenameKey(r, n)
           \/ DeleteKey(r)
           \/ \E v \in Texts \cup {Blank}, h \in {"plain", "cdata"} : SetText(r, v, h)
           \/ RemoveText(r)
    \/ Begin
    \/ AnswerLanguages
    \/ AnswerKeys
    \/ Retry
    \/ Fail
    \/ Store
    \/ Clash
    \/ \E include \in BOOLEAN : ExportZip(include)
    \/ SeedFiles

Spec == Init /\ [][Next]_vars
-----------------------------------------------------------------------------
(* Properties.                                                             *)

Namesakes(i) == {j \in Got \ {i} : importer.got[j].name = importer.got[i].name}

\* Every key that was at Lokalise throughout the fetch is imported, however often
\* a request was repeated, unless a key was removed meanwhile: that moves the
\* others up a page.
NothingSkipped ==
    [][Store /\ ~importer.shifted => importer.steady \subseteq Got]_vars

\* A blank text arrives as a blank text and a missing one as none, although the
\* API says the same of both: the text of a key that the export is right about is
\* afterwards what Lokalise had, or untouched where Lokalise had none.  The
\* exception is a name that several keys share, whose last one speaks for all.
PresenceKept ==
    [][Store =>
          \A i \in Got : LET k == importer.got[i] IN
              Namesakes(i) = {} /\ (k.name \in DOMAIN export <=> k.value # Absent) =>
                  \E r \in Known(rows', k.name) :
                      rows'[r].value =
                          IF k.value # Absent THEN k.value
                          ELSE IF r \in DOMAIN rows THEN rows[r].value ELSE Absent]_vars

\* "Do not churn the version ... when a re-run changes nothing": an import that
\* read what the one before it read leaves every row as it is, but for the
\* descriptions of names that several keys share.  So does a seed from the files
\* that the one before it took, and a seed from what has just been exported, but for
\* what a file cannot tell: which texts are CDATA, and which keys have none.
Rerun == Store /\ last = [got |-> importer.got, export |-> export]
RerunIsQuiet ==
    [][/\ Rerun =>
              \A r \in DOMAIN rows' : rows'[r] # rows[r] =>
                  /\ \E i \in Got : importer.got[i].name = rows[r].name /\ Namesakes(i) # {}
                  /\ rows'[r].valueVersion = rows[r].valueVersion
       /\ SeedFiles /\ last \in [files : {export}, exported : BOOLEAN] =>
              /\ DOMAIN rows' = DOMAIN rows
              /\ \A r \in DOMAIN rows : rows'[r] # rows[r] =>
                  /\ last.exported
                  /\ rows[r].value = Absent \/ rows[r].hint = "cdata"
                  /\ rows'[r] = Rewritten(rows[r], Said(rows[r].value))]_vars

\* The files at hand are taken for names and texts here, and this is why they may
\* be: what is written to a file is read back from it, character for character, in
\* all three formats; no escape is resolved twice, or by the wrong layer.  An
\* Android file may be one that nobody can read (control characters, unbalanced
\* markup, CDATA in CDATA), but never one that reads as another text.
FilesKeepTexts == export # None => TextsReadBack

\* The same for the names in Android's files: an export passes if and only if each
\* of its keys has a name of its own there, and a seed then finds each of them
\* again by that name.  It may find more, a key that only Flutter has and that looks
\* alike: then, and only then, the next export does not pass.
MembershipRecovered == export # None => KeysRecovered
=============================================================================
