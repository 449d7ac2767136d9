----------------------------- MODULE ImportProofs -----------------------------
(***************************************************************************)
(* Theorems about Import and Files, for any names, remote keys, page size  *)
(* and numbers of attempts, edits and runs.                                *)
(***************************************************************************)
EXTENDS Import, FiniteSetTheorems, SequenceTheorems, NaturalsInduction,
    WellFoundedInduction, TLAPS

-----------------------------------------------------------------------------
(* Numbers.                                                                *)

LEMMA LeastExists ==
    ASSUME NEW S \in SUBSET Nat, S # {}
    PROVE  \E x \in S : \A y \in S : x <= y
<1> DEFINE R == {ss \in Nat \X Nat : ss[1] < ss[2]}
<1>1. IsWellFoundedOn(R, Nat)
  BY NatLessThanWellFounded DEF OpToRel
<1>2. PICK x \in S : \A y \in S : ~(<<y, x>> \in R)
  <2> HIDE DEF R
  <2> QED
    BY <1>1, WFMin
<1>3. \A y \in S : ~(y < x)
  BY <1>2
<1> QED
  BY <1>3

\* Induction, over a set of numbers.
LEMMA CountUp ==
    ASSUME NEW A \in SUBSET Nat, 0 \in A, \A n \in A : n + 1 \in A
    PROVE  A = Nat
<1>1. SUFFICES ASSUME Nat \ A # {} PROVE FALSE
  OBVIOUS
<1>2. PICK x \in Nat \ A : \A y \in Nat \ A : x <= y
  BY <1>1, LeastExists
<1>3. x # 0 /\ x - 1 \in Nat /\ x - 1 \notin Nat \ A
  BY <1>2
<1> QED
  BY <1>2, <1>3

LEMMA LargestExists ==
    ASSUME NEW S \in SUBSET Nat, IsFiniteSet(S), S # {}
    PROVE  \E x \in S : \A y \in S : y <= x
<1> DEFINE Without == {U \in FiniteSubsetsOf(S) : U # {} /\ \A x \in U : \E y \in U : ~(y <= x)}
<1>1. SUFFICES ASSUME Without # {} PROVE FALSE
  BY FS_FiniteSubsetsOfFinite
<1>2. PICK U \in Without : \A V \in Without : ~(<<V, U>> \in StrictSubsetOrdering(S))
  BY <1>1, FS_StrictSubsetOrderingWellFounded, WFMin
<1>3. PICK x \in U : TRUE
  OBVIOUS
<1> DEFINE V == U \ {x}
<1>4. U \in SUBSET S /\ V \in FiniteSubsetsOf(S) /\ x \in Nat
  BY FS_RemoveElement DEF FiniteSubsetsOf
<1>5. <<V, U>> \in StrictSubsetOrdering(S)
  BY <1>3, <1>4 DEF StrictSubsetOrdering
<1>6. PICK y \in U : ~(y <= x)
  BY <1>3
<1>7. y \in V /\ V \notin Without
  <2>1. y # x
    BY <1>4, <1>6
  <2>2. V \notin Without
    <3> HIDE DEF V, Without
    <3> QED
      BY <1>2, <1>5
  <2> QED
    BY <2>1, <2>2
<1>8. PICK z \in V : \A w \in V : w <= z
  BY <1>4, <1>7
<1>9. y \in Nat /\ z \in Nat /\ \A w \in U : w \in Nat
  BY <1>4, <1>7, <1>8
<1>10. \A w \in U : w <= z
  BY <1>6, <1>7, <1>8, <1>9
<1> QED
  BY <1>8, <1>10

LEMMA MaxIsLargest ==
    ASSUME NEW S \in SUBSET Nat, IsFiniteSet(S), S # {}
    PROVE  Max(S) \in S /\ \A y \in S : y <= Max(S)
<1>1. PICK x \in S : \A y \in S : x >= y
  BY LargestExists
<1> QED
  BY <1>1 DEF Max

-----------------------------------------------------------------------------
(* The upserts of keys, one by one.                                        *)

\* The rows after the key n, given the rows before it.
After(R, n) == IF n \in Got THEN UpsertByName(R, n) ELSE R

\* The recursion has a solution: it has one up to each m, and these agree.
LEMMA UpsertedEquation ==
    /\ UpsertedTo[0] = rows
    /\ \A n \in Nat : UpsertedTo[n + 1] = After(UpsertedTo[n], n + 1)
<1> DEFINE UpTo(f, m) == f = [n \in 0 .. m |-> IF n = 0 THEN rows ELSE After(f[n - 1], n)]
           Solved == {m \in Nat : \E f : UpTo(f, m)}
<1>1. Solved = Nat
  <2>1. 0 \in Solved
    <3>1. UpTo([n \in 0 .. 0 |-> rows], 0)
      OBVIOUS
    <3> QED
      BY <3>1
  <2>2. ASSUME NEW m \in Solved PROVE m + 1 \in Solved
    <3>1. PICK f : UpTo(f, m)
      OBVIOUS
    <3> DEFINE g == [n \in 0 .. m + 1 |-> IF n = m + 1 THEN After(f[m], m + 1) ELSE f[n]]
    <3>2. ASSUME NEW n \in 0 .. m + 1
          PROVE  g[n] = IF n = 0 THEN rows ELSE After(g[n - 1], n)
      <4>1. CASE n = m + 1
        BY <4>1
      <4>2. CASE n # m + 1
        <5>1. n \in 0 .. m /\ (n # 0 => n - 1 \in 0 .. m /\ n - 1 \in 0 .. m + 1)
          BY <4>2
        <5>2. g[n] = f[n] /\ (n # 0 => g[n - 1] = f[n - 1])
          BY <4>2, <5>1
        <5>3. f[n] = IF n = 0 THEN rows ELSE After(f[n - 1], n)
          BY <3>1, <5>1
        <5> QED
          BY <5>2, <5>3
      <4> QED
        BY <4>1, <4>2
    <3>3. UpTo(g, m + 1)
      <4> DEFINE h == [n \in 0 .. m + 1 |-> IF n = 0 THEN rows ELSE After(g[n - 1], n)]
      <4>1. \A n \in 0 .. m + 1 : g[n] = h[n]
        BY <3>2
      <4>2. g = h
        BY <4>1
      <4> QED
        BY <4>2
    <3>4. \E e : UpTo(e, m + 1)
      <4> HIDE DEF g, UpTo
      <4> QED
        BY <3>3
    <3> QED
      BY <3>4
  <2> QED
    BY <2>1, <2>2, CountUp
<1> DEFINE F == [m \in Nat |-> CHOOSE f : UpTo(f, m)]
<1>2. \A m \in Nat : UpTo(F[m], m)
  BY <1>1
<1>3. \A m \in Nat : \A n \in 0 .. m : F[m][n] = IF n = 0 THEN rows ELSE After(F[m][n - 1], n)
  <2> HIDE DEF F
  <2> QED
    BY <1>2
<1> DEFINE Agreed == {n \in Nat : \A m, k \in Nat : n <= m /\ n <= k => F[m][n] = F[k][n]}
<1> HIDE DEF F
<1>4. Agreed = Nat
  <2>1. 0 \in Agreed
    BY <1>3
  <2>2. ASSUME NEW n \in Agreed PROVE n + 1 \in Agreed
    <3> SUFFICES ASSUME NEW m \in Nat, NEW k \in Nat, n + 1 <= m, n + 1 <= k
                 PROVE  F[m][n + 1] = F[k][n + 1]
      OBVIOUS
    <3>1. F[m][n] = F[k][n]
      OBVIOUS
    <3>2. F[m][n + 1] = After(F[m][n], n + 1) /\ F[k][n + 1] = After(F[k][n], n + 1)
      BY <1>3
    <3> QED
      BY <3>1, <3>2
  <2> QED
    BY <2>1, <2>2, CountUp
<1> DEFINE h == [n \in Nat |-> F[n][n]]
<1>5. ASSUME NEW n \in Nat PROVE h[n] = IF n = 0 THEN rows ELSE After(h[n - 1], n)
  <2>1. CASE n = 0
    BY <1>3, <2>1
  <2>2. CASE n # 0
    <3>1. n - 1 \in Nat /\ n - 1 \in Agreed
      <4> HIDE DEF Agreed
      <4> QED
        BY <1>4, <2>2
    <3>2. F[n][n - 1] = F[n - 1][n - 1]
      BY <3>1
    <3>3. F[n][n] = After(F[n][n - 1], n)
      BY <1>3, <2>2
    <3> QED
      BY <2>2, <3>1, <3>2, <3>3
  <2> QED
    BY <2>1, <2>2
<1>6. h = [n \in Nat |-> IF n = 0 THEN rows ELSE After(h[n - 1], n)]
  <2> HIDE DEF h
  <2> DEFINE g == [n \in Nat |-> IF n = 0 THEN rows ELSE After(h[n - 1], n)]
  <2>1. h = [n \in Nat |-> h[n]]
    BY DEF h
  <2>2. \A n \in Nat : h[n] = g[n]
    BY <1>5
  <2> QED
    BY <2>1, <2>2
<1>7. UpsertedTo = [n \in Nat |-> IF n = 0 THEN rows ELSE After(UpsertedTo[n - 1], n)]
  <2> HIDE DEF h
  <2>1. \E f : f = [n \in Nat |-> IF n = 0 THEN rows ELSE After(f[n - 1], n)]
    BY <1>6
  <2>2. UpsertedTo = CHOOSE f : f = [n \in Nat |-> IF n = 0 THEN rows ELSE After(f[n - 1], n)]
    BY DEF UpsertedTo, After
  <2> QED
    BY <2>1, <2>2
<1> QED
  BY <1>7

LEMMA MappedSeq ==
    ASSUME NEW S, NEW T, NEW s \in Seq(S), NEW t, t = [r \in DOMAIN s |-> t[r]],
           \A r \in DOMAIN s : t[r] \in T
    PROVE  t \in Seq(T) /\ Len(t) = Len(s) /\ DOMAIN t = DOMAIN s
<1>1. Len(s) \in Nat /\ DOMAIN s = 1 .. Len(s)
  BY LenProperties
<1>2. t \in [1 .. Len(s) -> T]
  BY <1>1
<1>3. t \in Seq(T)
  BY <1>1, <1>2, SeqDef
<1> QED
  BY <1>1, <1>2, <1>3, LenProperties

\* What an upsert of a key leaves of a row, and what of a text makes a row well formed.
SameText(row, before) ==
    /\ row.name = before.name /\ row.active = before.active /\ row.origin = before.origin
    /\ row.value = before.value /\ row.hint = before.hint
    /\ row.valueVersion = before.valueVersion

Texted(R) == \A r \in DOMAIN R : R[r].value = Absent <=> R[r].valueVersion = 0

NamesApart(R) ==
    \A r, s \in DOMAIN R : r # s => ~(R[r].active /\ R[s].active /\ R[r].name = R[s].name)

LEMMA DescribedRow ==
    ASSUME NEW row \in Rows, NEW desc \in Descriptions
    PROVE  /\ Described(row, desc) \in Rows /\ SameText(Described(row, desc), row)
           /\ desc \in {NoDescription, Described(row, desc).desc}
<1>1. CASE desc \in {NoDescription, row.desc}
  BY <1>1 DEF Described, SameText
<1>2. CASE desc \notin {NoDescription, row.desc}
  <2>1. Described(row, desc) = [row EXCEPT !.desc = desc, !.version = @ + 1]
    BY <1>2 DEF Described, Redescribed
  <2>2. row.version + 1 \in Nat \ {0}
    BY DEF Rows
  <2>3. Described(row, desc) \in Rows /\ Described(row, desc).desc = desc
    BY <2>1, <2>2 DEF Rows
  <2>4. SameText(Described(row, desc), row)
    BY <2>1 DEF SameText, Rows
  <2> QED
    BY <2>3, <2>4
<1> QED
  BY <1>1, <1>2

LEMMA NewRowFields ==
    ASSUME NEW n \in Names, NEW desc \in Descriptions, NEW origin \in RemoteIds \cup {None}
    PROVE  /\ NewRow(n, desc, origin) \in Rows
           /\ NewRow(n, desc, origin).name = n /\ NewRow(n, desc, origin).active
           /\ NewRow(n, desc, origin).desc = desc
           /\ NewRow(n, desc, origin).value = Absent
           /\ NewRow(n, desc, origin).valueVersion = 0
           /\ NewRow(n, desc, origin).origin = origin
BY DEF NewRow, Rows, Values

\* A key that has been fetched.
LEMMA GotKey ==
    ASSUME importer \in Run, NEW i \in Got
    PROVE  /\ i \in RemoteIds /\ i \in Nat \ {0}
           /\ importer.got[i].name \in Names /\ importer.got[i].desc \in Descriptions
           /\ importer.got[i].value \in Values
<1>1. importer.got \in Fetched
  BY DEF Run
<1>2. i \in RemoteIds /\ importer.got[i] \in RemoteKeys
  BY <1>1 DEF Got, Fetched
<1> QED
  BY <1>2, ImportAssumption DEF RemoteKeys

\* What the upsert of the key i makes of the rows R: S.
Upserts(R, S, i) ==
    LET name == importer.got[i].name
        desc == importer.got[i].desc
    IN /\ S \in Seq(Rows) /\ Len(R) <= Len(S) /\ Known(S, name) # {}
       /\ \A r \in DOMAIN R :
              /\ SameText(S[r], R[r])
              /\ r \notin Known(R, name) \/ desc \in {NoDescription, R[r].desc} => S[r] = R[r]
       /\ \A r \in DOMAIN S \ DOMAIN R :
              S[r].active /\ S[r].name = name /\ S[r].value = Absent /\ S[r].valueVersion = 0
       /\ \A r \in Known(S, name) : desc \in {NoDescription, S[r].desc}
       /\ NamesApart(R) => NamesApart(S)
       /\ Known(R, name) # {} => DOMAIN S = DOMAIN R

LEMMA OneUpsert ==
    ASSUME importer \in Run, NEW i \in Got, NEW R \in Seq(Rows)
    PROVE  Upserts(R, UpsertByName(R, i), i)
<1> DEFINE k == importer.got[i]
           S == UpsertByName(R, i)
           known == Known(R, k.name)
<1> SUFFICES Upserts(R, S, i)
  OBVIOUS
<1>1. k.name \in Names /\ k.desc \in Descriptions /\ i \in RemoteIds
  BY GotKey
<1>2. Len(R) \in Nat /\ DOMAIN R = 1 .. Len(R) /\ \A r \in DOMAIN R : R[r] \in Rows
  BY LenProperties
<1>3. known \subseteq DOMAIN R
  BY DEF Known
<1>4. CASE known # {}
  <2>1. S = [r \in DOMAIN R |-> IF r \in known THEN Described(R[r], k.desc) ELSE R[r]]
    BY <1>4 DEF UpsertByName
  <2>2. \A r \in DOMAIN R :
            /\ S[r] \in Rows /\ SameText(S[r], R[r])
            /\ r \in known => k.desc \in {NoDescription, S[r].desc}
            /\ r \notin known \/ k.desc \in {NoDescription, R[r].desc} => S[r] = R[r]
    <3>1. \A r \in DOMAIN R : k.desc \in {NoDescription, R[r].desc} => Described(R[r], k.desc) = R[r]
      BY DEF Described
    <3> QED
      BY <1>1, <1>2, <2>1, <3>1, DescribedRow DEF SameText
  <2>3. S \in Seq(Rows) /\ Len(S) = Len(R) /\ DOMAIN S = DOMAIN R
    <3> HIDE DEF S, known
    <3>1. S = [r \in DOMAIN R |-> S[r]]
      BY <2>1
    <3> QED
      BY <2>2, <3>1, MappedSeq
  <2> HIDE DEF S
  <2>4. Known(S, k.name) = known
    BY <2>2, <2>3 DEF Known, SameText
  <2>5. NamesApart(R) => NamesApart(S)
    BY <2>2, <2>3 DEF NamesApart, SameText
  <2>6. /\ \A r \in DOMAIN R :
              /\ SameText(S[r], R[r])
              /\ r \notin known \/ k.desc \in {NoDescription, R[r].desc} => S[r] = R[r]
        /\ \A r \in known : k.desc \in {NoDescription, S[r].desc}
    BY <1>3, <2>2
  <2> HIDE DEF known
  <2>7. Len(R) <= Len(S) /\ DOMAIN S \ DOMAIN R = {}
    BY <1>2, <2>3
  <2> QED
    BY <1>4, <2>3, <2>4, <2>5, <2>6, <2>7 DEF Upserts, known
<1>5. CASE known = {}
  <2> DEFINE new == NewRow(k.name, k.desc, i)
  <2>1. S = Append(R, new)
    BY <1>5 DEF UpsertByName
  <2>2. /\ new \in Rows /\ new.name = k.name /\ new.active /\ new.desc = k.desc
        /\ new.value = Absent /\ new.valueVersion = 0
    BY <1>1, NewRowFields
  <2> HIDE DEF new, S
  <2>3. /\ S \in Seq(Rows) /\ Len(S) = Len(R) + 1 /\ DOMAIN S = 1 .. Len(R) + 1
        /\ \A r \in DOMAIN R : S[r] = R[r]
        /\ S[Len(R) + 1] = new
    BY <1>2, <2>1, <2>2
  <2>4. Known(S, k.name) = {Len(R) + 1}
    BY <1>2, <1>5, <2>2, <2>3 DEF Known
  <2>5. NamesApart(R) => NamesApart(S)
    BY <1>2, <1>5, <2>2, <2>3 DEF NamesApart, Known
  <2>6. DOMAIN S \ DOMAIN R = {Len(R) + 1} /\ Len(R) <= Len(S)
    BY <1>2, <2>3
  <2>7. k.desc \in {NoDescription, S[Len(R) + 1].desc}
    BY <2>2, <2>3
  <2> HIDE DEF known
  <2> QED
    BY <1>2, <1>5, <2>2, <2>3, <2>4, <2>5, <2>6, <2>7 DEF SameText, Upserts, known
<1> QED
  BY <1>4, <1>5

\* A key without namesakes among the keys g.
Keyed(g) == {i \in RemoteIds : g[i] # None}
Alone(g, i) == \A j \in Keyed(g) \ {i} : g[j].name # g[i].name

\* The keys of g up to n have rows, and those without namesakes their description.
Imported(R, g, n) ==
    \A i \in Keyed(g) : i <= n =>
        /\ Known(R, g[i].name) # {}
        /\ Alone(g, i) => \A r \in Known(R, g[i].name) : g[i].desc \in {NoDescription, R[r].desc}

\* What the rows R are, once the keys up to n are in.
Upserting(R, n) ==
    /\ R \in Seq(Rows) /\ Texted(R) /\ NamesApart(R)
    /\ Len(rows) <= Len(R)
    /\ \A r \in DOMAIN rows : SameText(R[r], rows[r])
    /\ \A r \in DOMAIN R \ DOMAIN rows : R[r].value = Absent
    /\ Imported(R, importer.got, n)

LEMMA UpsertKeeps ==
    ASSUME importer \in Run, rows \in Seq(Rows), NEW n \in Nat, n + 1 \in Got,
           NEW R, NEW S, Upserting(R, n), Upserts(R, S, n + 1)
    PROVE  Upserting(S, n + 1)
<1> DEFINE g == importer.got
           name == g[n + 1].name
<1>1. /\ Len(R) \in Nat /\ DOMAIN R = 1 .. Len(R)
      /\ Len(S) \in Nat /\ DOMAIN S = 1 .. Len(S)
      /\ Len(rows) \in Nat /\ DOMAIN rows = 1 .. Len(rows)
  BY LenProperties DEF Upserting, Upserts
<1>2. /\ Len(rows) <= Len(R) /\ Len(R) <= Len(S) /\ Len(rows) <= Len(S)
      /\ DOMAIN rows \subseteq DOMAIN R /\ DOMAIN R \subseteq DOMAIN S
  <2>1. Len(rows) <= Len(R) /\ Len(R) <= Len(S)
    BY DEF Upserting, Upserts
  <2> QED
    BY <1>1, <2>1
<1>3. \A r \in DOMAIN rows : SameText(S[r], rows[r])
  BY <1>2 DEF Upserting, Upserts, SameText
<1>4. \A r \in DOMAIN S \ DOMAIN rows : S[r].value = Absent
  BY <1>2 DEF Upserting, Upserts, SameText
<1>5. Texted(S)
  BY DEF Upserting, Upserts, SameText, Texted
<1>6. ASSUME NEW i \in Keyed(g), i <= n + 1, i # n + 1
      PROVE  /\ Known(S, g[i].name) # {}
             /\ Alone(g, i) => \A r \in Known(S, g[i].name) : g[i].desc \in {NoDescription, S[r].desc}
  <2>1. i \in Got /\ i <= n
    BY <1>6, ImportAssumption DEF Got, Keyed
  <2>2. /\ Known(R, g[i].name) # {}
        /\ Alone(g, i) => \A r \in Known(R, g[i].name) : g[i].desc \in {NoDescription, R[r].desc}
    BY <2>1 DEF Upserting, Imported, Keyed, Got
  <2>3. Known(R, g[i].name) \subseteq Known(S, g[i].name)
    BY <1>2 DEF Upserts, SameText, Known
  <2>4. ASSUME Alone(g, i), NEW r \in Known(S, g[i].name)
        PROVE  g[i].desc \in {NoDescription, S[r].desc}
    <3>1. name # g[i].name
      BY <1>6, <2>4 DEF Alone, Keyed, Got
    <3>2. r \in DOMAIN R
      BY <3>1 DEF Known, Upserts
    <3>3. r \in Known(R, g[i].name) /\ r \notin Known(R, name)
      BY <3>1, <3>2 DEF Known, Upserts, SameText
    <3>4. S[r] = R[r]
      BY <3>2, <3>3 DEF Upserts
    <3> QED
      BY <2>2, <2>4, <3>3, <3>4
  <2> QED
    BY <2>2, <2>3, <2>4
<1>7. Imported(S, g, n + 1)
  BY <1>6 DEF Imported, Upserts
<1>8. S \in Seq(Rows) /\ NamesApart(S)
  BY DEF Upserting, Upserts
<1> QED
  BY <1>2, <1>3, <1>4, <1>5, <1>7, <1>8 DEF Upserting

LEMMA UpsertsKeep ==
    ASSUME TypeOK, importer \in Run
    PROVE  \A n \in Nat : Upserting(UpsertedTo[n], n)
<1> DEFINE Kept == {n \in Nat : Upserting(UpsertedTo[n], n)}
<1>1. 0 \in Kept
  <2>1. Imported(rows, importer.got, 0)
    BY ImportAssumption DEF Imported, Keyed
  <2>2. Upserting(rows, 0)
    BY <2>1 DEF TypeOK, Upserting, SameText, Texted, NamesApart
  <2> QED
    BY <2>2, UpsertedEquation
<1>2. ASSUME NEW n \in Kept PROVE n + 1 \in Kept
  <2> DEFINE R == UpsertedTo[n]
             S == UpsertedTo[n + 1]
  <2>1. Upserting(R, n) /\ n \in Nat /\ S = After(R, n + 1)
    BY UpsertedEquation
  <2> HIDE DEF R, S
  <2>2. CASE n + 1 \in Got
    <3>1. Upserts(R, S, n + 1)
      BY <2>1, <2>2, OneUpsert DEF After, Upserting
    <3> QED
      BY <2>1, <2>2, <3>1, UpsertKeeps DEF TypeOK, S
  <2>3. CASE n + 1 \notin Got
    <3>1. S = R
      BY <2>1, <2>3 DEF After
    <3>2. \A i \in Got : i <= n + 1 => i <= n
      BY <2>1, <2>3, ImportAssumption DEF Got
    <3>3. Upserting(S, n + 1)
      BY <2>1, <3>1, <3>2 DEF Upserting, Imported, Keyed, Got
    <3> QED
      BY <2>1, <3>3 DEF S
  <2> QED
    BY <2>2, <2>3
<1>3. Kept = Nat
  BY <1>1, <1>2, CountUp
<1> QED
  BY <1>3

LEMMA GotIsFinite ==
    ASSUME importer \in Run
    PROVE  /\ Max(Got \cup {0}) \in Nat
           /\ \A i \in Got : i \in Nat /\ i <= Max(Got \cup {0})
<1>1. Got \subseteq RemoteIds /\ IsFiniteSet(Got)
  BY FS_Subset, ImportAssumption DEF Got
<1>2. Got \cup {0} \in SUBSET Nat /\ IsFiniteSet(Got \cup {0})
  BY <1>1, FS_AddElement, ImportAssumption
<1> QED
  BY <1>2, MaxIsLargest

\* All keys that were fetched have rows afterwards; no text changes.
LEMMA UpsertedKeeps ==
    ASSUME TypeOK, importer \in Run
    PROVE  /\ Upserted \in Seq(Rows) /\ Texted(Upserted) /\ NamesApart(Upserted)
           /\ Len(rows) <= Len(Upserted)
           /\ \A r \in DOMAIN rows : SameText(Upserted[r], rows[r])
           /\ \A r \in DOMAIN Upserted \ DOMAIN rows : Upserted[r].value = Absent
           /\ \A i \in Got :
                  /\ Known(Upserted, importer.got[i].name) # {}
                  /\ Alone(importer.got, i) =>
                         \A r \in Known(Upserted, importer.got[i].name) :
                             importer.got[i].desc \in {NoDescription, Upserted[r].desc}
<1>1. Upserting(Upserted, Max(Got \cup {0}))
  BY GotIsFinite, UpsertsKeep DEF Upserted
<1> HIDE DEF Upserted
<1> QED
  BY <1>1, GotIsFinite DEF Upserting, Imported, Keyed, Got

-----------------------------------------------------------------------------
(* Type correctness.                                                       *)

RowsOK(R) == R \in Seq(Rows) /\ Texted(R) /\ NamesApart(R) /\ OriginsUnique(R)

\* What a text leaves of a row.
SameKey(row, before) ==
    /\ row.name = before.name /\ row.active = before.active /\ row.origin = before.origin
    /\ row.desc = before.desc /\ row.version = before.version

LEMMA TypeParts ==
    TypeOK <=> /\ remote \in Fetched /\ export \in Exports \cup {None} /\ RowsOK(rows)
               /\ importer \in Run \cup {None} /\ edits \in 0 .. MaxEdits /\ runs \in 0 .. MaxRuns
BY DEF TypeOK, RowsOK, Texted, NamesApart, OriginsUnique

LEMMA RowsAreRows ==
    ASSUME NEW R \in Seq(Rows)
    PROVE  Len(R) \in Nat /\ DOMAIN R = 1 .. Len(R) /\ \A r \in DOMAIN R : R[r] \in Rows
BY LenProperties

\* Rows that keep their names and ids stay apart.
LEMMA MappedRows ==
    ASSUME NEW R, RowsOK(R), NEW t, t = [r \in DOMAIN R |-> t[r]],
           \A r \in DOMAIN R : /\ t[r] \in Rows
                               /\ t[r].name = R[r].name /\ t[r].active = R[r].active
                               /\ t[r].origin = R[r].origin
                               /\ t[r].value = Absent <=> t[r].valueVersion = 0
    PROVE  RowsOK(t) /\ DOMAIN t = DOMAIN R /\ Len(t) = Len(R)
<1>1. t \in Seq(Rows) /\ DOMAIN t = DOMAIN R /\ Len(t) = Len(R)
  BY MappedSeq DEF RowsOK
<1>2. Texted(t) /\ NamesApart(t) /\ OriginsUnique(t)
  BY <1>1 DEF RowsOK, Texted, NamesApart, OriginsUnique
<1> QED
  BY <1>1, <1>2 DEF RowsOK

LEMMA TextUpsert ==
    ASSUME NEW row \in Rows, NEW value \in Texts \cup {Blank}
    PROVE  /\ Upsert(row, value) \in Rows /\ SameKey(Upsert(row, value), row)
           /\ Upsert(row, value).value = value /\ Upsert(row, value).hint = "plain"
           /\ (row.value = Absent <=> row.valueVersion = 0) =>
                  (Upsert(row, value).value = Absent <=> Upsert(row, value).valueVersion = 0)
<1>1. CASE row.value = value /\ row.hint = "plain"
  BY <1>1 DEF Upsert, SameKey
<1>2. CASE ~(row.value = value /\ row.hint = "plain")
  <2>1. Upsert(row, value) = [row EXCEPT !.value = value, !.hint = "plain", !.valueVersion = @ + 1]
    BY <1>2 DEF Upsert, Rewritten
  <2>2. row.valueVersion \in Nat /\ row.valueVersion + 1 \in Nat /\ row.valueVersion + 1 # 0
    BY DEF Rows
  <2>3. value \in Values /\ value # Absent
    BY ImportAssumption DEF Values
  <2>4. Upsert(row, value) \in Rows
    BY <2>1, <2>2, <2>3 DEF Rows
  <2>5. /\ Upsert(row, value).value = value /\ Upsert(row, value).hint = "plain"
        /\ Upsert(row, value).valueVersion = row.valueVersion + 1
    BY <2>1 DEF Rows
  <2>6. SameKey(Upsert(row, value), row)
    BY <2>1 DEF SameKey, Rows
  <2> QED
    BY <2>2, <2>3, <2>4, <2>5, <2>6
<1> QED
  BY <1>1, <1>2

LEMMA SaidIsText ==
    ASSUME NEW value \in Values
    PROVE  Said(value) \in Texts \cup {Blank} /\ (value # Absent => Said(value) = value)
BY DEF Said, Values

\* Who speaks of a row: the last of them is one of them.
LEMMA LastSpeaker ==
    ASSUME importer \in Run, NEW row, Speakers(row) # {}
    PROVE  /\ Max(Speakers(row)) \in Got /\ Max(Speakers(row)) \in Speakers(row)
           /\ importer.got[Max(Speakers(row))].name = row.name
<1>1. Speakers(row) \subseteq Got /\ \A i \in Speakers(row) : importer.got[i].name = row.name
  BY DEF Speakers
<1>2. Speakers(row) \in SUBSET RemoteIds
  BY <1>1 DEF Got
<1>3. Speakers(row) \in SUBSET Nat /\ IsFiniteSet(Speakers(row))
  BY <1>2, FS_Subset, ImportAssumption
<1>4. Max(Speakers(row)) \in Speakers(row)
  BY <1>3, MaxIsLargest
<1> QED
  BY <1>1, <1>4

LEMMA TextKept ==
    ASSUME importer \in Run, NEW row \in Rows
    PROVE  /\ WithText(row) \in Rows /\ SameKey(WithText(row), row)
           /\ (row.value = Absent <=> row.valueVersion = 0) =>
                  (WithText(row).value = Absent <=> WithText(row).valueVersion = 0)
           /\ Speakers(row) # {} =>
                  /\ WithText(row).value = Said(importer.got[Max(Speakers(row))].value)
                  /\ WithText(row).hint = "plain"
<1>1. CASE Speakers(row) = {}
  BY <1>1 DEF WithText, SameKey
<1>2. CASE Speakers(row) # {}
  <2> DEFINE v == Said(importer.got[Max(Speakers(row))].value)
  <2>1. v \in Texts \cup {Blank}
    BY <1>2, LastSpeaker, GotKey, SaidIsText
  <2>2. WithText(row) = Upsert(row, v)
    BY <1>2 DEF WithText
  <2> HIDE DEF v
  <2>3. /\ WithText(row) \in Rows /\ SameKey(WithText(row), row)
        /\ WithText(row).value = v /\ WithText(row).hint = "plain"
        /\ (row.value = Absent <=> row.valueVersion = 0) =>
                  (WithText(row).value = Absent <=> WithText(row).valueVersion = 0)
    BY <2>1, <2>2, TextUpsert
  <2> QED
    BY <1>2, <2>3 DEF v
<1> QED
  BY <1>1, <1>2

LEMMA StoredRows ==
    ASSUME TypeOK, Store
    PROVE  /\ importer \in Run
           /\ RowsOK(rows') /\ DOMAIN rows' = DOMAIN Upserted
           /\ \A r \in DOMAIN rows' : rows'[r] = WithText(Upserted[r]) /\ Upserted[r] \in Rows
<1>1. importer \in Run /\ OriginsUnique(Upserted)
      /\ rows' = [r \in DOMAIN Upserted |-> WithText(Upserted[r])]
  BY DEF Store, TypeOK
<1>2. RowsOK(Upserted)
  BY <1>1, UpsertedKeeps DEF RowsOK
<1> HIDE DEF Upserted
<1>3. \A r \in DOMAIN Upserted :
          /\ Upserted[r] \in Rows /\ rows'[r] = WithText(Upserted[r])
          /\ Upserted[r].value = Absent <=> Upserted[r].valueVersion = 0
  BY <1>1, <1>2, RowsAreRows DEF RowsOK, Texted
<1>4. \A r \in DOMAIN Upserted :
          /\ rows'[r] \in Rows
          /\ rows'[r].name = Upserted[r].name /\ rows'[r].active = Upserted[r].active
          /\ rows'[r].origin = Upserted[r].origin
          /\ rows'[r].value = Absent <=> rows'[r].valueVersion = 0
  BY <1>1, <1>3, TextKept DEF SameKey
<1>5. rows' = [r \in DOMAIN Upserted |-> rows'[r]]
  BY <1>1
<1>6. RowsOK(rows') /\ DOMAIN rows' = DOMAIN Upserted
  BY <1>2, <1>4, <1>5, MappedRows
<1> QED
  BY <1>1, <1>3, <1>6

LEMMA TypeEditRemote ==
    ASSUME TypeOK, NEW i \in RemoteIds, NEW k \in RemoteKeys \cup {None}, EditRemote(i, k)
    PROVE  TypeOK'
<1>1. remote' \in Fetched
  BY DEF EditRemote, TypeOK, Fetched
<1>2. importer' \in Run \cup {None}
  BY DEF EditRemote, TypeOK, Run
<1>3. edits' \in 0 .. MaxEdits
  BY ImportAssumption DEF EditRemote, Edited, TypeOK
<1> QED
  BY <1>1, <1>2, <1>3 DEF EditRemote, TypeOK

LEMMA TypeExportFiles ==
    ASSUME TypeOK, ExportFiles
    PROVE  TypeOK'
<1> DEFINE texted == {i \in Listed : remote[i].value # Absent}
           shared(n) == {i \in texted : remote[i].name = n}
           exported == {remote[i].name : i \in texted}
<1>1. \A i \in texted : i \in RemoteIds /\ remote[i] \in RemoteKeys
  BY DEF Listed, TypeOK, Fetched
<1>2. exported \in SUBSET Names
  BY <1>1 DEF RemoteKeys
<1>3. export' = [n \in exported |-> remote[Max(shared(n))].value]
  BY DEF ExportFiles
<1>4. ASSUME NEW n \in exported PROVE remote[Max(shared(n))].value \in Texts \cup {Blank}
  <2>1. shared(n) \in SUBSET RemoteIds /\ shared(n) # {}
    BY <1>1
  <2>2. shared(n) \in SUBSET Nat /\ IsFiniteSet(shared(n))
    BY <2>1, FS_Subset, ImportAssumption
  <2>3. Max(shared(n)) \in texted
    BY <2>1, <2>2, MaxIsLargest
  <2> QED
    BY <1>1, <2>3 DEF RemoteKeys, Values
<1>5. export' \in [exported -> Texts \cup {Blank}]
  <2> HIDE DEF exported, shared
  <2> QED
    BY <1>3, <1>4
<1>6. export' \in Exports
  BY <1>2, <1>5 DEF Exports
<1> QED
  BY <1>6 DEF ExportFiles, TypeOK

LEMMA TypeEdited ==
    ASSUME TypeOK, Edited
    PROVE  edits' \in 0 .. MaxEdits
BY ImportAssumption DEF TypeOK, Edited

LEMMA TypeCreateKey ==
    ASSUME TypeOK, NEW n \in Names, CreateKey(n)
    PROVE  TypeOK'
<1> DEFINE new == NewRow(n, NoDescription, None)
<1>1. /\ new \in Rows /\ new.name = n /\ new.active /\ new.origin = None
      /\ new.value = Absent /\ new.valueVersion = 0
  <2>1. NoDescription \in Descriptions /\ None \in RemoteIds \cup {None}
    BY ImportAssumption
  <2> QED
    BY <2>1, NewRowFields
<1>2. RowsOK(rows) /\ Len(rows) \in Nat /\ DOMAIN rows = 1 .. Len(rows)
  BY TypeParts, RowsAreRows DEF RowsOK
<1>3. rows' = Append(rows, new) /\ NameFree(n)
  BY DEF CreateKey
<1> HIDE DEF new
<1>4. /\ rows' \in Seq(Rows) /\ DOMAIN rows' = 1 .. Len(rows) + 1
      /\ \A r \in DOMAIN rows : rows'[r] = rows[r]
      /\ rows'[Len(rows) + 1] = new
  BY <1>1, <1>2, <1>3 DEF RowsOK
<1>5. Texted(rows')
  BY <1>1, <1>2, <1>4 DEF RowsOK, Texted
<1>6. NamesApart(rows')
  BY <1>1, <1>2, <1>3, <1>4 DEF RowsOK, NamesApart, NameFree
<1>7. OriginsUnique(rows')
  BY <1>1, <1>2, <1>4 DEF RowsOK, OriginsUnique
<1> QED
  BY <1>4, <1>5, <1>6, <1>7, TypeEdited DEF CreateKey, TypeOK, Texted, NamesApart, OriginsUnique

LEMMA TypeEditRow ==
    ASSUME TypeOK, NEW r \in DOMAIN rows, NEW row \in Rows, EditRow(r, row),
           row.value = Absent <=> row.valueVersion = 0, row.origin = rows[r].origin,
           row.active => rows[r].active /\ (row.name = rows[r].name \/ NameFree(row.name))
    PROVE  TypeOK'
<1>1. RowsOK(rows) /\ Len(rows) \in Nat /\ DOMAIN rows = 1 .. Len(rows)
  BY TypeParts, RowsAreRows DEF RowsOK
<1>2. rows' = [rows EXCEPT ![r] = row]
  BY DEF EditRow
<1>3. /\ rows' \in Seq(Rows) /\ DOMAIN rows' = DOMAIN rows
      /\ rows'[r] = row /\ \A s \in DOMAIN rows \ {r} : rows'[s] = rows[s]
  BY <1>1, <1>2, ExceptSeq DEF RowsOK
<1>4. Texted(rows')
  BY <1>1, <1>3 DEF RowsOK, Texted
<1>5. NamesApart(rows')
  BY <1>1, <1>3 DEF RowsOK, NamesApart, NameFree
<1>6. OriginsUnique(rows')
  BY <1>1, <1>3 DEF RowsOK, OriginsUnique
<1> QED
  BY <1>3, <1>4, <1>5, <1>6, TypeEdited DEF EditRow, TypeOK, Texted, NamesApart, OriginsUnique

LEMMA TypeEdits ==
    ASSUME TypeOK, NEW r \in DOMAIN rows,
           \/ \E n \in Names : RenameKey(r, n)
           \/ DeleteKey(r)
           \/ \E v \in Texts \cup {Blank}, h \in {"plain", "cdata"} : SetText(r, v, h)
           \/ RemoveText(r)
    PROVE  TypeOK'
<1>1. rows[r] \in Rows /\ (rows[r].value = Absent <=> rows[r].valueVersion = 0)
  BY RowsAreRows DEF TypeOK
<1>2. /\ rows[r].version + 1 \in Nat \ {0}
      /\ rows[r].valueVersion + 1 \in Nat /\ rows[r].valueVersion + 1 # 0
  BY <1>1 DEF Rows
<1>3. ASSUME NEW n \in Names, RenameKey(r, n) PROVE TypeOK'
  <2> DEFINE row == [rows[r] EXCEPT !.name = n, !.version = @ + 1]
  <2>1. row \in Rows /\ row.value = rows[r].value /\ row.valueVersion = rows[r].valueVersion
        /\ row.origin = rows[r].origin /\ row.name = n
    BY <1>1, <1>2 DEF Rows
  <2>2. EditRow(r, row) /\ rows[r].active /\ NameFree(n)
    BY <1>3 DEF RenameKey
  <2> HIDE DEF row
  <2> QED
    BY <1>1, <2>1, <2>2, TypeEditRow
<1>4. ASSUME DeleteKey(r) PROVE TypeOK'
  <2> DEFINE row == [rows[r] EXCEPT !.active = FALSE, !.version = @ + 1]
  <2>1. row \in Rows /\ row.value = rows[r].value /\ row.valueVersion = rows[r].valueVersion
        /\ row.origin = rows[r].origin /\ ~row.active
    BY <1>1, <1>2 DEF Rows
  <2>2. EditRow(r, row)
    BY <1>4 DEF DeleteKey
  <2> HIDE DEF row
  <2> QED
    BY <1>1, <2>1, <2>2, TypeEditRow
<1>5. ASSUME NEW v \in Texts \cup {Blank}, NEW h \in {"plain", "cdata"}, SetText(r, v, h)
      PROVE  TypeOK'
  <2> DEFINE row == [rows[r] EXCEPT !.value = v, !.hint = h, !.valueVersion = @ + 1]
  <2>1. v \in Values /\ v # Absent
    BY ImportAssumption DEF Values
  <2>2. row \in Rows /\ row.value # Absent /\ row.valueVersion # 0
        /\ row.origin = rows[r].origin /\ row.name = rows[r].name /\ row.active = rows[r].active
    BY <1>1, <1>2, <2>1 DEF Rows
  <2>3. EditRow(r, row) /\ rows[r].active
    BY <1>5 DEF SetText
  <2> HIDE DEF row
  <2> QED
    BY <2>2, <2>3, TypeEditRow
<1>6. ASSUME RemoveText(r) PROVE TypeOK'
  <2> DEFINE row == [rows[r] EXCEPT !.value = Absent, !.hint = "plain", !.valueVersion = 0]
  <2>1. row \in Rows /\ row.value = Absent /\ row.valueVersion = 0
        /\ row.origin = rows[r].origin /\ row.name = rows[r].name /\ row.active = rows[r].active
    BY <1>1 DEF Rows, Values
  <2>2. EditRow(r, row) /\ rows[r].active
    BY <1>6 DEF RemoveText
  <2> HIDE DEF row
  <2> QED
    BY <2>1, <2>2, TypeEditRow
<1> QED
  BY <1>3, <1>4, <1>5, <1>6

LEMMA TypeBegin ==
    ASSUME TypeOK, Begin
    PROVE  TypeOK'
<1> DEFINE run == [stage |-> "languages", page |-> 1, attempt |-> 1,
                   got |-> [i \in RemoteIds |-> None], steady |-> Listed, shifted |-> FALSE]
<1>1. run \in Run
  BY ImportAssumption DEF Run, Fetched, Listed
<1>2. importer' = run
  BY DEF Begin
<1>3. runs' \in 0 .. MaxRuns
  BY ImportAssumption DEF Begin, TypeOK
<1> HIDE DEF run
<1> QED
  BY <1>1, <1>2, <1>3 DEF Begin, TypeOK

LEMMA TypeFetch ==
    ASSUME TypeOK, Retry \/ AnswerLanguages \/ AnswerKeys
    PROVE  TypeOK'
<1>1. importer \in Run /\ 1 \in 1 .. MaxAttempts
  BY ImportAssumption DEF TypeOK, Retry, Asking, AnswerLanguages, AnswerKeys
<1>2. ASSUME Retry PROVE importer' \in Run
  <2>1. importer.attempt + 1 \in 1 .. MaxAttempts
    BY <1>1, <1>2, ImportAssumption DEF Retry, Run
  <2>2. importer' = [importer EXCEPT !.attempt = @ + 1]
    BY <1>2 DEF Retry, Again
  <2> QED
    BY <1>1, <2>1, <2>2 DEF Run
<1>3. ASSUME AnswerLanguages PROVE importer' \in Run
  BY <1>1, <1>3 DEF AnswerLanguages, Run
<1>4. ASSUME AnswerKeys PROVE importer' \in Run
  <2> DEFINE S == Page(importer.page)
             g == [i \in RemoteIds |-> IF i \in S THEN remote[i] ELSE importer.got[i]]
             st == IF LastPage(S) THEN "store" ELSE "keys"
  <2>1. importer' = [importer EXCEPT !.got = g, !.stage = st, !.page = @ + 1, !.attempt = 1]
    BY <1>4 DEF AnswerKeys
  <2>2. g \in Fetched
    BY <1>1 DEF TypeOK, Fetched, Run
  <2>3. st \in {"languages", "keys", "store"}
    OBVIOUS
  <2>4. importer.page + 1 \in Nat /\ 1 \in 1 .. MaxAttempts
    BY <1>1 DEF Run
  <2> HIDE DEF g, st
  <2>5. importer' = [importer EXCEPT !.got = g, !.stage = st, !.page = importer.page + 1, !.attempt = 1]
    BY <2>1
  <2> QED
    BY <1>1, <2>2, <2>3, <2>4, <2>5 DEF Run
<1>5. UNCHANGED <<remote, export, rows, edits, runs>>
  BY DEF Retry, AnswerLanguages, AnswerKeys
<1> QED
  BY <1>2, <1>3, <1>4, <1>5 DEF TypeOK

LEMMA TypeStore ==
    ASSUME TypeOK, Store
    PROVE  TypeOK'
<1>1. RowsOK(rows')
  BY StoredRows
<1> QED
  BY <1>1 DEF Store, TypeOK, RowsOK, Texted, NamesApart, OriginsUnique

LEMMA TypeExportZip ==
    ASSUME TypeOK, NEW include \in BOOLEAN, ExportZip(include)
    PROVE  TypeOK'
<1> DEFINE written == {r \in DOMAIN rows : rows[r].active /\ (include \/ rows[r].value # Absent)}
           Row(n) == CHOOSE r \in written : rows[r].name = n
           names == {rows[r].name : r \in written}
<1>1. export' = [n \in names |-> Said(rows[Row(n)].value)]
  BY DEF ExportZip
<1>2. \A r \in written : rows[r] \in Rows
  BY RowsAreRows DEF TypeOK
<1>3. names \in SUBSET Names
  BY <1>2 DEF Rows
<1>4. \A n \in names : Row(n) \in written
  OBVIOUS
<1>5. \A n \in names : Said(rows[Row(n)].value) \in Texts \cup {Blank}
  BY <1>2, <1>4, SaidIsText DEF Rows
<1>6. export' \in [names -> Texts \cup {Blank}]
  <2> HIDE DEF names, Row
  <2> QED
    BY <1>1, <1>5
<1>7. export' \in Exports
  <2> HIDE DEF names
  <2> QED
    BY <1>3, <1>6 DEF Exports
<1> QED
  BY <1>7 DEF ExportZip, TypeOK

LEMMA ExportedTexts ==
    ASSUME export \in Exports
    PROVE  /\ DOMAIN export \in SUBSET Names /\ IsFiniteSet(DOMAIN export)
           /\ \A n \in DOMAIN export : export[n] \in Texts \cup {Blank}
<1>1. DOMAIN export \in SUBSET Names /\ \A n \in DOMAIN export : export[n] \in Texts \cup {Blank}
  BY DEF Exports
<1> QED
  BY <1>1, FS_Subset, ImportAssumption

Free == {n \in DOMAIN export : NameFree(n)}

\* What a seed inserts: R are the rows before the texts are written.
Inserts(R) ==
    /\ RowsOK(R) /\ Len(rows) <= Len(R)
    /\ \A r \in DOMAIN rows : R[r] = rows[r]
    /\ \A n \in DOMAIN export : Known(R, n) # {}
    /\ Free = {} => DOMAIN R = DOMAIN rows

\* Each name that is free is inserted once.
LEMMA SeedInserts ==
    ASSUME TypeOK, export \in Exports, NEW new \in SetToSeqs(Free)
    PROVE  Inserts(rows \o [i \in DOMAIN new |-> NewRow(new[i], NoDescription, None)])
<1> DEFINE c == Cardinality(Free)
           fresh == [i \in DOMAIN new |-> NewRow(new[i], NoDescription, None)]
           R == rows \o fresh
<1>1. Free \in SUBSET Names /\ IsFiniteSet(Free) /\ c \in Nat
  <2>1. Free \subseteq DOMAIN export
    BY DEF Free
  <2> QED
    BY <2>1, ExportedTexts, FS_Subset, FS_CardinalityType
<1>2. new \in [1 .. c -> Free] /\ DOMAIN new = 1 .. c
      /\ \A i, j \in 1 .. c : i # j => new[i] # new[j]
  BY DEF SetToSeqs
<1>3. \A n \in Free : \E i \in 1 .. c : new[i] = n
  <2>1. IsFiniteSet(1 .. c) /\ Cardinality(1 .. c) = c
    BY <1>1, FS_Interval
  <2>2. new \in Injection(1 .. c, Free)
    BY <1>2 DEF Injection, IsInjective
  <2>3. new \in Surjection(1 .. c, Free)
    BY <1>1, <2>1, <2>2, FS_Injection
  <2> QED
    BY <2>3 DEF Surjection
<1>4. \A i \in 1 .. c : /\ fresh[i] \in Rows /\ fresh[i].name = new[i] /\ fresh[i].active
                        /\ fresh[i].origin = None
                        /\ fresh[i].value = Absent /\ fresh[i].valueVersion = 0
  <2>1. NoDescription \in Descriptions /\ None \in RemoteIds \cup {None}
    BY ImportAssumption
  <2>2. \A i \in 1 .. c : fresh[i] = NewRow(new[i], NoDescription, None) /\ new[i] \in Names
    BY <1>1, <1>2
  <2> HIDE DEF fresh
  <2> QED
    BY <2>1, <2>2, NewRowFields
<1>5. fresh \in Seq(Rows) /\ Len(fresh) = c
  <2>1. fresh \in [1 .. c -> Rows]
    <3>1. fresh = [i \in 1 .. c |-> fresh[i]]
      BY <1>2
    <3> HIDE DEF fresh
    <3> QED
      BY <1>4, <3>1
  <2> HIDE DEF fresh, c
  <2> QED
    BY <1>1, <2>1, SeqDef, LenProperties
<1>6. RowsOK(rows) /\ Len(rows) \in Nat /\ DOMAIN rows = 1 .. Len(rows)
  BY TypeParts, RowsAreRows DEF RowsOK
<1> HIDE DEF fresh, c
<1>7. /\ R \in Seq(Rows) /\ Len(R) = Len(rows) + c /\ DOMAIN R = 1 .. Len(rows) + c
      /\ \A r \in 1 .. Len(rows) + c : R[r] = IF r <= Len(rows) THEN rows[r] ELSE fresh[r - Len(rows)]
  <2>1. rows \in Seq(Rows)
    BY <1>6 DEF RowsOK
  <2>2. /\ R \in Seq(Rows) /\ Len(R) = Len(rows) + Len(fresh)
        /\ \A r \in 1 .. Len(rows) + Len(fresh) :
               R[r] = IF r <= Len(rows) THEN rows[r] ELSE fresh[r - Len(rows)]
    BY <1>5, <2>1, ConcatProperties
  <2> HIDE DEF R
  <2>3. DOMAIN R = 1 .. Len(R)
    BY <2>2, LenProperties
  <2> QED
    BY <1>5, <2>2, <2>3
<1> HIDE DEF R
<1>8. /\ \A r \in DOMAIN rows : r \in DOMAIN R /\ R[r] = rows[r]
      /\ \A r \in DOMAIN R \ DOMAIN rows :
             r - Len(rows) \in 1 .. c /\ R[r] = fresh[r - Len(rows)]
      /\ \A i \in 1 .. c : Len(rows) + i \in DOMAIN R /\ R[Len(rows) + i] = fresh[i]
  BY <1>1, <1>6, <1>7
<1>9. \A r \in DOMAIN R \ DOMAIN rows :
          /\ R[r].name = new[r - Len(rows)] /\ R[r].name \in Free /\ R[r].origin = None
          /\ R[r].value = Absent /\ R[r].valueVersion = 0
  BY <1>2, <1>4, <1>8
<1>10. Texted(R)
  BY <1>6, <1>8, <1>9 DEF RowsOK, Texted
<1>11. NamesApart(R)
  <2> SUFFICES ASSUME NEW r \in DOMAIN R, NEW s \in DOMAIN R, r # s,
                      R[r].active, R[s].active, R[r].name = R[s].name
               PROVE  FALSE
    BY DEF NamesApart
  <2>1. CASE r \in DOMAIN rows /\ s \in DOMAIN rows
    BY <1>6, <1>8, <2>1 DEF RowsOK, NamesApart
  <2>2. CASE r \in DOMAIN rows /\ s \notin DOMAIN rows
    BY <1>8, <1>9, <2>2 DEF Free, NameFree
  <2>3. CASE r \notin DOMAIN rows /\ s \in DOMAIN rows
    BY <1>8, <1>9, <2>3 DEF Free, NameFree
  <2>4. CASE r \notin DOMAIN rows /\ s \notin DOMAIN rows
    <3>1. new[r - Len(rows)] = new[s - Len(rows)]
      BY <1>9, <2>4
    <3>2. r - Len(rows) = s - Len(rows)
      BY <1>2, <1>8, <2>4, <3>1
    <3>3. r \in Int /\ s \in Int
      BY <1>1, <1>6, <1>7
    <3> QED
      BY <1>6, <3>2, <3>3
  <2> QED
    BY <2>1, <2>2, <2>3, <2>4
<1>12. OriginsUnique(R)
  <2> SUFFICES ASSUME NEW r \in DOMAIN R, NEW s \in DOMAIN R, r # s, R[r].origin # None
               PROVE  R[r].origin # R[s].origin
    BY DEF OriginsUnique
  <2>1. r \in DOMAIN rows
    BY <1>9
  <2>2. CASE s \in DOMAIN rows
    BY <1>6, <1>8, <2>1, <2>2 DEF RowsOK, OriginsUnique
  <2>3. CASE s \notin DOMAIN rows
    BY <1>9, <2>3
  <2> QED
    BY <2>2, <2>3
<1>13. \A n \in DOMAIN export : Known(R, n) # {}
  <2> TAKE n \in DOMAIN export
  <2>1. CASE n \in Free
    <3>1. PICK i \in 1 .. c : new[i] = n
      BY <1>3, <2>1
    <3>2. Len(rows) + i \in Known(R, n)
      BY <1>4, <1>8, <3>1 DEF Known
    <3> QED
      BY <3>2
  <2>2. CASE n \notin Free
    BY <1>8, <2>2 DEF Free, NameFree, Known
  <2> QED
    BY <2>1, <2>2
<1>14. Free = {} => DOMAIN R = DOMAIN rows
  <2>1. Free = {} => c = 0
    BY FS_EmptySet DEF c
  <2> QED
    BY <1>6, <1>7, <2>1
<1>15. RowsOK(R) /\ Len(rows) <= Len(R)
  BY <1>1, <1>6, <1>7, <1>10, <1>11, <1>12 DEF RowsOK
<1> QED
  BY <1>8, <1>13, <1>14, <1>15 DEF Inserts, R, fresh

\* What a seed writes.
LEMMA SeededRows ==
    ASSUME TypeOK, SeedFiles
    PROVE  /\ export \in Exports
           /\ \E R : /\ Inserts(R)
                     /\ DOMAIN rows' = DOMAIN R
                     /\ \A r \in DOMAIN R :
                            /\ R[r] \in Rows /\ SameKey(rows'[r], R[r])
                            /\ rows'[r] =
                                   IF R[r].active /\ R[r].name \in DOMAIN export
                                   THEN Upsert(R[r], export[R[r].name]) ELSE R[r]
           /\ RowsOK(rows')
           /\ last' = [files |-> export, exported |-> FALSE]
           /\ runs' \in 0 .. MaxRuns
           /\ UNCHANGED <<remote, export, importer, edits>>
<1>1. export \in Exports
  BY DEF SeedFiles, TypeOK
<1>2. PICK new \in SetToSeqs(Free) : Seed(new)
  BY DEF SeedFiles, Free
<1> DEFINE R == rows \o [i \in DOMAIN new |-> NewRow(new[i], NoDescription, None)]
           Seeded(row) == IF row.active /\ row.name \in DOMAIN export
                          THEN Upsert(row, export[row.name]) ELSE row
<1>3. rows' = [r \in DOMAIN R |-> Seeded(R[r])]
  BY <1>2 DEF Seed
<1>4. Inserts(R)
  BY <1>1, <1>2, SeedInserts
<1> HIDE DEF R
<1>5. RowsOK(R) /\ \A r \in DOMAIN R : R[r] \in Rows
  BY <1>4, RowsAreRows DEF Inserts, RowsOK
<1>6. \A r \in DOMAIN R : R[r].value = Absent <=> R[r].valueVersion = 0
  BY <1>5 DEF RowsOK, Texted
<1>7. ASSUME NEW r \in DOMAIN R
      PROVE  /\ rows'[r] = Seeded(R[r])
             /\ rows'[r] \in Rows /\ SameKey(rows'[r], R[r])
             /\ rows'[r].value = Absent <=> rows'[r].valueVersion = 0
  <2>1. rows'[r] = Seeded(R[r])
    BY <1>3
  <2>2. CASE R[r].active /\ R[r].name \in DOMAIN export
    <3>1. rows'[r] = Upsert(R[r], export[R[r].name])
      BY <2>1, <2>2
    <3>2. export[R[r].name] \in Texts \cup {Blank}
      BY <1>1, <2>2, ExportedTexts
    <3> QED
      BY <1>5, <1>6, <2>1, <3>1, <3>2, TextUpsert
  <2>3. CASE ~(R[r].active /\ R[r].name \in DOMAIN export)
    BY <1>5, <1>6, <2>1, <2>3 DEF SameKey
  <2> QED
    BY <2>2, <2>3
<1>8. rows' = [r \in DOMAIN R |-> rows'[r]]
  BY <1>3
<1>9. RowsOK(rows') /\ DOMAIN rows' = DOMAIN R
  <2> HIDE DEF Seeded
  <2> QED
    BY <1>5, <1>7, <1>8, MappedRows DEF SameKey
<1>10. runs' \in 0 .. MaxRuns
  BY <1>2, ImportAssumption DEF Seed, TypeOK
<1>11. last' = [files |-> export, exported |-> FALSE] /\ UNCHANGED <<remote, export, importer, edits>>
  BY <1>2 DEF Seed
<1> QED
  BY <1>1, <1>4, <1>5, <1>7, <1>9, <1>10, <1>11

LEMMA TypeStep == TypeOK /\ [Next]_vars => TypeOK'
<1> SUFFICES ASSUME TypeOK, [Next]_vars PROVE TypeOK'
  OBVIOUS
<1>1. ASSUME SeedFiles PROVE TypeOK'
  BY <1>1, SeededRows DEF TypeOK, RowsOK, Texted, NamesApart, OriginsUnique
<1>2. ASSUME Fail \/ Clash PROVE TypeOK'
  BY <1>2 DEF Fail, Clash, Ends, TypeOK
<1>3. ASSUME UNCHANGED vars PROVE TypeOK'
  BY <1>3 DEF vars, TypeOK
<1> QED
  BY <1>1, <1>2, <1>3, TypeEditRemote, TypeExportFiles, TypeCreateKey, TypeEdits, TypeBegin,
     TypeFetch, TypeStore, TypeExportZip DEF Next

LEMMA TypeInit == Init => TypeOK
<1> SUFFICES ASSUME Init PROVE TypeOK
  OBVIOUS
<1>1. remote \in Fetched
  BY ImportAssumption DEF Init, Fetched, RemoteKeys
<1>2. rows = <<>> /\ rows \in Seq(Rows) /\ DOMAIN rows = {}
  BY EmptySeq DEF Init
<1> QED
  BY <1>1, <1>2, ImportAssumption DEF Init, TypeOK

\* The rows of the keys stay a sequence of well-formed rows, active names and ids at
\* Lokalise stay unique, and only a row with a text has a version of it, whatever
\* imports, seeds and edits do in whatever order.
THEOREM TypeCorrect == Spec => []TypeOK
BY TypeInit, TypeStep, PTL DEF Spec

-----------------------------------------------------------------------------
(* Pages: no key is skipped.                                               *)

\* The places in a list are without a gap.
LEMMA PlacesFill ==
    ASSUME NEW L \in SUBSET Nat, IsFiniteSet(L), NEW m \in 1 .. Cardinality(L)
    PROVE  \E i \in L : Cardinality({j \in L : j <= i}) = m
<1> DEFINE UpTo(i) == {j \in L : j <= i}
           High == {i \in L : Cardinality(UpTo(i)) >= m}
<1>1. Cardinality(L) \in Nat /\ L # {} /\ \A i \in L : i \in Nat
  BY FS_CardinalityType, FS_EmptySet
<1>2. \A i \in L : IsFiniteSet(UpTo(i)) /\ Cardinality(UpTo(i)) \in Nat
  BY FS_Subset, FS_CardinalityType
<1>3. High # {}
  <2>1. PICK x \in L : \A y \in L : y <= x
    BY <1>1, LargestExists
  <2>2. UpTo(x) = L
    BY <2>1
  <2>3. x \in High
    BY <1>1, <2>2
  <2> QED
    BY <2>3
<1>4. PICK i \in High : \A k \in High : i <= k
  <2>1. High \in SUBSET Nat
    OBVIOUS
  <2> HIDE DEF High
  <2> QED
    BY <1>3, <2>1, LeastExists
<1> DEFINE Below == UpTo(i) \ {i}
<1>5. i \in L /\ i \in UpTo(i) /\ Cardinality(UpTo(i)) >= m
  BY <1>1
<1>6. IsFiniteSet(Below) /\ Cardinality(Below) = Cardinality(UpTo(i)) - 1
  BY <1>2, <1>5, FS_RemoveElement
<1>7. SUFFICES ASSUME Cardinality(UpTo(i)) # m PROVE FALSE
  BY <1>5
<1>8. Cardinality(Below) >= m /\ Below # {}
  <2>1. Cardinality(UpTo(i)) \in Nat
    BY <1>2, <1>5
  <2>2. Cardinality(Below) >= m
    BY <1>5, <1>6, <1>7, <2>1
  <2> HIDE DEF Below
  <2> QED
    BY <2>2, FS_EmptySet
<1>9. PICK k \in Below : \A y \in Below : y <= k
  <2>1. Below \in SUBSET Nat
    BY <1>1
  <2> HIDE DEF Below
  <2> QED
    BY <1>6, <1>8, <2>1, LargestExists
<1>10. k \in L /\ k < i
  BY <1>1, <1>5
<1>11. UpTo(k) = Below
  <2>1. \A j \in L : j <= k <=> j <= i /\ j # i
    BY <1>1, <1>5, <1>9, <1>10
  <2> QED
    BY <2>1
<1>12. k \in High
  BY <1>8, <1>10, <1>11
<1> QED
  BY <1>1, <1>4, <1>5, <1>10, <1>12

LEMMA ListIsFinite ==
    /\ Listed \in SUBSET Nat /\ IsFiniteSet(Listed) /\ Cardinality(Listed) \in Nat
    /\ \A i \in Listed : Place(i) \in Nat \ {0} /\ Place(i) <= Cardinality(Listed)
<1>1. Listed \in SUBSET RemoteIds
  BY DEF Listed
<1>2. Listed \in SUBSET Nat /\ IsFiniteSet(Listed) /\ Cardinality(Listed) \in Nat
  BY <1>1, ImportAssumption, FS_Subset, FS_CardinalityType
<1>3. ASSUME NEW i \in Listed PROVE Place(i) \in Nat \ {0} /\ Place(i) <= Cardinality(Listed)
  <2> DEFINE T == {j \in Listed : j <= i}
  <2>1. T \in SUBSET Listed /\ i \in T
    BY <1>2
  <2> HIDE DEF T
  <2>2. IsFiniteSet(T) /\ Cardinality(T) <= Cardinality(Listed) /\ Cardinality(T) \in Nat
    BY <1>2, <2>1, FS_Subset, FS_CardinalityType
  <2>3. Cardinality(T) # 0
    BY <2>1, <2>2, FS_EmptySet
  <2> QED
    BY <2>2, <2>3 DEF T, Place
<1> QED
  BY <1>2, <1>3

\* A page that others follow is full.
LEMMA PageIsFull ==
    ASSUME NEW p \in Nat \ {0}, NEW i \in Listed, Place(i) > p * PageSize
    PROVE  ~LastPage(Page(p))
<1> DEFINE lo == (p - 1) * PageSize
           hi == p * PageSize
           T == lo + 1 .. hi
           f == [j \in Page(p) |-> Place(j)]
<1>1. PageSize \in Nat \ {0}
  BY ImportAssumption
<1>2. lo \in Nat /\ hi \in Nat /\ hi = lo + PageSize
  BY <1>1
<1>3. Page(p) \in SUBSET Listed /\ IsFiniteSet(Page(p)) /\ Cardinality(Page(p)) \in Nat
  <2>1. Page(p) \in SUBSET Listed
    BY DEF Page
  <2> QED
    BY <2>1, ListIsFinite, FS_Subset, FS_CardinalityType
<1>4. Page(p) = {j \in Listed : lo < Place(j) /\ Place(j) <= hi}
  BY DEF Page
<1> HIDE DEF lo, hi
<1>5. \A m \in T : \E j \in Page(p) : Place(j) = m
  <2> TAKE m \in T
  <2>1. m \in 1 .. Cardinality(Listed)
    BY <1>2, ListIsFinite DEF hi
  <2>2. PICK j \in Listed : Place(j) = m
    BY <2>1, ListIsFinite, PlacesFill DEF Place
  <2> QED
    BY <1>2, <1>4, <2>2
<1>6. f \in Surjection(Page(p), T)
  <2>1. \A j \in Page(p) : Place(j) \in T
    <3> TAKE j \in Page(p)
    <3>1. j \in Listed /\ lo < Place(j) /\ Place(j) <= hi
      BY <1>4
    <3>2. Place(j) \in Nat
      BY <3>1, ListIsFinite
    <3> QED
      BY <1>2, <3>1, <3>2
  <2> HIDE DEF T
  <2>2. f \in [Page(p) -> T] /\ \A m \in T : \E j \in Page(p) : f[j] = m
    BY <1>5, <2>1
  <2> QED
    BY <2>2 DEF Surjection
<1>7. Cardinality(T) <= Cardinality(Page(p))
  <2> HIDE DEF T, f
  <2> QED
    BY <1>3, <1>6, FS_Surjection
<1>8. Cardinality(T) = PageSize
  BY <1>1, <1>2, FS_Interval
<1> QED
  BY <1>1, <1>3, <1>7, <1>8 DEF LastPage

\* What a run has fetched so far: the keys that stayed, up to the last page.
Paged(run) ==
    /\ run.steady \subseteq Listed
    /\ run.stage = "languages" => run.page = 1
    /\ run.stage = "keys" => run.page >= 1
    /\ run.stage = "keys" /\ ~run.shifted =>
           \A i \in run.steady : Place(i) <= (run.page - 1) * PageSize => run.got[i] # None
    /\ run.stage = "store" /\ ~run.shifted => \A i \in run.steady : run.got[i] # None

PagingInv == importer # None => Paged(importer)

\* Nobody moves up when a key is changed or added.
LEMMA PlacesStay ==
    ASSUME TypeOK, NEW i \in RemoteIds, NEW k \in RemoteKeys, EditRemote(i, k)
    PROVE  /\ Listed \subseteq Listed'
           /\ \A j \in Listed : Place(j)' = Place(j)
           /\ UNCHANGED importer
<1>1. k # None
  BY NoneAssumption
<1>2. remote' = [remote EXCEPT ![i] = k] /\ (remote[i] = None => \A j \in Listed : j < i)
  BY DEF EditRemote
<1>3. Listed' = Listed \cup {i}
  BY <1>1, <1>2 DEF Listed, TypeOK, Fetched
<1>4. ASSUME NEW j \in Listed PROVE Place(j)' = Place(j)
  <2>1. {l \in Listed' : l <= j} = {l \in Listed : l <= j}
    <3>1. CASE i \in Listed
      BY <1>3, <3>1
    <3>2. CASE i \notin Listed
      <4>1. j < i
        BY <1>2, <3>2 DEF Listed
      <4>2. i \in Nat /\ j \in Nat
        BY ImportAssumption DEF Listed
      <4> QED
        BY <1>3, <4>1, <4>2
    <3> QED
      BY <3>1, <3>2
  <2> QED
    BY <2>1 DEF Place
<1> QED
  BY <1>1, <1>3, <1>4 DEF EditRemote

LEMMA PagingEdit ==
    ASSUME TypeOK, PagingInv, NEW i \in RemoteIds, NEW k \in RemoteKeys \cup {None},
           EditRemote(i, k)
    PROVE  PagingInv'
<1> SUFFICES ASSUME importer' # None PROVE Paged(importer)'
  BY DEF PagingInv
<1>1. importer \in Run /\ Paged(importer)
  BY DEF EditRemote, PagingInv, TypeOK
<1>2. CASE k = None
  <2>1. importer' = [importer EXCEPT !.steady = @ \ {i}, !.shifted = TRUE]
    BY <1>1, <1>2, NoneAssumption DEF EditRemote
  <2>2. Listed' = Listed \ {i}
    BY <1>2 DEF EditRemote, Listed, TypeOK, Fetched
  <2>3. /\ importer'.steady = importer.steady \ {i} /\ importer'.shifted
        /\ importer'.stage = importer.stage /\ importer'.page = importer.page
    BY <1>1, <2>1 DEF Run
  <2> QED
    BY <1>1, <2>2, <2>3 DEF Paged
<1>3. CASE k # None
  <2>1. Listed \subseteq Listed' /\ (\A j \in Listed : Place(j)' = Place(j)) /\ importer' = importer
    BY <1>3, PlacesStay
  <2> QED
    BY <1>1, <2>1 DEF Paged
<1> QED
  BY <1>2, <1>3

LEMMA PagingAnswer ==
    ASSUME TypeOK, PagingInv, AnswerKeys
    PROVE  PagingInv'
<1> DEFINE p == importer.page
           S == Page(p)
<1>1. importer \in Run /\ Paged(importer) /\ importer.stage = "keys" /\ UNCHANGED remote
  BY DEF AnswerKeys, PagingInv, TypeOK
<1>2. p \in Nat \ {0} /\ PageSize \in Nat \ {0}
  BY <1>1, ImportAssumption DEF Paged, Run
<1>3. /\ importer'.got = [i \in RemoteIds |-> IF i \in S THEN remote[i] ELSE importer.got[i]]
      /\ importer'.stage = IF LastPage(S) THEN "store" ELSE "keys"
      /\ importer'.page = p + 1
      /\ importer'.steady = importer.steady /\ importer'.shifted = importer.shifted
  BY <1>1 DEF AnswerKeys, Run
<1>4. Listed' = Listed /\ \A i \in Listed : Place(i)' = Place(i)
  BY <1>1 DEF Listed, Place
<1>5. importer.steady \subseteq Listed
  BY <1>1 DEF Paged
<1>6. ASSUME ~importer.shifted, NEW i \in importer.steady, Place(i) <= p * PageSize
      PROVE  importer'.got[i] # None
  <2>1. i \in Listed /\ i \in RemoteIds /\ remote[i] # None
    BY <1>5 DEF Listed
  <2>2. CASE Place(i) <= (p - 1) * PageSize
    <3>1. importer.got[i] # None
      BY <1>1, <1>6, <2>2 DEF Paged
    <3> QED
      BY <1>3, <2>1, <3>1
  <2>3. CASE ~(Place(i) <= (p - 1) * PageSize)
    <3>1. (p - 1) * PageSize \in Int /\ Place(i) \in Nat
      BY <1>2, <2>1, ListIsFinite
    <3>2. i \in S
      BY <1>6, <2>1, <2>3, <3>1 DEF Page
    <3> QED
      BY <1>3, <2>1, <3>2
  <2> QED
    BY <2>2, <2>3
<1>7. ASSUME LastPage(S), NEW i \in importer.steady PROVE Place(i) <= p * PageSize
  <2>1. i \in Listed
    BY <1>5
  <2>2. Place(i) \in Nat
    BY <2>1, ListIsFinite
  <2>3. p * PageSize \in Nat
    BY <1>2
  <2>4. ~(Place(i) > p * PageSize)
    BY <1>2, <1>7, <2>1, PageIsFull
  <2> QED
    BY <2>2, <2>3, <2>4
<1>8. (importer'.page - 1) * PageSize = p * PageSize /\ importer'.page >= 1
  BY <1>2, <1>3
<1>9. Paged(importer)'
  <2> HIDE DEF S, p
  <2>1. CASE LastPage(S)
    <3>1. importer'.stage = "store"
      BY <1>3, <2>1
    <3>2. ~importer'.shifted => \A i \in importer'.steady : importer'.got[i] # None
      BY <1>3, <1>6, <1>7, <2>1
    <3> QED
      BY <1>3, <1>4, <1>5, <3>1, <3>2 DEF Paged
  <2>2. CASE ~LastPage(S)
    <3>1. importer'.stage = "keys"
      BY <1>3, <2>2
    <3>2. ~importer'.shifted =>
              \A i \in importer'.steady :
                  Place(i)' <= (importer'.page - 1) * PageSize => importer'.got[i] # None
      BY <1>3, <1>4, <1>5, <1>6, <1>8
    <3> QED
      BY <1>3, <1>4, <1>5, <1>8, <3>1, <3>2 DEF Paged
  <2> QED
    BY <2>1, <2>2
<1> QED
  BY <1>9 DEF PagingInv

LEMMA PagingStep == TypeOK /\ PagingInv /\ [Next]_vars => PagingInv'
<1> SUFFICES ASSUME TypeOK, PagingInv, [Next]_vars PROVE PagingInv'
  OBVIOUS
<1>1. ASSUME Begin PROVE PagingInv'
  <2>1. /\ importer'.steady = Listed /\ importer'.stage = "languages" /\ importer'.page = 1
        /\ Listed' = Listed
    BY <1>1 DEF Begin, Listed
  <2> QED
    BY <2>1 DEF PagingInv, Paged
<1>2. ASSUME Retry PROVE PagingInv'
  <2>1. importer # None /\ importer \in Run /\ importer' = [importer EXCEPT !.attempt = @ + 1]
    BY <1>2 DEF Retry, Asking, Again, TypeOK
  <2>2. /\ importer'.steady = importer.steady /\ importer'.stage = importer.stage
        /\ importer'.page = importer.page /\ importer'.shifted = importer.shifted
        /\ importer'.got = importer.got
    BY <2>1 DEF Run
  <2>3. Listed' = Listed /\ \A i : Place(i)' = Place(i)
    BY <1>2 DEF Retry, Listed, Place
  <2> QED
    BY <2>1, <2>2, <2>3 DEF PagingInv, Paged
<1>3. ASSUME AnswerLanguages PROVE PagingInv'
  <2>1. importer # None /\ importer \in Run /\ importer.stage = "languages"
    BY <1>3 DEF AnswerLanguages, TypeOK
  <2>2. importer'.stage = "keys" /\ importer'.page = importer.page /\ importer'.steady = importer.steady
    BY <1>3, <2>1 DEF AnswerLanguages, Run
  <2>3. Listed' = Listed /\ \A i : Place(i)' = Place(i)
    BY <1>3 DEF AnswerLanguages, Listed, Place
  <2>4. importer.page = 1 /\ importer.steady \subseteq Listed
    BY <2>1 DEF PagingInv, Paged
  <2>5. (importer'.page - 1) * PageSize = 0
    BY <2>2, <2>4, ImportAssumption
  <2>6. \A i \in importer'.steady : ~(Place(i)' <= (importer'.page - 1) * PageSize)
    <3>1. \A i \in importer'.steady : Place(i) \in Nat \ {0}
      BY <2>2, <2>4, ListIsFinite
    <3> QED
      BY <2>3, <2>5, <3>1
  <2> QED
    BY <2>2, <2>3, <2>4, <2>6 DEF PagingInv, Paged
<1>4. ASSUME Fail \/ Clash \/ Store PROVE PagingInv'
  BY <1>4 DEF Fail, Clash, Store, Ends, PagingInv
<1>5. ASSUME UNCHANGED <<remote, importer>> PROVE PagingInv'
  BY <1>5 DEF PagingInv, Paged, Listed, Place
<1>6. ASSUME \/ ExportFiles \/ SeedFiles \/ \E n \in Names : CreateKey(n)
             \/ \E include \in BOOLEAN : ExportZip(include) \/ UNCHANGED vars
      PROVE  UNCHANGED <<remote, importer>>
  BY <1>6 DEF ExportFiles, SeedFiles, Seed, CreateKey, ExportZip, vars
<1>7. ASSUME NEW r \in DOMAIN rows,
             \/ \E n \in Names : RenameKey(r, n)
             \/ DeleteKey(r)
             \/ \E v \in Texts \cup {Blank}, h \in {"plain", "cdata"} : SetText(r, v, h)
             \/ RemoveText(r)
      PROVE  UNCHANGED <<remote, importer>>
  BY <1>7 DEF RenameKey, DeleteKey, SetText, RemoveText, EditRow
<1> QED
  BY <1>1, <1>2, <1>3, <1>4, <1>5, <1>6, <1>7, PagingEdit, PagingAnswer DEF Next

\* A run that no removal disturbed stores every key that was there throughout: pages
\* are without a gap, only the last of them is short, and a key that is added or
\* changed moves no other to another page.
THEOREM FetchIsComplete == Spec => NothingSkipped
<1>1. Init => PagingInv
  BY DEF Init, PagingInv
<1>2. TypeOK /\ PagingInv /\ [Next]_vars =>
          [Store /\ ~importer.shifted => importer.steady \subseteq Got]_vars
  <2> SUFFICES ASSUME TypeOK, PagingInv, Store, ~importer.shifted
               PROVE  importer.steady \subseteq Got
    OBVIOUS
  <2>1. importer \in Run /\ Paged(importer) /\ importer.stage = "store"
    BY DEF Store, PagingInv, TypeOK
  <2> QED
    BY <2>1 DEF Paged, Got, Run
<1> QED
  BY <1>1, <1>2, TypeInit, TypeStep, PagingStep, PTL DEF Spec, NothingSkipped

-----------------------------------------------------------------------------
(* Blank and missing texts.                                                *)

LEMMA TextArrives ==
    ASSUME TypeOK, Store, NEW i \in Got, Namesakes(i) = {},
           importer.got[i].name \in DOMAIN export <=> importer.got[i].value # Absent
    PROVE  \E r \in Known(rows', importer.got[i].name) :
               rows'[r].value =
                   IF importer.got[i].value # Absent THEN importer.got[i].value
                   ELSE IF r \in DOMAIN rows THEN rows[r].value ELSE Absent
<1> DEFINE k == importer.got[i]
<1>1. /\ importer \in Run /\ DOMAIN rows' = DOMAIN Upserted
      /\ \A r \in DOMAIN rows' : rows'[r] = WithText(Upserted[r]) /\ Upserted[r] \in Rows
  BY StoredRows
<1>2. /\ Known(Upserted, k.name) # {}
      /\ \A r \in DOMAIN rows : SameText(Upserted[r], rows[r])
      /\ \A r \in DOMAIN Upserted \ DOMAIN rows : Upserted[r].value = Absent
  BY <1>1, UpsertedKeeps
<1>3. PICK r \in DOMAIN Upserted : Upserted[r].active /\ Upserted[r].name = k.name
  BY <1>2 DEF Known
<1> DEFINE row == Upserted[r]
<1> HIDE DEF Upserted
<1>4. row \in Rows /\ rows'[r] = WithText(row)
  BY <1>1, <1>3
<1>5. r \in Known(rows', k.name)
  <2>1. rows'[r].active = row.active /\ rows'[r].name = row.name
    BY <1>1, <1>4, TextKept DEF SameKey
  <2> QED
    BY <1>1, <1>3, <2>1 DEF Known
<1>6. CASE k.value # Absent
  <2>1. k.name \in DOMAIN export
    BY <1>6
  <2>2. Speakers(row) = {i}
    BY <1>3, <2>1 DEF Speakers, Present, Namesakes
  <2>3. Max(Speakers(row)) = i
    BY <1>1, <2>2, LastSpeaker
  <2>4. rows'[r].value = Said(k.value)
    BY <1>1, <1>4, <2>2, <2>3, TextKept
  <2>5. rows'[r].value = k.value
    BY <1>1, <1>6, <2>4, GotKey, SaidIsText
  <2> QED
    BY <1>5, <1>6, <2>5
<1>7. CASE k.value = Absent
  <2>1. Speakers(row) = {}
    BY <1>3, <1>7 DEF Speakers, Present
  <2>2. rows'[r] = row
    BY <1>4, <2>1 DEF WithText
  <2>3. row.value = IF r \in DOMAIN rows THEN rows[r].value ELSE Absent
    BY <1>2, <1>3 DEF SameText
  <2> QED
    BY <1>5, <1>7, <2>2, <2>3
<1> QED
  BY <1>6, <1>7

\* A text arrives as Lokalise has it, a blank one as blank, and none leaves the row's
\* as it was: upserts of keys touch no text, and of a key that shares its name with
\* no other only its own text is written.
THEOREM BlanksArrive == Spec => PresenceKept
<1>1. TypeOK /\ [Next]_vars =>
          [Store =>
              \A i \in Got : LET k == importer.got[i] IN
                  Namesakes(i) = {} /\ (k.name \in DOMAIN export <=> k.value # Absent) =>
                      \E r \in Known(rows', k.name) :
                          rows'[r].value =
                              IF k.value # Absent THEN k.value
                              ELSE IF r \in DOMAIN rows THEN rows[r].value ELSE Absent]_vars
  BY TextArrives
<1> QED
  BY <1>1, TypeInit, TypeStep, PTL DEF Spec, PresenceKept

-----------------------------------------------------------------------------
(* A run that is repeated.                                                 *)

\* Who speaks of a row, given the keys g and the files e.
SpeakersOf(g, e, row) ==
    IF row.active /\ row.name \in DOMAIN e THEN {i \in Keyed(g) : g[i].name = row.name} ELSE {}

\* An import of the keys g beside the files e finds nothing to change, but for the
\* descriptions of names that several keys share.
Landed(R, g, e) ==
    /\ \A i \in Keyed(g) :
           /\ Known(R, g[i].name) # {}
           /\ Alone(g, i) => \A r \in Known(R, g[i].name) : g[i].desc \in {NoDescription, R[r].desc}
    /\ \A r \in DOMAIN R : SpeakersOf(g, e, R[r]) # {} =>
           /\ R[r].value = Said(g[Max(SpeakersOf(g, e, R[r]))].value)
           /\ R[r].hint = "plain"

\* A seed from the files e finds all names, and all texts but what files cannot tell.
Written(R, e, exported) ==
    /\ \A n \in DOMAIN e : Known(R, n) # {}
    /\ \A r \in DOMAIN R : R[r].active /\ R[r].name \in DOMAIN e =>
           IF exported THEN e[R[r].name] = Said(R[r].value)
           ELSE e[R[r].name] = R[r].value /\ R[r].hint = "plain"

LastInv ==
    /\ importer # None => export # None
    /\ \A g \in Fetched, e \in Exports : last = [got |-> g, export |-> e] => Landed(rows, g, e)
    /\ \A e \in Exports, b \in BOOLEAN :
           last = [files |-> e, exported |-> b] => Written(rows, e, b)

LEMMA StoreLands ==
    ASSUME TypeOK, Store
    PROVE  Landed(rows', importer.got, export)
<1> DEFINE g == importer.got
<1>1. /\ importer \in Run /\ DOMAIN rows' = DOMAIN Upserted
      /\ \A r \in DOMAIN rows' : rows'[r] = WithText(Upserted[r]) /\ Upserted[r] \in Rows
  BY StoredRows
<1>2. \A i \in Got :
          /\ Known(Upserted, g[i].name) # {}
          /\ Alone(g, i) => \A r \in Known(Upserted, g[i].name) :
                                 g[i].desc \in {NoDescription, Upserted[r].desc}
  BY <1>1, UpsertedKeeps
<1> HIDE DEF Upserted
<1>3. \A r \in DOMAIN rows' : SameKey(rows'[r], Upserted[r])
  BY <1>1, TextKept
<1>4. \A n : Known(rows', n) = Known(Upserted, n)
  BY <1>1, <1>3 DEF Known, SameKey
<1>5. \A i \in Keyed(g) :
          /\ Known(rows', g[i].name) # {}
          /\ Alone(g, i) => \A r \in Known(rows', g[i].name) : g[i].desc \in {NoDescription, rows'[r].desc}
  BY <1>1, <1>2, <1>3, <1>4 DEF Keyed, Got, SameKey, Known
<1>6. ASSUME NEW r \in DOMAIN rows', SpeakersOf(g, export, rows'[r]) # {}
      PROVE  /\ rows'[r].value = Said(g[Max(SpeakersOf(g, export, rows'[r]))].value)
             /\ rows'[r].hint = "plain"
  <2>1. SpeakersOf(g, export, rows'[r]) = Speakers(Upserted[r])
    BY <1>3, <1>6 DEF SpeakersOf, Speakers, SameKey, Keyed, Got, Present
  <2> QED
    BY <1>1, <1>6, <2>1, TextKept
<1> QED
  BY <1>5, <1>6 DEF Landed

LEMMA ZipIsWritten ==
    ASSUME TypeOK, NEW include \in BOOLEAN, ExportZip(include)
    PROVE  /\ Written(rows', export', TRUE) /\ export' \in Exports /\ importer' = None
           /\ last' = [files |-> export', exported |-> TRUE]
<1> DEFINE written == {r \in DOMAIN rows : rows[r].active /\ (include \/ rows[r].value # Absent)}
           Row(n) == CHOOSE r \in written : rows[r].name = n
           names == {rows[r].name : r \in written}
<1>1. export' = [n \in names |-> Said(rows[Row(n)].value)]
  BY DEF ExportZip
<1>2. \A n \in names : Row(n) \in written /\ rows[Row(n)].name = n
  OBVIOUS
<1>3. NamesApart(rows)
  BY TypeParts DEF RowsOK
<1>4. DOMAIN export' = names
  BY <1>1
<1>5. ASSUME NEW n \in names PROVE Known(rows, n) # {}
  BY <1>2, <1>5 DEF Known
<1>6. ASSUME NEW r \in DOMAIN rows, rows[r].active, rows[r].name \in names
      PROVE  export'[rows[r].name] = Said(rows[r].value)
  <2>1. Row(rows[r].name) = r
    BY <1>2, <1>3, <1>6 DEF NamesApart
  <2> HIDE DEF Row, names
  <2> QED
    BY <1>1, <1>6, <2>1
<1>7. rows' = rows /\ importer' = None /\ last' = [files |-> export', exported |-> TRUE]
  BY DEF ExportZip
<1>8. export' \in Exports
  <2>1. TypeOK'
    BY TypeExportZip
  <2>2. export' # None
    <3>1. export' \in Exports \cup {None} /\ export' \in [names -> Texts \cup {Blank}]
          /\ names \in SUBSET Names
      <4>1. \A r \in written : rows[r] \in Rows
        BY RowsAreRows DEF TypeOK
      <4>2. names \in SUBSET Names
        BY <4>1 DEF Rows
      <4>3. \A n \in names : Said(rows[Row(n)].value) \in Texts \cup {Blank}
        BY <1>2, <4>1, SaidIsText DEF Rows
      <4>4. export' \in [names -> Texts \cup {Blank}]
        <5> HIDE DEF names, Row
        <5> QED
          BY <1>1, <4>3
      <4> QED
        BY <2>1, <4>2, <4>4 DEF TypeOK
    <3> HIDE DEF names
    <3> QED
      BY <3>1, NoneAssumption DEF Exports
  <2> QED
    BY <2>1, <2>2 DEF TypeOK
<1> HIDE DEF names
<1> QED
  BY <1>4, <1>5, <1>6, <1>7, <1>8 DEF Written

LEMMA SeedIsWritten ==
    ASSUME TypeOK, SeedFiles
    PROVE  Written(rows', export, FALSE)
<1>1. export \in Exports
  BY SeededRows
<1>2. PICK R : /\ Inserts(R)
               /\ DOMAIN rows' = DOMAIN R
               /\ \A r \in DOMAIN R :
                      /\ R[r] \in Rows /\ SameKey(rows'[r], R[r])
                      /\ rows'[r] =
                             IF R[r].active /\ R[r].name \in DOMAIN export
                             THEN Upsert(R[r], export[R[r].name]) ELSE R[r]
  BY SeededRows
<1>3. \A n : Known(rows', n) = Known(R, n)
  BY <1>2 DEF Known, SameKey
<1>4. ASSUME NEW r \in DOMAIN R, R[r].active, R[r].name \in DOMAIN export
      PROVE  rows'[r].value = export[R[r].name] /\ rows'[r].hint = "plain"
  <2>1. rows'[r] = Upsert(R[r], export[R[r].name])
    BY <1>2, <1>4
  <2>2. export[R[r].name] \in Texts \cup {Blank}
    BY <1>1, <1>4, ExportedTexts
  <2> QED
    BY <1>2, <2>1, <2>2, TextUpsert
<1>5. \A r \in DOMAIN R : rows'[r].active = R[r].active /\ rows'[r].name = R[r].name
  BY <1>2 DEF SameKey
<1> QED
  BY <1>2, <1>3, <1>4, <1>5 DEF Written, Inserts

LEMMA LastStep == TypeOK /\ LastInv /\ [Next]_vars => LastInv'
<1> SUFFICES ASSUME TypeOK, LastInv, [Next]_vars PROVE LastInv'
  OBVIOUS
<1>1. ASSUME NEW g, NEW e, NEW f, NEW b
      PROVE  [got |-> g, export |-> e] # [files |-> f, exported |-> b]
  <2>1. "got" \in DOMAIN [got |-> g, export |-> e] /\ "got" \notin DOMAIN [files |-> f, exported |-> b]
    OBVIOUS
  <2> QED
    BY <2>1
<1>2. /\ \A g \in Fetched, e \in Exports : None # [got |-> g, export |-> e]
      /\ \A e \in Exports, b \in BOOLEAN : None # [files |-> e, exported |-> b]
  BY NoneAssumption
<1>3. ASSUME UNCHANGED <<rows, last>>, importer' # None => export' # None PROVE LastInv'
  BY <1>3 DEF LastInv, Landed, Written, Known
<1>4. ASSUME last' = None, importer' = importer, export' = export PROVE LastInv'
  BY <1>2, <1>4 DEF LastInv
<1>5. ASSUME Store PROVE LastInv'
  <2>1. importer' = None /\ last' = [got |-> importer.got, export |-> export]
    BY <1>5 DEF Store
  <2>2. Landed(rows', importer.got, export)
    BY <1>5, StoreLands
  <2>3. \A g, e : last' = [got |-> g, export |-> e] => g = importer.got /\ e = export
    BY <2>1
  <2>4. \A e, b : last' # [files |-> e, exported |-> b]
    BY <1>1, <2>1
  <2> QED
    BY <2>1, <2>2, <2>3, <2>4 DEF LastInv
<1>6. ASSUME NEW include \in BOOLEAN, ExportZip(include) PROVE LastInv'
  <2>1. /\ Written(rows', export', TRUE) /\ importer' = None
        /\ last' = [files |-> export', exported |-> TRUE]
    BY <1>6, ZipIsWritten
  <2>2. \A e, b : last' = [files |-> e, exported |-> b] => e = export' /\ b = TRUE
    BY <2>1
  <2>3. \A g, e : last' # [got |-> g, export |-> e]
    BY <1>1, <2>1
  <2> QED
    BY <2>1, <2>2, <2>3 DEF LastInv
<1>7. ASSUME SeedFiles PROVE LastInv'
  <2>1. /\ Written(rows', export, FALSE) /\ importer' = importer /\ export' = export
        /\ last' = [files |-> export, exported |-> FALSE]
    BY <1>7, SeedIsWritten, SeededRows
  <2>2. \A e, b : last' = [files |-> e, exported |-> b] => e = export /\ b = FALSE
    BY <2>1
  <2>3. \A g, e : last' # [got |-> g, export |-> e]
    BY <1>1, <2>1
  <2> QED
    BY <2>1, <2>2, <2>3 DEF LastInv
<1>8. ASSUME \/ \E n \in Names : CreateKey(n)
             \/ \E r \in DOMAIN rows :
                    \/ \E n \in Names : RenameKey(r, n)
                    \/ DeleteKey(r)
                    \/ \E v \in Texts \cup {Blank}, h \in {"plain", "cdata"} : SetText(r, v, h)
                    \/ RemoveText(r)
      PROVE  LastInv'
  BY <1>4, <1>8 DEF CreateKey, RenameKey, DeleteKey, SetText, RemoveText, EditRow
<1>9. ASSUME \/ \E i \in RemoteIds, k \in RemoteKeys \cup {None} : EditRemote(i, k)
             \/ ExportFiles \/ Begin \/ AnswerLanguages \/ AnswerKeys \/ Retry
             \/ Fail \/ Clash \/ UNCHANGED vars
      PROVE  LastInv'
  <2>1. UNCHANGED <<rows, last>>
    BY <1>9 DEF EditRemote, ExportFiles, Begin, AnswerLanguages, AnswerKeys, Retry, Fail, Clash, Ends, vars
  <2>2. importer' # None => importer # None \/ Begin
    BY <1>9 DEF EditRemote, ExportFiles, Begin, AnswerLanguages, AnswerKeys, Retry, Asking, Fail, Clash, Ends, vars
  <2>3. importer' # None => export' = export
    BY <1>9 DEF EditRemote, ExportFiles, Begin, AnswerLanguages, AnswerKeys, Retry, Fail, Clash, Ends, vars
  <2>4. importer' # None => export' # None
    BY <2>2, <2>3 DEF LastInv, Begin
  <2> QED
    BY <1>3, <2>1, <2>4
<1> QED
  BY <1>5, <1>6, <1>7, <1>8, <1>9 DEF Next

\* What a repeated import makes of the rows, key by key: no row is new, and only a
\* name that several keys share can get another description.
Repeating(R) ==
    /\ R \in Seq(Rows) /\ DOMAIN R = DOMAIN rows
    /\ \A r \in DOMAIN rows :
           /\ SameText(R[r], rows[r])
           /\ (\A i \in Got : r \in Known(rows, importer.got[i].name) => Alone(importer.got, i)) =>
                  R[r] = rows[r]

LEMMA RepeatKeeps ==
    ASSUME TypeOK, importer \in Run, Landed(rows, importer.got, export)
    PROVE  Repeating(Upserted)
<1> DEFINE Kept == {n \in Nat : Repeating(UpsertedTo[n])}
<1>1. 0 \in Kept
  <2>1. Repeating(rows)
    BY DEF Repeating, SameText, TypeOK
  <2> QED
    BY <2>1, UpsertedEquation
<1>2. ASSUME NEW n \in Kept PROVE n + 1 \in Kept
  <2> DEFINE R == UpsertedTo[n]
             S == UpsertedTo[n + 1]
             k == importer.got[n + 1]
  <2>1. Repeating(R) /\ n \in Nat /\ S = After(R, n + 1)
    BY UpsertedEquation
  <2> HIDE DEF R, S
  <2>2. CASE n + 1 \in Got
    <3>1. Upserts(R, S, n + 1)
      BY <2>1, <2>2, OneUpsert DEF After, Repeating
    <3>2. Known(R, k.name) = Known(rows, k.name)
      BY <2>1 DEF Repeating, Known, SameText
    <3>3. /\ Known(rows, k.name) # {}
          /\ Alone(importer.got, n + 1) =>
                 \A r \in Known(rows, k.name) : k.desc \in {NoDescription, rows[r].desc}
      BY <2>2 DEF Landed, Keyed, Got
    <3>4. DOMAIN S = DOMAIN rows /\ S \in Seq(Rows)
      BY <2>1, <3>1, <3>2, <3>3 DEF Upserts, Repeating
    <3>5. \A r \in DOMAIN rows : SameText(S[r], rows[r])
      BY <2>1, <3>1 DEF Upserts, Repeating, SameText
    <3>6. ASSUME NEW r \in DOMAIN rows,
                 \A i \in Got : r \in Known(rows, importer.got[i].name) => Alone(importer.got, i)
          PROVE  S[r] = rows[r]
      <4>1. r \in DOMAIN R /\ R[r] = rows[r]
        BY <2>1, <3>6 DEF Repeating
      <4>2. r \notin Known(R, k.name) \/ k.desc \in {NoDescription, R[r].desc}
        BY <2>2, <3>2, <3>3, <3>6, <4>1
      <4> QED
        BY <3>1, <4>1, <4>2 DEF Upserts
    <3>7. Repeating(S)
      BY <3>4, <3>5, <3>6 DEF Repeating
    <3> QED
      BY <2>1, <3>7 DEF S
  <2>3. CASE n + 1 \notin Got
    <3>1. S = R
      BY <2>1, <2>3 DEF After
    <3> QED
      BY <2>1, <3>1 DEF S
  <2> QED
    BY <2>2, <2>3
<1>3. Kept = Nat
  <2> HIDE DEF Kept
  <2>1. Kept \in SUBSET Nat
    BY DEF Kept
  <2> QED
    BY <1>1, <1>2, <2>1, CountUp
<1> QED
  BY <1>3, GotIsFinite DEF Upserted

LEMMA RepeatedStore ==
    ASSUME TypeOK, Store, Landed(rows, importer.got, export), NEW r \in DOMAIN rows', rows'[r] # rows[r]
    PROVE  /\ \E i \in Got : importer.got[i].name = rows[r].name /\ Namesakes(i) # {}
           /\ rows'[r].valueVersion = rows[r].valueVersion
<1> DEFINE g == importer.got
           row == Upserted[r]
<1>1. /\ importer \in Run /\ DOMAIN rows' = DOMAIN Upserted
      /\ rows'[r] = WithText(row) /\ row \in Rows
  BY StoredRows
<1>2. Repeating(Upserted)
  BY <1>1, RepeatKeeps
<1> HIDE DEF Upserted
<1>3. r \in DOMAIN rows /\ SameText(row, rows[r])
  BY <1>1, <1>2 DEF Repeating
<1>4. Speakers(row) = SpeakersOf(g, export, rows[r])
  BY <1>3 DEF Speakers, SpeakersOf, SameText, Keyed, Got, Present
<1>5. WithText(row) = row
  <2>1. CASE Speakers(row) = {}
    BY <2>1 DEF WithText
  <2>2. CASE Speakers(row) # {}
    <3>1. rows[r].value = Said(g[Max(Speakers(row))].value) /\ rows[r].hint = "plain"
      BY <1>3, <1>4, <2>2 DEF Landed
    <3>2. row.value = Said(g[Max(Speakers(row))].value) /\ row.hint = "plain"
      BY <1>3, <3>1 DEF SameText
    <3> QED
      BY <2>2, <3>2 DEF WithText, Upsert
  <2> QED
    BY <2>1, <2>2
<1>6. PICK i \in Got : r \in Known(rows, g[i].name) /\ ~Alone(g, i)
  BY <1>1, <1>2, <1>3, <1>5 DEF Repeating
<1>7. g[i].name = rows[r].name /\ Namesakes(i) # {}
  BY <1>6 DEF Known, Alone, Namesakes, Keyed, Got
<1> QED
  BY <1>1, <1>3, <1>5, <1>7 DEF SameText

LEMMA RepeatedSeed ==
    ASSUME TypeOK, SeedFiles, NEW exported \in BOOLEAN, Written(rows, export, exported)
    PROVE  /\ DOMAIN rows' = DOMAIN rows
           /\ \A r \in DOMAIN rows : rows'[r] # rows[r] =>
                  /\ exported
                  /\ rows[r].value = Absent \/ rows[r].hint = "cdata"
                  /\ rows'[r] = Rewritten(rows[r], Said(rows[r].value))
<1>1. PICK R : /\ Inserts(R)
               /\ DOMAIN rows' = DOMAIN R
               /\ \A r \in DOMAIN R :
                      /\ R[r] \in Rows /\ SameKey(rows'[r], R[r])
                      /\ rows'[r] =
                             IF R[r].active /\ R[r].name \in DOMAIN export
                             THEN Upsert(R[r], export[R[r].name]) ELSE R[r]
  BY SeededRows
<1>2. Free = {}
  BY DEF Written, Known, Free, NameFree
<1>3. DOMAIN R = DOMAIN rows /\ \A r \in DOMAIN rows : R[r] = rows[r]
  BY <1>1, <1>2 DEF Inserts
<1>4. ASSUME NEW r \in DOMAIN rows, rows'[r] # rows[r]
      PROVE  /\ exported
             /\ rows[r].value = Absent \/ rows[r].hint = "cdata"
             /\ rows'[r] = Rewritten(rows[r], Said(rows[r].value))
  <2> DEFINE text == export[rows[r].name]
  <2>1. /\ rows[r].active /\ rows[r].name \in DOMAIN export
        /\ rows'[r] = Upsert(rows[r], text) /\ rows[r] \in Rows
    BY <1>1, <1>3, <1>4
  <2>2. ~(rows[r].value = text /\ rows[r].hint = "plain")
    BY <1>4, <2>1 DEF Upsert
  <2>3. IF exported THEN text = Said(rows[r].value) ELSE text = rows[r].value /\ rows[r].hint = "plain"
    BY <2>1 DEF Written
  <2> HIDE DEF text
  <2>4. exported /\ text = Said(rows[r].value)
    BY <2>2, <2>3
  <2>5. rows'[r] = Rewritten(rows[r], Said(rows[r].value))
    BY <2>1, <2>2, <2>4 DEF Upsert
  <2>6. rows[r].hint \in {"plain", "cdata"}
    BY <2>1 DEF Rows
  <2>7. rows[r].value = Absent \/ rows[r].hint = "cdata"
    BY <2>2, <2>4, <2>6 DEF Said
  <2> QED
    BY <2>4, <2>5, <2>7
<1> QED
  BY <1>1, <1>3, <1>4

\* An import or a seed that reads what the one before it read writes nothing, but for
\* what the property excepts: a row that an upsert leaves as it should be is not
\* touched, and nobody's upsert undoes another's.
THEOREM RepeatsAreQuiet == Spec => RerunIsQuiet
<1>1. Init => LastInv
  <2>1. ASSUME NEW g \in Fetched, NEW e \in Exports PROVE None # [got |-> g, export |-> e]
    BY NoneAssumption
  <2>2. ASSUME NEW e \in Exports, NEW b \in BOOLEAN PROVE None # [files |-> e, exported |-> b]
    BY NoneAssumption
  <2> QED
    BY <2>1, <2>2 DEF Init, LastInv
<1> DEFINE Quiet ==
        /\ Rerun =>
               \A r \in DOMAIN rows' : rows'[r] # rows[r] =>
                   /\ \E i \in Got : importer.got[i].name = rows[r].name /\ Namesakes(i) # {}
                   /\ rows'[r].valueVersion = rows[r].valueVersion
        /\ SeedFiles /\ last \in [files : {export}, exported : BOOLEAN] =>
               /\ DOMAIN rows' = DOMAIN rows
               /\ \A r \in DOMAIN rows : rows'[r] # rows[r] =>
                   /\ last.exported
                   /\ rows[r].value = Absent \/ rows[r].hint = "cdata"
                   /\ rows'[r] = Rewritten(rows[r], Said(rows[r].value))
<1>2. TypeOK /\ LastInv /\ [Next]_vars => [Quiet]_vars
  <2> SUFFICES ASSUME TypeOK, LastInv PROVE Quiet
    OBVIOUS
  <2>1. ASSUME Rerun PROVE Landed(rows, importer.got, export) /\ Store
    <3>1. importer \in Run /\ export \in Exports
      BY <2>1 DEF Rerun, Store, LastInv, TypeOK
    <3> QED
      BY <2>1, <3>1 DEF Rerun, LastInv, Run
  <2>2. ASSUME SeedFiles, last \in [files : {export}, exported : BOOLEAN]
        PROVE  last.exported \in BOOLEAN /\ Written(rows, export, last.exported)
    <3>1. export \in Exports
      BY <2>2 DEF SeedFiles, TypeOK
    <3>2. last.exported \in BOOLEAN /\ last = [files |-> export, exported |-> last.exported]
      BY <2>2
    <3> QED
      BY <3>1, <3>2 DEF LastInv
  <2>3. Rerun =>
            \A r \in DOMAIN rows' : rows'[r] # rows[r] =>
                /\ \E i \in Got : importer.got[i].name = rows[r].name /\ Namesakes(i) # {}
                /\ rows'[r].valueVersion = rows[r].valueVersion
    BY <2>1, RepeatedStore
  <2>4. SeedFiles /\ last \in [files : {export}, exported : BOOLEAN] =>
            /\ DOMAIN rows' = DOMAIN rows
            /\ \A r \in DOMAIN rows : rows'[r] # rows[r] =>
                /\ last.exported
                /\ rows[r].value = Absent \/ rows[r].hint = "cdata"
                /\ rows'[r] = Rewritten(rows[r], Said(rows[r].value))
    BY <2>2, RepeatedSeed
  <2> QED
    BY <2>3, <2>4
<1> QED
  BY <1>1, <1>2, TypeInit, TypeStep, LastStep, PTL DEF Spec, RerunIsQuiet

-----------------------------------------------------------------------------
(* The names of Android resources, whatever AndroidName makes of a key.    *)

LEMMA RenderedIsFinite ==
    ASSUME NEW K, IsFiniteSet(K)
    PROVE  /\ IsFiniteSet(Rendered(K)) /\ Cardinality(Rendered(K)) \in Nat
           /\ Cardinality(Rendered(K)) <= Cardinality(K)
           /\ Cardinality(Rendered(K)) = Cardinality(K) <=>
                  \A k, l \in K : AndroidName(k) = AndroidName(l) => k = l
<1> DEFINE T == Rendered(K)
           f == [k \in K |-> AndroidName(k)]
<1>1. f \in Surjection(K, T)
  BY DEF Rendered, Surjection
<1>2. /\ IsFiniteSet(T) /\ Cardinality(T) <= Cardinality(K)
      /\ Cardinality(T) = Cardinality(K) <=> f \in Injection(K, T)
  <2> HIDE DEF T, f
  <2> QED
    BY <1>1, FS_Surjection
<1>3. f \in Injection(K, T) <=> \A k, l \in K : AndroidName(k) = AndroidName(l) => k = l
  BY DEF Rendered, Injection, IsInjective
<1> HIDE DEF T, f
<1> QED
  BY <1>2, <1>3, FS_CardinalityType DEF T

\* Distinct is what it is called: every key has a name, and no two have the same.
LEMMA DistinctNames ==
    ASSUME NEW K, IsFiniteSet(K)
    PROVE  Distinct(K) <=> /\ \A k \in K : AndroidName(k) # <<>>
                           /\ \A k, l \in K : AndroidName(k) = AndroidName(l) => k = l
<1> DEFINE T == Rendered(K) \ {<<>>}
<1>1. /\ IsFiniteSet(Rendered(K)) /\ Cardinality(Rendered(K)) \in Nat
      /\ Cardinality(Rendered(K)) <= Cardinality(K) /\ Cardinality(K) \in Nat
      /\ Cardinality(Rendered(K)) = Cardinality(K) <=>
             \A k, l \in K : AndroidName(k) = AndroidName(l) => k = l
  BY RenderedIsFinite, FS_CardinalityType
<1>2. /\ Cardinality(T) \in Nat /\ Cardinality(T) <= Cardinality(Rendered(K))
      /\ Cardinality(Rendered(K)) = Cardinality(T) => T = Rendered(K)
  BY <1>1, FS_Subset, FS_CardinalityType
<1>3. T = Rendered(K) <=> \A k \in K : AndroidName(k) # <<>>
  BY DEF Rendered
<1>4. Distinct(K) <=> Cardinality(T) = Cardinality(K)
  BY DEF Distinct
<1> HIDE DEF T
<1> QED
  BY <1>1, <1>2, <1>3, <1>4

\* The check looks at each key and at the last one before it that has its name; that
\* is enough to find any two that share one.
LEMMA CheckedNames ==
    ASSUME NEW S, NEW keys \in Seq(S)
    PROVE  CheckAndroidNames(keys) <=>
               /\ \A i \in DOMAIN keys : AndroidName(keys[i]) # <<>>
               /\ \A i, j \in DOMAIN keys :
                      AndroidName(keys[i]) = AndroidName(keys[j]) => keys[i] = keys[j]
<1> DEFINE Earlier(i) == {j \in 1 .. i - 1 : AndroidName(keys[j]) = AndroidName(keys[i])}
<1>1. Len(keys) \in Nat /\ DOMAIN keys = 1 .. Len(keys)
  BY LenProperties
<1>2. CheckAndroidNames(keys) <=>
          \A i \in DOMAIN keys :
              /\ AndroidName(keys[i]) # <<>>
              /\ Earlier(i) # {} => keys[Max(Earlier(i))] = keys[i]
  BY DEF CheckAndroidNames
<1>3. ASSUME NEW i \in DOMAIN keys, Earlier(i) # {}
      PROVE  Max(Earlier(i)) \in Earlier(i) /\ \A j \in Earlier(i) : j <= Max(Earlier(i))
  <2>1. Earlier(i) \in SUBSET (1 .. i - 1) /\ i - 1 \in Int
    BY <1>1
  <2> HIDE DEF Earlier
  <2>2. IsFiniteSet(1 .. i - 1)
    BY <2>1, FS_Interval
  <2>3. IsFiniteSet(Earlier(i)) /\ Earlier(i) \in SUBSET Nat
    BY <2>1, <2>2, FS_Subset
  <2> QED
    BY <1>3, <2>3, MaxIsLargest
<1>4. \A i \in DOMAIN keys : \A j \in Earlier(i) :
          j \in DOMAIN keys /\ j \in Nat /\ j < i /\ AndroidName(keys[j]) = AndroidName(keys[i])
  BY <1>1
<1>5. \A i, j \in DOMAIN keys :
          j < i /\ AndroidName(keys[j]) = AndroidName(keys[i]) => j \in Earlier(i)
  BY <1>1
<1> HIDE DEF Earlier
<1>6. ASSUME CheckAndroidNames(keys),
             NEW i \in DOMAIN keys, NEW j \in DOMAIN keys, j < i,
             AndroidName(keys[j]) = AndroidName(keys[i]), keys[j] # keys[i]
      PROVE  FALSE
  <2> DEFINE Clashing == {x \in DOMAIN keys :
                              \E y \in DOMAIN keys : /\ y < x /\ keys[y] # keys[x]
                                                     /\ AndroidName(keys[y]) = AndroidName(keys[x])}
  <2>1. i \in Clashing /\ Clashing \in SUBSET Nat
    BY <1>1, <1>6
  <2>2. PICK x \in Clashing : \A y \in Clashing : x <= y
    <3> HIDE DEF Clashing
    <3> QED
      BY <2>1, LeastExists
  <2>3. PICK y \in DOMAIN keys : /\ y < x /\ keys[y] # keys[x]
                                 /\ AndroidName(keys[y]) = AndroidName(keys[x])
    OBVIOUS
  <2>4. y \in Earlier(x)
    BY <1>5, <2>3
  <2> DEFINE z == Max(Earlier(x))
  <2>5. z \in Earlier(x) /\ y <= z /\ keys[z] = keys[x]
    BY <1>2, <1>3, <1>6, <2>4
  <2>6. z \in DOMAIN keys /\ z < x /\ AndroidName(keys[z]) = AndroidName(keys[x])
    BY <1>4, <2>5
  <2>7. z \in Clashing
    <3>1. y # z
      BY <2>3, <2>5
    <3>2. y < z
      BY <1>1, <2>3, <2>5, <2>6, <3>1
    <3> HIDE DEF z
    <3> QED
      BY <2>3, <2>5, <2>6, <3>2
  <2> HIDE DEF z
  <2> QED
    BY <1>1, <2>2, <2>6, <2>7
<1>7. ASSUME CheckAndroidNames(keys), NEW i \in DOMAIN keys, NEW j \in DOMAIN keys,
             AndroidName(keys[i]) = AndroidName(keys[j])
      PROVE  keys[i] = keys[j]
  <2>1. i < j \/ j < i \/ i = j
    BY <1>1
  <2> QED
    BY <1>6, <1>7, <2>1
<1>8. ASSUME \A i \in DOMAIN keys : AndroidName(keys[i]) # <<>>,
             \A i, j \in DOMAIN keys :
                 AndroidName(keys[i]) = AndroidName(keys[j]) => keys[i] = keys[j]
      PROVE  CheckAndroidNames(keys)
  BY <1>2, <1>3, <1>4, <1>8
<1> QED
  BY <1>2, <1>7, <1>8

\* An export passes if and only if each of its keys has a name of its own, for any
\* list of keys, with duplicates or without.
THEOREM CheckIsExact ==
    ASSUME NEW S, NEW keys \in Seq(S)
    PROVE  CheckAndroidNames(keys) <=> Distinct({keys[i] : i \in DOMAIN keys})
<1> DEFINE K == {keys[i] : i \in DOMAIN keys}
           f == [i \in 1 .. Len(keys) |-> keys[i]]
<1>1. Len(keys) \in Nat /\ DOMAIN keys = 1 .. Len(keys)
  BY LenProperties
<1>2. f \in Surjection(1 .. Len(keys), K)
  BY <1>1 DEF Surjection
<1>3. IsFiniteSet(K)
  <2>1. IsFiniteSet(1 .. Len(keys))
    BY <1>1, FS_Interval
  <2> HIDE DEF K, f
  <2> QED
    BY <1>2, <2>1, FS_Surjection
<1>4. Distinct(K) <=> /\ \A k \in K : AndroidName(k) # <<>>
                      /\ \A k, l \in K : AndroidName(k) = AndroidName(l) => k = l
  <2> HIDE DEF K
  <2> QED
    BY <1>3, DistinctNames
<1> QED
  BY <1>4, CheckedNames

\* A seed finds each exported key again by its Android name; what it finds besides are
\* keys that only Flutter has, and the next export does not pass with them.
THEOREM NamesRecover ==
    ASSUME NEW flutter, NEW android, IsFiniteSet(flutter), IsFiniteSet(android)
    PROVE  Recovered(flutter, android)
<1> DEFINE found == AndroidMembers(flutter, Rendered(android))
<1> SUFFICES ASSUME Distinct(android)
             PROVE  /\ flutter \cap android \subseteq found
                    /\ Distinct(android \cup found) <=> found \subseteq android
  BY DEF Recovered
<1>1. /\ found \subseteq flutter
      /\ \A k \in found : \E a \in android : AndroidName(k) = AndroidName(a)
      /\ flutter \cap android \subseteq found
  BY DEF AndroidMembers, Rendered
<1>2. IsFiniteSet(android \cup found)
  BY <1>1, FS_Subset, FS_Union
<1> HIDE DEF found
<1>3. ASSUME Distinct(android \cup found), NEW k \in found PROVE k \in android
  BY <1>1, <1>2, <1>3, DistinctNames
<1>4. ASSUME found \subseteq android PROVE Distinct(android \cup found)
  <2>1. android \cup found = android
    BY <1>4
  <2> QED
    BY <2>1
<1> QED
  BY <1>1, <1>3, <1>4

\* The same of the keys the runs look at.
THEOREM MembershipIsRecovered == Spec => []MembershipRecovered
<1>1. ASSUME NEW k \in SomeKeys, NEW l \in SomeKeys, NEW m \in SomeKeys
      PROVE  /\ CheckAndroidNames(<<k, l, m>>) <=> Distinct({k, l, m})
             /\ \A flutter \in {{k}, {l, m}, {k, l}} : Recovered(flutter, {k, m})
  <2> DEFINE keys == <<k, l, m>>
  <2>1. keys \in Seq(SomeKeys)
    OBVIOUS
  <2>2. {keys[i] : i \in DOMAIN keys} = {k, l, m}
    <3>1. DOMAIN keys = {1, 2, 3} /\ keys[1] = k /\ keys[2] = l /\ keys[3] = m
      OBVIOUS
    <3> HIDE DEF keys
    <3> QED
      BY <3>1
  <2>3. CheckAndroidNames(keys) <=> Distinct({k, l, m})
    <3> HIDE DEF keys
    <3> QED
      BY <2>1, <2>2, CheckIsExact
  <2>4. \A x, y : IsFiniteSet({x, y})
    <3> TAKE x, y
    <3>1. IsFiniteSet({x}) /\ {x, y} = {x} \cup {y}
      BY FS_Singleton
    <3> QED
      BY <3>1, FS_AddElement
  <2>5. IsFiniteSet({k}) /\ IsFiniteSet({l, m}) /\ IsFiniteSet({k, l}) /\ IsFiniteSet({k, m})
    BY <2>4, FS_Singleton
  <2> QED
    BY <2>3, <2>5, NamesRecover
<1>2. MembershipRecovered
  BY <1>1 DEF MembershipRecovered, KeysRecovered
<1> QED
  BY <1>2, PTL
-----------------------------------------------------------------------------
(* Blocks of characters, laid end to end.                                  *)

\* The recursion in FlattenSeq has a solution.
LEMMA FlattenEquation ==
    ASSUME NEW X, NEW bb \in Seq(Seq(X)), Len(bb) > 0
    PROVE  \E f \in [1 .. Len(bb) -> Seq(X)] :
               /\ f[1] = bb[1]
               /\ \A i \in 2 .. Len(bb) : f[i] = f[i - 1] \o bb[i]
               /\ FlattenSeq(bb) = f[Len(bb)]
<1> DEFINE N == Len(bb)
           Joined(s, i) == s \o bb[i]
           UpTo(f, m) == f[1] = bb[1] /\ \A i \in 2 .. m : f[i] = Joined(f[i - 1], i)
           Solved == {m \in Nat : m < N => \E f \in [1 .. m + 1 -> Seq(X)] : UpTo(f, m + 1)}
<1>0. N \in Nat /\ N > 0 /\ \A i \in 1 .. N : bb[i] \in Seq(X)
  OBVIOUS
<1>00. \A s \in Seq(X), i \in 1 .. N : Joined(s, i) \in Seq(X)
  BY <1>0
<1> HIDE DEF N, Joined
<1>1. Solved = Nat
  <2>1. 0 \in Solved
    <3> DEFINE e == [i \in 1 .. 1 |-> bb[1]]
    <3>1. e \in [1 .. 1 -> Seq(X)] /\ UpTo(e, 1)
      BY <1>0
    <3> HIDE DEF e, UpTo
    <3> QED
      BY <3>1
  <2>2. ASSUME NEW m \in Solved PROVE m + 1 \in Solved
    <3>0. m \in Nat
      OBVIOUS
    <3> SUFFICES ASSUME m + 1 < N
                 PROVE  \E e \in [1 .. m + 2 -> Seq(X)] : UpTo(e, m + 2)
      <4> HIDE DEF UpTo
      <4> QED
        BY <1>0, <3>0
    <3>1. PICK f \in [1 .. m + 1 -> Seq(X)] : UpTo(f, m + 1)
      <4> HIDE DEF UpTo
      <4> QED
        BY <1>0, <3>0
    <3> DEFINE g == [i \in 1 .. m + 2 |-> IF i = m + 2 THEN Joined(f[m + 1], m + 2) ELSE f[i]]
    <3>2. Joined(f[m + 1], m + 2) \in Seq(X)
      BY <1>0, <1>00, <3>0
    <3>3. g \in [1 .. m + 2 -> Seq(X)]
      BY <3>0, <3>2
    <3>4. UpTo(g, m + 2)
      BY <3>0, <3>1
    <3> HIDE DEF g, UpTo
    <3> QED
      BY <3>3, <3>4
  <2> QED
    <3> HIDE DEF Solved
    <3> QED
      BY <2>1, <2>2, CountUp DEF Solved
<1>2. PICK f \in [1 .. N -> Seq(X)] : UpTo(f, N)
  <2>1. N - 1 \in Nat /\ N - 1 < N /\ N - 1 + 1 = N
    BY <1>0
  <2>2. N - 1 \in Solved
    <3> HIDE DEF Solved
    <3> QED
      BY <1>1, <2>1
  <2> HIDE DEF UpTo
  <2> QED
    BY <2>1, <2>2
<1> DEFINE Body(e) == [i \in 1 .. N |-> IF i = 1 THEN bb[i] ELSE Joined(e[i - 1], i)]
           F == CHOOSE e : e = Body(e)
<1>3. f = Body(f)
  <2>1. \A i \in 1 .. N : f[i] = IF i = 1 THEN bb[i] ELSE Joined(f[i - 1], i)
    BY <1>0, <1>2
  <2> QED
    BY <2>1
<1>4. F = Body(F)
  <2> HIDE DEF Body
  <2> QED
    BY <1>3
<1>5. FlattenSeq(bb) = F[N]
  BY <1>0 DEF FlattenSeq, N, Joined
<1> HIDE DEF F
<1>6. UpTo(F, N)
  <2>1. \A i \in 1 .. N : F[i] = IF i = 1 THEN bb[i] ELSE Joined(F[i - 1], i)
    BY <1>4
  <2> QED
    BY <1>0, <2>1
<1> DEFINE Typed == {m \in Nat : m < N => F[m + 1] \in Seq(X)}
<1>7. Typed = Nat
  <2>1. 0 \in Typed
    BY <1>0, <1>6
  <2>2. ASSUME NEW m \in Typed PROVE m + 1 \in Typed
    <3> SUFFICES ASSUME m + 1 < N PROVE F[m + 2] \in Seq(X)
      OBVIOUS
    <3>1. F[m + 2] = Joined(F[m + 1], m + 2)
      <4>1. m + 2 \in 2 .. N /\ m + 2 - 1 = m + 1
        BY <1>0
      <4> QED
        BY <1>6, <4>1
    <3>2. F[m + 1] \in Seq(X) /\ m + 2 \in 1 .. N
      BY <1>0
    <3> QED
      BY <1>00, <3>1, <3>2
  <2> QED
    <3> HIDE DEF Typed
    <3> QED
      BY <2>1, <2>2, CountUp DEF Typed
<1>8. F \in [1 .. N -> Seq(X)]
  <2>1. \A i \in 1 .. N : F[i] \in Seq(X)
    <3> TAKE i \in 1 .. N
    <3>1. i - 1 \in Nat /\ i - 1 < N /\ i - 1 + 1 = i
      BY <1>0
    <3>2. i - 1 \in Typed
      <4> HIDE DEF Typed
      <4> QED
        BY <1>7, <3>1
    <3> QED
      BY <3>1, <3>2
  <2> QED
    BY <1>4, <2>1
<1> QED
  BY <1>5, <1>6, <1>8 DEF N, Joined

\* Where each block ends.
Offsets(bb, off) ==
    /\ off \in [0 .. Len(bb) -> Nat]
    /\ off[0] = 0
    /\ \A i \in 1 .. Len(bb) : off[i] = off[i - 1] + Len(bb[i])

LEMMA OffsetsGrow ==
    ASSUME NEW X, NEW bb \in Seq(Seq(X)), NEW off, Offsets(bb, off)
    PROVE  \A i, j \in 0 .. Len(bb) : i <= j => off[i] <= off[j]
<1> DEFINE N == Len(bb)
<1>0. N \in Nat /\ \A i \in 1 .. N : Len(bb[i]) \in Nat
  OBVIOUS
<1>1. \A i \in 0 .. N : off[i] \in Nat
  BY DEF Offsets
<1>2. \A i \in 1 .. N : off[i] = off[i - 1] + Len(bb[i])
  BY DEF Offsets
<1> HIDE DEF N
<1> SUFFICES ASSUME NEW i \in 0 .. N PROVE \A j \in 0 .. N : i <= j => off[i] <= off[j]
  BY DEF N
<1> DEFINE Above == {n \in Nat : i + n <= N => off[i] <= off[i + n]}
<1>3. Above = Nat
  <2>1. 0 \in Above
    BY <1>0, <1>1
  <2>2. ASSUME NEW n \in Above PROVE n + 1 \in Above
    <3> SUFFICES ASSUME i + n + 1 <= N PROVE off[i] <= off[i + n + 1]
      BY <1>0
    <3>1. i + n \in 0 .. N /\ i + n + 1 \in 1 .. N /\ i + n + 1 - 1 = i + n
      BY <1>0
    <3>2. off[i + n + 1] = off[i + n] + Len(bb[i + n + 1])
      BY <1>2, <3>1
    <3>3. off[i] <= off[i + n]
      BY <3>1
    <3> QED
      BY <1>0, <1>1, <3>1, <3>2, <3>3
  <2> QED
    <3> HIDE DEF Above
    <3> QED
      BY <2>1, <2>2, CountUp DEF Above
<1> QED
  <2> TAKE j \in 0 .. N
  <2> HAVE i <= j
  <2>1. j - i \in Nat /\ i + (j - i) = j
    BY <1>0
  <2>2. j - i \in Above
    <3> HIDE DEF Above
    <3> QED
      BY <1>3, <2>1
  <2> QED
    BY <1>0, <2>1, <2>2

\* Each position is in a block.
Covered(bb, off, p) ==
    \E i \in 1 .. Len(bb), k \in Nat : k \in 1 .. Len(bb[i]) /\ p = off[i - 1] + k

LEMMA PositionsAreCovered ==
    ASSUME NEW X, NEW bb \in Seq(Seq(X)), NEW off, Offsets(bb, off),
           NEW p \in 1 .. off[Len(bb)]
    PROVE  Covered(bb, off, p)
<1> DEFINE N == Len(bb)
           Beyond == {i \in 0 .. N : p <= off[i]}
<1>0. N \in Nat /\ \A i \in 0 .. N : off[i] \in Nat
  <2>1. Len(bb) \in Nat
    OBVIOUS
  <2> QED
    BY <2>1 DEF Offsets
<1>1. N \in Beyond /\ Beyond \in SUBSET Nat
  BY <1>0
<1>2. PICK i \in Beyond : \A j \in Beyond : i <= j
  <2> HIDE DEF Beyond, N
  <2> QED
    BY <1>1, LeastExists
<1>3. i # 0
  BY <1>0 DEF Offsets
<1>4. i \in 1 .. N /\ i - 1 \in 0 .. N
  BY <1>0, <1>3
<1>5. i - 1 \notin Beyond
  <2> HIDE DEF Beyond
  <2> QED
    BY <1>2, <1>4
<1>6. off[i - 1] < p /\ p <= off[i] /\ off[i] = off[i - 1] + Len(bb[i])
  BY <1>0, <1>4, <1>5 DEF Offsets
<1>7. p - off[i - 1] \in 1 .. Len(bb[i]) /\ p = off[i - 1] + (p - off[i - 1])
  BY <1>0, <1>4, <1>6
<1> QED
  BY <1>4, <1>7 DEF Covered

LEMMA Joining ==
    ASSUME NEW X, NEW s \in Seq(X), NEW t \in Seq(X)
    PROVE  /\ s \o t \in Seq(X)
           /\ Len(s \o t) = Len(s) + Len(t)
           /\ \A p \in 1 .. Len(s) : (s \o t)[p] = s[p]
           /\ \A k \in 1 .. Len(t) : (s \o t)[Len(s) + k] = t[k]
OBVIOUS

\* The blocks bb, laid end to end, are s.
Laid(bb, s, off) ==
    /\ Offsets(bb, off)
    /\ Len(s) = off[Len(bb)]
    /\ \A i \in 1 .. Len(bb) : \A k \in 1 .. Len(bb[i]) : s[off[i - 1] + k] = bb[i][k]

LEMMA LaidOut ==
    ASSUME NEW X, NEW bb \in Seq(Seq(X))
    PROVE  FlattenSeq(bb) \in Seq(X) /\ \E off : Laid(bb, FlattenSeq(bb), off)
<1> DEFINE N == Len(bb)
<1>0. N \in Nat /\ \A i \in 1 .. N : bb[i] \in Seq(X) /\ Len(bb[i]) \in Nat
  OBVIOUS
<1>1. CASE N = 0
  <2> DEFINE off == [i \in 0 .. 0 |-> 0]
  <2>1. bb = <<>> /\ FlattenSeq(bb) = <<>>
    BY <1>1 DEF FlattenSeq
  <2>2. Offsets(bb, off) /\ off[0] = 0
    BY <1>1 DEF Offsets
  <2> HIDE DEF off
  <2>3. Len(<<>>) = 0 /\ <<>> \in Seq(X)
    OBVIOUS
  <2>4. \A i \in 1 .. Len(bb) : FALSE
    BY <1>1
  <2> QED
    BY <1>1, <2>1, <2>2, <2>3, <2>4 DEF Laid
<1>2. CASE N > 0
  <2>1. PICK f \in [1 .. N -> Seq(X)] :
            /\ f[1] = bb[1]
            /\ \A i \in 2 .. N : f[i] = f[i - 1] \o bb[i]
            /\ FlattenSeq(bb) = f[N]
    BY <1>2, FlattenEquation
  <2> DEFINE off == [i \in 0 .. N |-> IF i = 0 THEN 0 ELSE Len(f[i])]
  <2> HIDE DEF N
  <2>2. \A i \in 1 .. N : f[i] \in Seq(X) /\ Len(f[i]) \in Nat /\ off[i] = Len(f[i])
    BY <1>0
  <2>3. ASSUME NEW i \in 1 .. N
        PROVE  /\ off[i] = off[i - 1] + Len(bb[i])
               /\ \A k \in 1 .. Len(bb[i]) : f[i][off[i - 1] + k] = bb[i][k]
               /\ i # 1 => \A p \in 1 .. off[i - 1] : f[i][p] = f[i - 1][p]
    <3>1. CASE i = 1
      <4>1. off[i - 1] = 0 /\ f[i] = bb[i]
        BY <1>0, <2>1, <3>1
      <4> HIDE DEF off
      <4> QED
        BY <1>0, <2>2, <3>1, <4>1
    <3>2. CASE i # 1
      <4>1. i \in 2 .. N /\ i - 1 \in 1 .. N
        BY <1>0, <3>2
      <4>2. f[i] = f[i - 1] \o bb[i]
        BY <2>1, <4>1
      <4>3. f[i - 1] \in Seq(X) /\ bb[i] \in Seq(X) /\ off[i - 1] = Len(f[i - 1]) /\ off[i] = Len(f[i])
        BY <1>0, <2>2, <4>1
      <4> HIDE DEF off
      <4>4. /\ Len(f[i - 1] \o bb[i]) = Len(f[i - 1]) + Len(bb[i])
            /\ \A p \in 1 .. Len(f[i - 1]) : (f[i - 1] \o bb[i])[p] = f[i - 1][p]
            /\ \A k \in 1 .. Len(bb[i]) : (f[i - 1] \o bb[i])[Len(f[i - 1]) + k] = bb[i][k]
        <5> DEFINE s == f[i - 1]
                   t == bb[i]
        <5>1. s \in Seq(X) /\ t \in Seq(X)
          BY <4>3
        <5> HIDE DEF s, t
        <5>2. /\ Len(s \o t) = Len(s) + Len(t)
              /\ \A p \in 1 .. Len(s) : (s \o t)[p] = s[p]
              /\ \A k \in 1 .. Len(t) : (s \o t)[Len(s) + k] = t[k]
          BY <5>1, Joining
        <5> QED
          BY <5>2 DEF s, t
      <4> QED
        BY <4>2, <4>3, <4>4
    <3> QED
      BY <3>1, <3>2
  <2>4. Offsets(bb, off)
    <3>1. off \in [0 .. N -> Nat] /\ off[0] = 0
      BY <1>0, <2>2
    <3> HIDE DEF off
    <3> QED
      BY <2>3, <3>1 DEF Offsets, N
  <2> HIDE DEF off
  <2>5. ASSUME NEW i \in 1 .. N, NEW k \in 1 .. Len(bb[i])
        PROVE  f[N][off[i - 1] + k] = bb[i][k]
    <3> DEFINE p == off[i - 1] + k
               Still == {n \in Nat : i + n <= N => f[i + n][p] = bb[i][k]}
    <3>1. p \in 1 .. off[i] /\ off[i - 1] \in Nat
      <4>1. i \in 0 .. N /\ i - 1 \in 0 .. N
        BY <1>0
      <4>2. off[i] \in Nat /\ off[i - 1] \in Nat
        BY <2>4, <4>1 DEF Offsets, N
      <4>3. off[i] = off[i - 1] + Len(bb[i]) /\ Len(bb[i]) \in Nat
        BY <1>0, <2>3
      <4> QED
        BY <4>2, <4>3
    <3>2. Still = Nat
      <4>1. 0 \in Still
        BY <2>3
      <4>2. ASSUME NEW n \in Still PROVE n + 1 \in Still
        <5>0. n + 1 \in Nat /\ i + (n + 1) = i + n + 1
          <6>1. n \in Nat /\ i \in Nat
            OBVIOUS
          <6> HIDE DEF Still
          <6> QED
            BY <6>1
        <5> SUFFICES ASSUME i + n + 1 <= N PROVE f[i + n + 1][p] = bb[i][k]
          BY <5>0
        <5>1. /\ i + n \in 1 .. N /\ i + n + 1 \in 1 .. N /\ i + n + 1 - 1 = i + n /\ i + n + 1 # 1
              /\ i \in 0 .. N /\ i + n \in 0 .. N /\ i <= i + n
          BY <1>0
        <5>2. off[i] <= off[i + n] /\ off[i] \in Nat /\ off[i + n] \in Nat
          BY <2>4, <5>1, OffsetsGrow DEF N, Offsets
        <5>3. p \in 1 .. off[i + n]
          BY <3>1, <5>2
        <5> HIDE DEF p
        <5>4. f[i + n + 1][p] = f[i + n][p]
          <6> DEFINE j == i + n + 1
          <6>1. j \in 1 .. N /\ j # 1 /\ j - 1 = i + n
            BY <5>1
          <6> HIDE DEF j
          <6>2. f[j][p] = f[j - 1][p]
            BY <2>3, <5>3, <6>1
          <6> QED
            BY <6>1, <6>2 DEF j
        <5>5. f[i + n][p] = bb[i][k]
          BY <5>1
        <5> QED
          BY <5>4, <5>5
      <4> QED
        <5> HIDE DEF Still
        <5> QED
          BY <4>1, <4>2, CountUp DEF Still
    <3>3. N - i \in Nat /\ i + (N - i) = N /\ N <= N
      BY <1>0
    <3>4. N - i \in Still
      <4> HIDE DEF Still
      <4> QED
        BY <3>2, <3>3
    <3> HIDE DEF p
    <3>5. f[N][p] = bb[i][k]
      BY <3>3, <3>4
    <3> QED
      BY <3>5 DEF p
  <2>6. FlattenSeq(bb) \in Seq(X) /\ Len(FlattenSeq(bb)) = off[N]
    <3>1. N \in 1 .. N
      BY <1>0, <1>2
    <3> QED
      BY <2>1, <2>2, <3>1
  <2> QED
    BY <2>1, <2>4, <2>5, <2>6 DEF Laid, N
<1> QED
  BY <1>0, <1>1, <1>2

LEMMA EmptyLast ==
    ASSUME NEW X, NEW s \in Seq(X)
    PROVE  s \o <<>> = s /\ <<>> \o s = s
BY ConcatEmptySeq

\* Blocks of one character each.
LEMMA SingleBlocks ==
    ASSUME NEW X, NEW t \in Seq(X)
    PROVE  LET bb == [i \in DOMAIN t |-> <<t[i]>>]
           IN /\ bb \in Seq(Seq(X)) /\ Len(bb) = Len(t)
              /\ \A i \in 1 .. Len(t) : bb[i] = <<t[i]>> /\ Len(bb[i]) = 1 /\ bb[i][1] = t[i]
<1> DEFINE bb == [i \in DOMAIN t |-> <<t[i]>>]
           N == Len(t)
<1>1. N \in Nat /\ DOMAIN t = 1 .. N /\ \A i \in 1 .. N : t[i] \in X
  OBVIOUS
<1> HIDE DEF N
<1>2. \A i \in 1 .. N : bb[i] = <<t[i]>> /\ bb[i] \in Seq(X) /\ Len(bb[i]) = 1 /\ bb[i][1] = t[i]
  BY <1>1
<1>3. bb \in [1 .. N -> Seq(X)]
  <2>1. bb = [i \in 1 .. N |-> bb[i]]
    BY <1>1
  <2> HIDE DEF bb
  <2> QED
    BY <1>2, <2>1
<1>4. bb \in Seq(Seq(X)) /\ Len(bb) = N
  <2> HIDE DEF bb
  <2> QED
    BY <1>1, <1>3
<1> QED
  BY <1>2, <1>4 DEF N

\* They are the text they are made of.
LEMMA SinglesFlatten ==
    ASSUME NEW X, NEW t \in Seq(X)
    PROVE  FlattenSeq([i \in DOMAIN t |-> <<t[i]>>]) = t
<1> DEFINE bb == [i \in DOMAIN t |-> <<t[i]>>]
           N == Len(t)
<1>1. /\ bb \in Seq(Seq(X)) /\ Len(bb) = N /\ N \in Nat
      /\ \A i \in 1 .. N : Len(bb[i]) = 1 /\ bb[i][1] = t[i]
  BY SingleBlocks
<1> HIDE DEF bb, N
<1>2. PICK off : Laid(bb, FlattenSeq(bb), off)
  BY <1>1, LaidOut
<1>3. off[0] = 0 /\ \A i \in 1 .. N : off[i] = off[i - 1] + 1
  BY <1>1, <1>2 DEF Laid, Offsets
<1> DEFINE Counted == {n \in Nat : n <= N => off[n] = n}
<1>4. Counted = Nat
  <2>1. 0 \in Counted
    BY <1>3
  <2>2. ASSUME NEW n \in Counted PROVE n + 1 \in Counted
    <3> SUFFICES ASSUME n + 1 <= N PROVE off[n + 1] = n + 1
      OBVIOUS
    <3>1. n \in Nat /\ n <= N /\ n + 1 \in 1 .. N /\ n + 1 - 1 = n
      BY <1>1
    <3>2. off[n + 1] = off[n] + 1
      BY <1>3, <3>1
    <3> QED
      BY <3>1, <3>2
  <2> QED
    <3> HIDE DEF Counted
    <3> QED
      BY <2>1, <2>2, CountUp DEF Counted
<1>5. \A i \in 0 .. N : off[i] = i
  <2> TAKE i \in 0 .. N
  <2>1. i \in Counted /\ i <= N
    BY <1>1, <1>4
  <2> QED
    BY <2>1
<1>6. ASSUME NEW i \in 1 .. N PROVE FlattenSeq(bb)[i] = t[i]
  <2>1. i - 1 \in 0 .. N /\ (i - 1) + 1 = i /\ 1 \in 1 .. Len(bb[i])
    <3>1. Len(bb[i]) = 1
      BY <1>1
    <3> QED
      BY <1>1, <3>1
  <2>2. FlattenSeq(bb)[off[i - 1] + 1] = bb[i][1]
    BY <1>1, <1>2, <2>1 DEF Laid
  <2> QED
    BY <1>1, <1>5, <2>1, <2>2
<1>7. Len(FlattenSeq(bb)) = Len(t)
  BY <1>1, <1>2, <1>5 DEF Laid, N
<1>8. FlattenSeq(bb) \in Seq(X)
  BY <1>1, LaidOut
<1> QED
  BY <1>6, <1>7, <1>8, SeqEqual DEF N, bb

\* A pass that takes a block at a time, and makes cc[i] of bb[i], makes of all
\* of them what the cc[i] are.
Passing(bb, cc, off, from, Y) ==
    /\ \A i \in 0 .. Len(bb) : from[off[i] + 1] \in Seq(Y)
    /\ from[off[Len(bb)] + 1] = <<>>
    /\ \A i \in 1 .. Len(bb) : from[off[i - 1] + 1] = cc[i] \o from[off[i] + 1]

LEMMA PassesBlocks ==
    ASSUME NEW X, NEW Y, NEW bb \in Seq(Seq(X)), NEW cc \in Seq(Seq(Y)), Len(bb) = Len(cc),
           NEW off, Offsets(bb, off), NEW from, Passing(bb, cc, off, from, Y)
    PROVE  from[1] = FlattenSeq(cc)
<1> USE DEF Passing
<1> DEFINE N == Len(cc)
<1>0. N \in Nat /\ off[0] = 0 /\ \A i \in 1 .. N : cc[i] \in Seq(Y)
  BY DEF Offsets
<1>00. \A i \in 1 .. N : i \in 0 .. N
  BY <1>0
<1>1. CASE N = 0
  <2>1. cc = <<>> /\ FlattenSeq(cc) = <<>>
    BY <1>1 DEF FlattenSeq
  <2> QED
    BY <1>0, <1>1, <2>1
<1>2. CASE N > 0
  <2>1. PICK g \in [1 .. N -> Seq(Y)] :
            /\ g[1] = cc[1]
            /\ \A i \in 2 .. N : g[i] = g[i - 1] \o cc[i]
            /\ FlattenSeq(cc) = g[N]
    BY <1>2, FlattenEquation
  <2> DEFINE rest == [i \in 0 .. N |-> from[off[i] + 1]]
  <2>2. /\ \A i \in 0 .. N : rest[i] \in Seq(Y)
        /\ rest[N] = <<>>
        /\ \A i \in 1 .. N : rest[i - 1] = cc[i] \o rest[i]
        /\ rest[0] = from[1]
    <3>1. N \in 0 .. N /\ 0 \in 0 .. N /\ N = Len(bb) /\ \A i \in 1 .. N : i \in 0 .. N /\ i - 1 \in 0 .. N
      BY <1>0
    <3> HIDE DEF N
    <3>2. \A i \in 1 .. N : from[off[i - 1] + 1] = cc[i] \o from[off[i] + 1]
      BY <3>1
    <3>3. \A i \in 0 .. N : rest[i] = from[off[i] + 1] /\ rest[i] \in Seq(Y)
      BY <3>1
    <3>4. rest[N] = <<>> /\ rest[0] = from[1]
      BY <1>0, <3>1, <3>3
    <3> HIDE DEF rest
    <3> QED
      BY <3>1, <3>2, <3>3, <3>4
  <2> HIDE DEF N, rest
  <2> DEFINE Passed == {n \in Nat : n < N => from[1] = g[n + 1] \o rest[n + 1]}
  <2>3. Passed = Nat
    <3>1. 0 \in Passed
      <4>1. 1 \in 1 .. N /\ 1 - 1 = 0 /\ 0 + 1 = 1
        BY <1>0, <1>2
      <4>2. rest[1 - 1] = cc[1] \o rest[1]
        BY <2>2, <4>1
      <4> QED
        BY <2>1, <2>2, <4>1, <4>2
    <3>2. ASSUME NEW n \in Passed PROVE n + 1 \in Passed
      <4>1. n + 1 + 1 = n + 2 /\ n + 1 \in Nat
        OBVIOUS
      <4> SUFFICES ASSUME n + 1 < N PROVE from[1] = g[n + 2] \o rest[n + 2]
        BY <4>1
      <4>2. n + 1 \in 1 .. N /\ n + 2 \in 2 .. N /\ n + 2 \in 1 .. N /\ n + 2 - 1 = n + 1 /\ n < N
        BY <1>0
      <4>3. from[1] = g[n + 1] \o rest[n + 1]
        BY <4>2
      <4> DEFINE j == n + 2
                 a == g[n + 1]
                 b == cc[j]
                 c == rest[j]
      <4>4. j \in 1 .. N /\ j \in 2 .. N /\ j - 1 = n + 1 /\ j = n + 2
        BY <4>2
      <4> HIDE DEF j
      <4>5. rest[n + 1] = b \o c /\ g[j] = a \o b
        BY <2>1, <2>2, <4>4
      <4>6. a \in Seq(Y) /\ b \in Seq(Y) /\ c \in Seq(Y)
        BY <1>0, <1>00, <2>2, <4>2, <4>4
      <4>7. from[1] = a \o rest[n + 1]
        BY <4>3
      <4> HIDE DEF a, b, c
      <4>8. from[1] = (a \o b) \o c
        <5>1. (a \o b) \o c = a \o (b \o c)
          BY <4>6
        <5> QED
          BY <4>5, <4>7, <5>1
      <4> QED
        BY <4>4, <4>5, <4>8 DEF c
    <3> QED
      <4> HIDE DEF Passed
      <4> QED
        BY <3>1, <3>2, CountUp DEF Passed
  <2>4. N - 1 \in Nat /\ N - 1 < N /\ (N - 1) + 1 = N /\ N \in 1 .. N
    BY <1>0, <1>2
  <2>5. N - 1 \in Passed
    <3> HIDE DEF Passed
    <3> QED
      BY <2>3, <2>4
  <2>6. from[1] = g[N] \o rest[N]
    BY <2>4, <2>5
  <2>7. g[N] \in Seq(Y)
    BY <2>4
  <2> QED
    BY <2>1, <2>2, <2>6, <2>7, EmptyLast
<1> QED
  BY <1>0, <1>1, <1>2
-----------------------------------------------------------------------------
(* Passes from left to right.                                              *)

\* f[i] is what a pass makes of a text of length L from i on: it writes read[i] at i,
\* and goes on width[i] further.
Pass(f, L, read, width) ==
    /\ f = [i \in 1 .. L + 1 |-> f[i]]
    /\ f[L + 1] = <<>>
    /\ \A i \in 1 .. L : f[i] = read[i] \o f[i + width[i]]

LEMMA PassExists ==
    ASSUME NEW X, NEW L \in Nat, NEW read \in [1 .. L -> Seq(X)],
           NEW width \in [1 .. L -> Nat \ {0}], \A i \in 1 .. L : i + width[i] <= L + 1
    PROVE  \E f : Pass(f, L, read, width)
<1> DEFINE Step(i, s) == read[i] \o s
           From(f, m) == f[L + 1] = <<>> /\ \A i \in m .. L : f[i] = Step(i, f[i + width[i]])
           Solved == {n \in Nat : n <= L =>
                          \E f \in [L + 1 - n .. L + 1 -> Seq(X)] : From(f, L + 1 - n)}
<1>0. /\ \A i \in 1 .. L, s \in Seq(X) : Step(i, s) \in Seq(X)
      /\ \A i \in 1 .. L : width[i] \in Nat /\ i + width[i] > i /\ i + width[i] <= L + 1
  OBVIOUS
<1> HIDE DEF Step
<1>1. Solved = Nat
  <2>1. 0 \in Solved
    <3> DEFINE e == [i \in L + 1 .. L + 1 |-> <<>>]
    <3>1. e \in [L + 1 .. L + 1 -> Seq(X)] /\ From(e, L + 1)
      OBVIOUS
    <3> HIDE DEF e, From
    <3>2. L + 1 - 0 = L + 1
      OBVIOUS
    <3> QED
      BY <3>1, <3>2
  <2>2. ASSUME NEW n \in Solved PROVE n + 1 \in Solved
    <3>0. n \in Nat
      OBVIOUS
    <3> DEFINE m == L - n
    <3>1. L + 1 - n = m + 1 /\ L + 1 - (n + 1) = m /\ n + 1 \in Nat
      BY <3>0
    <3> SUFFICES ASSUME n + 1 <= L
                 PROVE  \E e \in [m .. L + 1 -> Seq(X)] : From(e, m)
      <4> HIDE DEF From, m
      <4> QED
        BY <3>0, <3>1
    <3>2. m \in 1 .. L /\ n <= L
      BY <3>0
    <3>3. PICK f \in [m + 1 .. L + 1 -> Seq(X)] : From(f, m + 1)
      <4> HIDE DEF From, m
      <4> QED
        BY <3>0, <3>1, <3>2
    <3> DEFINE g == [i \in m .. L + 1 |-> IF i = m THEN Step(m, f[m + width[m]]) ELSE f[i]]
    <3> HIDE DEF m, Solved
    <3>4. width[m] \in Nat /\ m + width[m] \in m + 1 .. L + 1
      <4>1. width[m] \in Nat /\ m + width[m] > m /\ m + width[m] <= L + 1
        BY <1>0, <3>2
      <4> DEFINE j == m + width[m]
      <4>2. j \in Nat /\ j > m /\ j <= L + 1 /\ m \in Nat
        BY <3>2, <4>1
      <4> HIDE DEF j
      <4>3. j \in m + 1 .. L + 1
        BY <4>2
      <4> QED
        BY <4>1, <4>3 DEF j
    <3>5. g \in [m .. L + 1 -> Seq(X)]
      <4>1. f[m + width[m]] \in Seq(X)
        BY <3>4
      <4>2. Step(m, f[m + width[m]]) \in Seq(X)
        BY <1>0, <3>2, <4>1
      <4> QED
        BY <3>2, <4>2
    <3>6. ASSUME NEW i \in m .. L PROVE g[i] = Step(i, g[i + width[i]])
      <4>1. i \in 1 .. L /\ width[i] \in Nat /\ i + width[i] > i /\ i + width[i] <= L + 1
        <5>1. i \in 1 .. L
          BY <3>2
        <5> QED
          BY <1>0, <5>1
      <4>2. i + width[i] \in m .. L + 1 /\ i + width[i] # m
        <5>1. m \in Nat /\ i \in Nat /\ m <= i
          BY <3>2
        <5> DEFINE j == i + width[i]
        <5>2. j \in Nat /\ j > i /\ j <= L + 1
          BY <4>1, <5>1
        <5> HIDE DEF j
        <5>3. j \in m .. L + 1 /\ j # m
          BY <5>1, <5>2
        <5> QED
          BY <5>3 DEF j
      <4>3. g[i + width[i]] = f[i + width[i]]
        BY <4>2
      <4>4. CASE i = m
        BY <3>2, <4>3, <4>4
      <4>5. CASE i # m
        <5>1. i \in m + 1 .. L
          BY <3>2, <4>5
        <5> QED
          BY <3>2, <3>3, <4>3, <4>5, <5>1
      <4> QED
        BY <4>4, <4>5
    <3>7. g[L + 1] = <<>>
      BY <3>2, <3>3
    <3>8. From(g, m)
      <4> HIDE DEF g
      <4> QED
        BY <3>6, <3>7
    <3> HIDE DEF g, From
    <3> QED
      BY <3>5, <3>8
  <2> QED
    <3> HIDE DEF Solved
    <3> QED
      BY <2>1, <2>2, CountUp DEF Solved
<1>2. PICK f \in [1 .. L + 1 -> Seq(X)] : From(f, 1)
  <2>1. L \in Nat /\ L <= L /\ L + 1 - L = 1
    OBVIOUS
  <2>2. L \in Solved
    <3> HIDE DEF Solved
    <3> QED
      BY <1>1, <2>1
  <2> HIDE DEF From
  <2> QED
    BY <2>1, <2>2
<1> QED
  BY <1>2 DEF Pass, Step

LEMMA PassTyped ==
    ASSUME NEW X, NEW L \in Nat, NEW read \in [1 .. L -> Seq(X)],
           NEW width \in [1 .. L -> Nat \ {0}], \A i \in 1 .. L : i + width[i] <= L + 1,
           NEW f, Pass(f, L, read, width)
    PROVE  f \in [1 .. L + 1 -> Seq(X)]
<1> DEFINE Typed == {n \in Nat : n <= L => \A i \in L + 1 - n .. L + 1 : f[i] \in Seq(X)}
<1>0. \A i \in 1 .. L : width[i] \in Nat /\ i + width[i] > i /\ i + width[i] <= L + 1 /\ read[i] \in Seq(X)
  OBVIOUS
<1>1. f[L + 1] = <<>> /\ \A i \in 1 .. L : f[i] = read[i] \o f[i + width[i]]
  BY DEF Pass
<1>2. Typed = Nat
  <2>1. 0 \in Typed
    <3>1. \A i \in L + 1 - 0 .. L + 1 : i = L + 1
      OBVIOUS
    <3>2. <<>> \in Seq(X)
      OBVIOUS
    <3> QED
      BY <1>1, <3>1, <3>2
  <2>2. ASSUME NEW n \in Typed PROVE n + 1 \in Typed
    <3>0. n \in Nat
      OBVIOUS
    <3> DEFINE m == L - n
    <3>1. L + 1 - n = m + 1 /\ L + 1 - (n + 1) = m /\ n + 1 \in Nat
      BY <3>0
    <3> SUFFICES ASSUME n + 1 <= L
                 PROVE  \A i \in m .. L + 1 : f[i] \in Seq(X)
      <4> HIDE DEF m
      <4> QED
        BY <3>0, <3>1
    <3>2. m \in 1 .. L /\ n <= L
      BY <3>0
    <3>3. \A i \in m + 1 .. L + 1 : f[i] \in Seq(X)
      <4> HIDE DEF m
      <4> QED
        BY <3>0, <3>1, <3>2
    <3> HIDE DEF m, Typed
    <3>4. f[m] \in Seq(X)
      <4> DEFINE j == m + width[m]
      <4>1. j \in Nat /\ j > m /\ j <= L + 1 /\ m \in Nat
        BY <1>0, <3>2
      <4>2. f[m] = read[m] \o f[j] /\ read[m] \in Seq(X)
        BY <1>0, <1>1, <3>2
      <4> HIDE DEF j
      <4>3. f[j] \in Seq(X)
        <5>1. j \in m + 1 .. L + 1
          BY <4>1
        <5> QED
          BY <3>3, <5>1
      <4>4. read[m] \o f[j] \in Seq(X)
        <5> DEFINE a == read[m]
                   b == f[j]
        <5>1. a \in Seq(X) /\ b \in Seq(X)
          BY <4>2, <4>3
        <5> HIDE DEF a, b
        <5>2. a \o b \in Seq(X)
          BY <5>1
        <5> QED
          BY <5>2 DEF a, b
      <4> QED
        BY <4>2, <4>4
    <3>5. \A i \in m .. L + 1 : i = m \/ i \in m + 1 .. L + 1
      BY <3>2
    <3> QED
      BY <3>3, <3>4, <3>5
  <2> QED
    <3> HIDE DEF Typed
    <3> QED
      BY <2>1, <2>2, CountUp DEF Typed
<1>3. \A i \in 1 .. L + 1 : f[i] \in Seq(X)
  <2>1. L \in Nat /\ L <= L /\ L + 1 - L = 1
    OBVIOUS
  <2>2. L \in Typed
    <3> HIDE DEF Typed
    <3> QED
      BY <1>2, <2>1
  <2> QED
    BY <2>1, <2>2
<1> QED
  BY <1>3 DEF Pass

-----------------------------------------------------------------------------
(* Reading escapes.                                                        *)

\* X has what the readers make of escapes.
Alphabet(X, reader) ==
    {"\n", "\t", "\r", "ctl", "LS", Refused, reader.odd, reader.last} \subseteq X

LetterAt(t, i, reader) == i < Len(t) /\ t[i + 1] \in reader.letters
DigitsAt(t, i, reader) ==
    i + 1 < Len(t) /\ t[i + 1] \in reader.markers /\ t[i + 2] \in Digits

Width(t, i, reader) ==
    IF t[i] # "\\" THEN 1
    ELSE IF LetterAt(t, i, reader) THEN 2
    ELSE IF DigitsAt(t, i, reader) THEN 3
    ELSE 1

Character(t, i, reader) ==
    IF t[i] # "\\" THEN IF t[i] \in reader.refused THEN Refused ELSE t[i]
    ELSE IF LetterAt(t, i, reader) THEN Meant(t[i + 1])
    ELSE IF DigitsAt(t, i, reader) THEN Coded(t[i + 2])
    ELSE IF i = Len(t) THEN reader.last
    ELSE reader.odd

LEMMA ReadersAreTyped ==
    ASSUME NEW X, NEW reader, Alphabet(X, reader), NEW t \in Seq(X), NEW i \in 1 .. Len(t)
    PROVE  /\ Width(t, i, reader) \in Nat \ {0}
           /\ i + Width(t, i, reader) <= Len(t) + 1
           /\ Character(t, i, reader) \in X
<1>1. \A c \in X : Meant(c) \in X /\ Coded(c) \in X
  <2>1. {"\n", "\t", "\r", "ctl", "LS"} \subseteq X
    BY DEF Alphabet
  <2> TAKE c \in X
  <2>2. Meant(c) \in {"\n", "\t", "\r", c}
    BY DEF Meant
  <2>3. Coded(c) \in {"ctl", "LS"}
    BY DEF Coded
  <2> QED
    BY <2>1, <2>2, <2>3
<1>2. t[i] \in X /\ Len(t) \in Nat
  OBVIOUS
<1>3. LetterAt(t, i, reader) => t[i + 1] \in X
  BY <1>2 DEF LetterAt
<1>4. DigitsAt(t, i, reader) => t[i + 2] \in X
  BY <1>2 DEF DigitsAt
<1>5. Character(t, i, reader) \in X
  <2>1. Refused \in X /\ reader.last \in X /\ reader.odd \in X
    BY DEF Alphabet
  <2> QED
    BY <1>1, <1>2, <1>3, <1>4, <2>1 DEF Character
<1>6. Width(t, i, reader) \in Nat \ {0} /\ i + Width(t, i, reader) <= Len(t) + 1
  BY <1>2 DEF Width, LetterAt, DigitsAt
<1> QED
  BY <1>5, <1>6

\* f[i] is what a reader makes of t from i on.
Reading(f, t, reader) ==
    /\ Unescaped(t, reader) = f[1]
    /\ f[Len(t) + 1] = <<>>
    /\ \A i \in 1 .. Len(t) : f[i] = <<Character(t, i, reader)>> \o f[i + Width(t, i, reader)]

LEMMA UnescapedEquation ==
    ASSUME NEW X, NEW reader, Alphabet(X, reader), NEW t \in Seq(X)
    PROVE  \E f \in [1 .. Len(t) + 1 -> Seq(X)] : Reading(f, t, reader)
<1> DEFINE L == Len(t)
           read == [i \in 1 .. L |-> <<Character(t, i, reader)>>]
           width == [i \in 1 .. L |-> Width(t, i, reader)]
<1>1. /\ L \in Nat
      /\ read \in [1 .. L -> Seq(X)] /\ width \in [1 .. L -> Nat \ {0}]
      /\ \A i \in 1 .. L : i + width[i] <= L + 1
  <2>1. L \in Nat
    OBVIOUS
  <2>2. ASSUME NEW i \in 1 .. L
        PROVE  <<Character(t, i, reader)>> \in Seq(X)
    BY ReadersAreTyped
  <2>3. ASSUME NEW i \in 1 .. L
        PROVE  Width(t, i, reader) \in Nat \ {0} /\ i + Width(t, i, reader) <= L + 1
    BY ReadersAreTyped
  <2> HIDE DEF L
  <2> QED
    BY <2>1, <2>2, <2>3
<1>2. PICK f : Pass(f, L, read, width)
  <2> HIDE DEF L, read, width
  <2> QED
    BY <1>1, PassExists
<1> DEFINE Nested(e) ==
        [i \in 1 .. Len(t) + 1 |->
            IF i > Len(t) THEN <<>>
            ELSE IF t[i] # "\\"
            THEN <<IF t[i] \in reader.refused THEN Refused ELSE t[i]>> \o e[i + 1]
            ELSE IF i < Len(t) /\ t[i + 1] \in reader.letters
            THEN <<Meant(t[i + 1])>> \o e[i + 2]
            ELSE IF i + 1 < Len(t) /\ t[i + 1] \in reader.markers /\ t[i + 2] \in Digits
            THEN <<Coded(t[i + 2])>> \o e[i + 3]
            ELSE <<IF i = Len(t) THEN reader.last ELSE reader.odd>> \o e[i + 1]]
<1>3. ASSUME NEW e, NEW i \in 1 .. L
      PROVE  Nested(e)[i] = read[i] \o e[i + width[i]]
  <2>1. i \in 1 .. L + 1 /\ ~(i > L)
    BY <1>1
  <2>2. read[i] = <<Character(t, i, reader)>> /\ width[i] = Width(t, i, reader)
    OBVIOUS
  <2>3. Nested(e)[i] = <<Character(t, i, reader)>> \o e[i + Width(t, i, reader)]
    BY <2>1 DEF Character, Width, LetterAt, DigitsAt
  <2> QED
    BY <2>2, <2>3
<1>4. ASSUME NEW e PROVE Nested(e)[L + 1] = <<>>
  <2>1. L + 1 \in 1 .. L + 1 /\ L + 1 > L
    BY <1>1
  <2> QED
    BY <2>1
<1> DEFINE F == CHOOSE e : e = Nested(e)
<1>5. Unescaped(t, reader) = F[1]
  BY DEF Unescaped
<1>6. F = Nested(F)
  <2>1. \A i \in 1 .. L + 1 : f[i] = Nested(f)[i]
    <3>1. \A i \in 1 .. L + 1 : i \in 1 .. L \/ i = L + 1
      BY <1>1
    <3> HIDE DEF Nested, L, read, width
    <3> QED
      BY <1>2, <1>3, <1>4, <3>1 DEF Pass
  <2> DEFINE g == Nested(f)
  <2>2. g = [i \in 1 .. L + 1 |-> g[i]]
    OBVIOUS
  <2>3. f = [i \in 1 .. L + 1 |-> f[i]]
    BY <1>2 DEF Pass
  <2>4. f = g
    <3> HIDE DEF g, L
    <3>1. \A i \in 1 .. L + 1 : f[i] = g[i]
      BY <2>1 DEF g
    <3>2. [i \in 1 .. L + 1 |-> f[i]] = [i \in 1 .. L + 1 |-> g[i]]
      BY <3>1
    <3> QED
      BY <2>2, <2>3, <3>2
  <2> HIDE DEF Nested
  <2>5. f = Nested(f)
    BY <2>4 DEF g
  <2> QED
    BY <2>5
<1> HIDE DEF F
<1>7. Pass(F, L, read, width)
  <2>1. F = [i \in 1 .. L + 1 |-> F[i]]
    <3> DEFINE g == Nested(F)
    <3>1. g = [i \in 1 .. L + 1 |-> g[i]]
      OBVIOUS
    <3> HIDE DEF g, L
    <3>2. F = g
      BY <1>6 DEF g
    <3> QED
      BY <3>1, <3>2
  <2> HIDE DEF Nested, L, read, width
  <2> QED
    BY <1>3, <1>4, <1>6, <2>1 DEF Pass
<1>8. F \in [1 .. L + 1 -> Seq(X)]
  <2> HIDE DEF L, read, width
  <2> QED
    BY <1>1, <1>7, PassTyped
<1>9. ASSUME NEW i \in 1 .. L PROVE F[i] = <<Character(t, i, reader)>> \o F[i + Width(t, i, reader)]
  <2>1. F[i] = read[i] \o F[i + width[i]]
    <3> HIDE DEF L, read, width
    <3> QED
      BY <1>7 DEF Pass
  <2> QED
    BY <2>1
<1> QED
  BY <1>5, <1>7, <1>8, <1>9 DEF Pass, Reading

\* What a block is of which a reader makes c.
Plainly(b, c, reader) == b = <<c>> /\ c # "\\" /\ c \notin reader.refused
ByLetter(b, c, reader) == \E l \in reader.letters : b = <<"\\", l>> /\ Meant(l) = c
ByDigits(b, c, reader) ==
    \E m \in reader.markers \ reader.letters, d \in Digits : b = <<"\\", m, d>> /\ Coded(d) = c

\* A backslash that begins nothing, because of what comes next.
Oddly(bb, i, reader) ==
    /\ bb[i] = <<"\\">> /\ reader.odd = "\\"
    /\ i < Len(bb) /\ Len(bb[i + 1]) > 0 /\ bb[i + 1][1] \notin reader.letters \cup reader.markers

ReadAs(bb, i, c, reader) ==
    \/ Plainly(bb[i], c, reader)
    \/ ByLetter(bb[i], c, reader)
    \/ ByDigits(bb[i], c, reader)
    \/ Oddly(bb, i, reader) /\ c = "\\"

\* A text of blocks at the ends of blocks.
LEMMA LaidEnds ==
    ASSUME NEW X, NEW bb \in Seq(Seq(X)), NEW s, NEW off, Laid(bb, s, off)
    PROVE  /\ Len(s) \in Nat /\ Len(s) = off[Len(bb)]
           /\ \A i \in 0 .. Len(bb) : off[i] \in Nat /\ off[i] <= Len(s) /\ off[i] + 1 \in 1 .. Len(s) + 1
           /\ \A i \in 1 .. Len(bb) :
                  off[i - 1] \in Nat /\ Len(bb[i]) \in Nat /\ off[i] = off[i - 1] + Len(bb[i])
<1>1. /\ \A i \in 0 .. Len(bb) : off[i] \in Nat
      /\ \A i \in 1 .. Len(bb) : off[i] = off[i - 1] + Len(bb[i])
      /\ Len(s) = off[Len(bb)]
  BY DEF Laid, Offsets
<1>2. Len(bb) \in 0 .. Len(bb) /\ \A i \in 1 .. Len(bb) : i - 1 \in 0 .. Len(bb) /\ Len(bb[i]) \in Nat
  OBVIOUS
<1>3. \A i \in 0 .. Len(bb) : off[i] <= off[Len(bb)]
  <2>1. Offsets(bb, off)
    BY DEF Laid
  <2>2. \A i \in 0 .. Len(bb) : i <= Len(bb)
    OBVIOUS
  <2> QED
    BY <1>2, <2>1, <2>2, OffsetsGrow
<1>4. \A i \in 0 .. Len(bb) : off[i] + 1 \in 1 .. Len(s) + 1
  BY <1>1, <1>2, <1>3
<1> QED
  BY <1>1, <1>2, <1>3, <1>4

LEMMA BlockIsRead ==
    ASSUME NEW X, NEW bb \in Seq(Seq(X)), NEW s \in Seq(X), NEW off, Laid(bb, s, off),
           NEW reader, NEW i \in 1 .. Len(bb), NEW c, ReadAs(bb, i, c, reader)
    PROVE  /\ Character(s, off[i - 1] + 1, reader) = c
           /\ off[i - 1] + 1 + Width(s, off[i - 1] + 1, reader) = off[i] + 1
           /\ off[i - 1] + 1 \in 1 .. Len(s)
<1> DEFINE p == off[i - 1] + 1
<1>1. /\ Len(s) \in Nat /\ off[i - 1] \in Nat /\ Len(bb[i]) \in Nat
      /\ off[i] = off[i - 1] + Len(bb[i]) /\ off[i] <= Len(s) /\ i \in 0 .. Len(bb)
  BY LaidEnds
<1>2. \A k \in 1 .. Len(bb[i]) : s[off[i - 1] + k] = bb[i][k]
  BY DEF Laid
<1>3. /\ Len(bb[i]) >= 1 => s[p] = bb[i][1]
      /\ Len(bb[i]) >= 2 => s[p + 1] = bb[i][2]
      /\ Len(bb[i]) >= 3 => s[p + 2] = bb[i][3]
  <2>1. p = off[i - 1] + 1 /\ p + 1 = off[i - 1] + 2 /\ p + 2 = off[i - 1] + 3 /\ p \in Nat
    BY <1>1
  <2>2. /\ Len(bb[i]) >= 1 => 1 \in 1 .. Len(bb[i])
        /\ Len(bb[i]) >= 2 => 2 \in 1 .. Len(bb[i])
        /\ Len(bb[i]) >= 3 => 3 \in 1 .. Len(bb[i])
    BY <1>1
  <2> HIDE DEF p
  <2> QED
    BY <1>2, <2>1, <2>2
<1>4. p \in Nat /\ p >= 1 /\ off[i] = p + Len(bb[i]) - 1 /\ p + Len(bb[i]) - 1 <= Len(s)
  BY <1>1
<1> HIDE DEF p
<1> SUFFICES Character(s, p, reader) = c /\ Width(s, p, reader) = Len(bb[i]) /\ Len(bb[i]) >= 1
  BY <1>1, <1>4 DEF p
<1>5. CASE Plainly(bb[i], c, reader)
  <2>1. bb[i] = <<c>> /\ Len(bb[i]) = 1 /\ bb[i][1] = c /\ c # "\\" /\ c \notin reader.refused
    BY <1>5 DEF Plainly
  <2> QED
    BY <1>3, <2>1 DEF Character, Width
<1>6. CASE ByLetter(bb[i], c, reader)
  <2>1. PICK l \in reader.letters : bb[i] = <<"\\", l>> /\ Meant(l) = c
    BY <1>6 DEF ByLetter
  <2>2. Len(bb[i]) = 2 /\ bb[i][1] = "\\" /\ bb[i][2] = l
    BY <2>1
  <2>3. s[p] = "\\" /\ LetterAt(s, p, reader) /\ s[p + 1] = l
    BY <1>1, <1>3, <1>4, <2>2 DEF LetterAt
  <2> QED
    BY <2>1, <2>2, <2>3 DEF Character, Width
<1>7. CASE ByDigits(bb[i], c, reader)
  <2>1. PICK m \in reader.markers \ reader.letters, d \in Digits : bb[i] = <<"\\", m, d>> /\ Coded(d) = c
    BY <1>7 DEF ByDigits
  <2>2. Len(bb[i]) = 3 /\ bb[i][1] = "\\" /\ bb[i][2] = m /\ bb[i][3] = d
    BY <2>1
  <2>3. /\ s[p] = "\\" /\ ~LetterAt(s, p, reader) /\ DigitsAt(s, p, reader) /\ s[p + 2] = d
    BY <1>1, <1>3, <1>4, <2>2 DEF LetterAt, DigitsAt
  <2> QED
    BY <2>1, <2>2, <2>3 DEF Character, Width
<1>8. CASE Oddly(bb, i, reader) /\ c = "\\"
  <2>1. /\ bb[i] = <<"\\">> /\ reader.odd = "\\"
        /\ i < Len(bb) /\ Len(bb[i + 1]) > 0 /\ bb[i + 1][1] \notin reader.letters \cup reader.markers
    BY <1>8 DEF Oddly
  <2>2. Len(bb[i]) = 1 /\ bb[i][1] = "\\" /\ i + 1 \in 1 .. Len(bb) /\ i + 1 - 1 = i
    BY <2>1
  <2>3. off[i + 1] = off[i] + Len(bb[i + 1]) /\ Len(bb[i + 1]) \in Nat /\ off[i + 1] <= Len(s)
    <3> DEFINE j == i + 1
    <3>1. j \in 1 .. Len(bb) /\ j \in 0 .. Len(bb) /\ j - 1 = i
      BY <2>2
    <3> HIDE DEF j
    <3>2. off[j] = off[i] + Len(bb[j]) /\ Len(bb[j]) \in Nat /\ off[j] <= Len(s)
      BY <3>1, LaidEnds
    <3> QED
      BY <3>2 DEF j
  <2>4. s[off[i] + 1] = bb[i + 1][1]
    <3> DEFINE j == i + 1
    <3>1. j \in 1 .. Len(bb) /\ j - 1 = i /\ 1 \in 1 .. Len(bb[j])
      BY <2>1, <2>2, <2>3
    <3> HIDE DEF j
    <3>2. s[off[j - 1] + 1] = bb[j][1]
      BY <3>1 DEF Laid
    <3> QED
      BY <3>1, <3>2 DEF j
  <2>5. p < Len(s) /\ off[i] = p
    <3> DEFINE m == Len(bb[i + 1])
               q == off[i + 1]
    <3>1. off[i] = p
      BY <1>1, <1>4, <2>2
    <3>2. m \in Nat /\ m > 0 /\ q = off[i] + m /\ q <= Len(s)
      BY <2>1, <2>3
    <3> HIDE DEF m, q
    <3> QED
      BY <1>1, <1>4, <3>1, <3>2
  <2>6. s[p] = "\\" /\ s[p + 1] \notin reader.letters \cup reader.markers /\ p # Len(s)
    <3>1. s[p] = bb[i][1]
      BY <1>3, <2>2
    <3>2. p # Len(s)
      BY <1>1, <1>4, <2>5
    <3> QED
      BY <2>1, <2>2, <2>4, <2>5, <3>1, <3>2
  <2>7. ~LetterAt(s, p, reader) /\ ~DigitsAt(s, p, reader)
    BY <2>6 DEF LetterAt, DigitsAt
  <2> QED
    BY <1>8, <2>1, <2>2, <2>6, <2>7 DEF Character, Width
<1> QED
  BY <1>5, <1>6, <1>7, <1>8 DEF ReadAs

\* A reader gives back the text whose characters the blocks stand for.
LEMMA BlocksAreRead ==
    ASSUME NEW X, NEW reader, Alphabet(X, reader), NEW t \in Seq(X), NEW bb \in Seq(Seq(X)),
           Len(bb) = Len(t), \A i \in 1 .. Len(t) : ReadAs(bb, i, t[i], reader)
    PROVE  Unescaped(FlattenSeq(bb), reader) = t
<1> DEFINE s == FlattenSeq(bb)
           cc == [i \in DOMAIN t |-> <<t[i]>>]
<1>1. s \in Seq(X) /\ \E off : Laid(bb, s, off)
  BY LaidOut
<1> HIDE DEF s
<1>2. PICK off : Laid(bb, s, off)
  BY <1>1
<1>3. PICK f \in [1 .. Len(s) + 1 -> Seq(X)] : Reading(f, s, reader)
  BY <1>1, UnescapedEquation
<1>30. /\ Unescaped(s, reader) = f[1]
       /\ f[Len(s) + 1] = <<>>
       /\ \A p \in 1 .. Len(s) : f[p] = <<Character(s, p, reader)>> \o f[p + Width(s, p, reader)]
  BY <1>3 DEF Reading
<1>4. cc \in Seq(Seq(X)) /\ Len(cc) = Len(t) /\ \A i \in 1 .. Len(t) : cc[i] = <<t[i]>>
  BY SingleBlocks
<1> HIDE DEF cc
<1>5. Offsets(bb, off)
  BY <1>2 DEF Laid
<1>6. \A i \in 0 .. Len(bb) : f[off[i] + 1] \in Seq(X)
  BY <1>2, LaidEnds
<1>7. f[off[Len(bb)] + 1] = <<>>
  BY <1>2, <1>30 DEF Laid
<1>8. ASSUME NEW i \in 1 .. Len(bb) PROVE f[off[i - 1] + 1] = cc[i] \o f[off[i] + 1]
  <2> DEFINE p == off[i - 1] + 1
  <2>1. Character(s, p, reader) = t[i] /\ p + Width(s, p, reader) = off[i] + 1 /\ p \in 1 .. Len(s)
    BY <1>1, <1>2, BlockIsRead
  <2> HIDE DEF p
  <2>2. f[p] = <<Character(s, p, reader)>> \o f[p + Width(s, p, reader)]
    BY <1>30, <2>1
  <2>3. cc[i] = <<t[i]>>
    BY <1>4
  <2> QED
    BY <2>1, <2>2, <2>3 DEF p
<1>9. Passing(bb, cc, off, f, X)
  BY <1>6, <1>7, <1>8 DEF Passing
<1>10. f[1] = FlattenSeq(cc)
  BY <1>4, <1>5, <1>9, PassesBlocks
<1> QED
  BY <1>30, <1>10, SinglesFlatten DEF s, cc

-----------------------------------------------------------------------------
(* Flutter and iOS.                                                        *)

\* The characters that a format or a reader treats specially.
Special ==
    {"\n", "\t", "\r", "ctl", "LS", Refused, "\\", "\"", "/", "'", "@", "n", "t", "r", "u", "U",
     "0001", "2028", "&", "<", ">", "amp;", "lt;", "gt;", "#39;", "]", "![CDATA[", "b"}

LEMMA BlocksOf ==
    ASSUME NEW X, NEW N \in Nat, NEW bb, bb = [i \in 1 .. N |-> bb[i]],
           \A i \in 1 .. N : bb[i] \in Seq(X)
    PROVE  bb \in Seq(Seq(X)) /\ Len(bb) = N
<1>1. bb \in [1 .. N -> Seq(X)]
  OBVIOUS
<1> QED
  BY <1>1

Readable(b, c, reader) ==
    Plainly(b, c, reader) \/ ByLetter(b, c, reader) \/ ByDigits(b, c, reader)

LEMMA LetterBlock ==
    ASSUME NEW X, NEW reader, "\\" \in X, NEW l \in X, l \in reader.letters
    PROVE  <<"\\", l>> \in Seq(X) /\ Readable(<<"\\", l>>, Meant(l), reader)
<1>1. <<"\\", l>> \in Seq(X)
  OBVIOUS
<1>2. ByLetter(<<"\\", l>>, Meant(l), reader)
  BY DEF ByLetter
<1> QED
  BY <1>1, <1>2 DEF Readable

LEMMA DigitsBlock ==
    ASSUME NEW X, NEW reader, "\\" \in X, NEW m \in X, NEW d \in X,
           m \in reader.markers \ reader.letters, d \in Digits
    PROVE  <<"\\", m, d>> \in Seq(X) /\ Readable(<<"\\", m, d>>, Coded(d), reader)
<1>1. <<"\\", m, d>> \in Seq(X)
  OBVIOUS
<1>2. ByDigits(<<"\\", m, d>>, Coded(d), reader)
  BY DEF ByDigits
<1> QED
  BY <1>1, <1>2 DEF Readable

LEMMA PlainBlock ==
    ASSUME NEW X, NEW reader, NEW c \in X, c # "\\", c \notin reader.refused
    PROVE  <<c>> \in Seq(X) /\ Readable(<<c>>, c, reader)
<1>1. <<c>> \in Seq(X)
  OBVIOUS
<1>2. Plainly(<<c>>, c, reader)
  BY DEF Plainly
<1> QED
  BY <1>1, <1>2 DEF Readable

\* Every character is read as itself, whatever it is.
LEMMA JSONImages ==
    ASSUME NEW X, Special \subseteq X, NEW c \in X
    PROVE  JSONImage(c) \in Seq(X) /\ Readable(JSONImage(c), c, JSONReader)
<1>0. /\ {"\\", "n", "t", "r", "\"", "/", "u", "0001", "2028"} \subseteq X
      /\ JSONReader.letters = {"n", "t", "r", "\\", "\"", "/"} /\ JSONReader.markers = {"u"}
      /\ JSONReader.refused = {"\"", "\n", "\r", "\t", "ctl"}
  BY DEF Special, JSONReader
<1>1. CASE c \in {"\n", "\t", "\r", "\\", "\"", "/"}
  <2>1. JSONImage(c) = <<"\\", Letter(c)>>
    BY <1>1 DEF JSONImage
  <2>2. Letter(c) \in {"n", "t", "r", "\\", "\"", "/"} /\ Meant(Letter(c)) = c
    BY <1>1 DEF Letter, Meant
  <2> DEFINE l == Letter(c)
  <2>3. "\\" \in X /\ l \in X /\ l \in JSONReader.letters
    BY <1>0, <2>2
  <2> HIDE DEF l
  <2>4. <<"\\", l>> \in Seq(X) /\ Readable(<<"\\", l>>, Meant(l), JSONReader)
    BY <2>3, LetterBlock
  <2> QED
    BY <2>1, <2>2, <2>4 DEF l
<1>2. CASE c \in {"ctl", "LS"}
  <2>1. PICK d \in Digits : JSONImage(c) = <<"\\", "u", d>> /\ Coded(d) = c
    BY <1>2 DEF JSONImage, Digits, Coded
  <2>2. d \in X /\ "u" \in X /\ "u" \in JSONReader.markers \ JSONReader.letters
    BY <1>0 DEF Digits
  <2>3. "\\" \in X
    BY <1>0
  <2>4. <<"\\", "u", d>> \in Seq(X) /\ Readable(<<"\\", "u", d>>, Coded(d), JSONReader)
    BY <2>1, <2>2, <2>3, DigitsBlock
  <2> QED
    BY <2>1, <2>4
<1>3. CASE c \notin {"\n", "\t", "\r", "\\", "\"", "/", "ctl", "LS"}
  <2>1. JSONImage(c) = <<c>>
    BY <1>3 DEF JSONImage
  <2>2. c # "\\" /\ c \notin JSONReader.refused
    BY <1>0, <1>3
  <2>3. <<c>> \in Seq(X) /\ Readable(<<c>>, c, JSONReader)
    BY <2>2, PlainBlock
  <2> QED
    BY <2>1, <2>3
<1> QED
  BY <1>1, <1>2, <1>3

LEMMA StringsImages ==
    ASSUME NEW X, Special \subseteq X, NEW c \in X
    PROVE  StringsImage(c) \in Seq(X) /\ Readable(StringsImage(c), c, StringsReader)
<1>0. /\ {"\\", "n", "t", "r", "\"", "U", "0001"} \subseteq X
      /\ StringsReader.letters = {"n", "t", "r", "\\", "\""} /\ StringsReader.markers = {"u", "U"}
      /\ StringsReader.refused = {"\""}
  BY DEF Special, StringsReader
<1>1. CASE c \in {"\n", "\t", "\r", "\\", "\""}
  <2>1. StringsImage(c) = <<"\\", Letter(c)>>
    BY <1>1 DEF StringsImage
  <2>2. Letter(c) \in {"n", "t", "r", "\\", "\""} /\ Meant(Letter(c)) = c
    BY <1>1 DEF Letter, Meant
  <2> DEFINE l == Letter(c)
  <2>3. "\\" \in X /\ l \in X /\ l \in StringsReader.letters
    BY <1>0, <2>2
  <2> HIDE DEF l
  <2>4. <<"\\", l>> \in Seq(X) /\ Readable(<<"\\", l>>, Meant(l), StringsReader)
    BY <2>3, LetterBlock
  <2> QED
    BY <2>1, <2>2, <2>4 DEF l
<1>2. CASE c = "ctl"
  <2>1. StringsImage(c) = <<"\\", "U", "0001">> /\ "0001" \in Digits /\ Coded("0001") = c
    BY <1>2 DEF StringsImage, Digits, Coded
  <2>2. "0001" \in X /\ "U" \in X /\ "U" \in StringsReader.markers \ StringsReader.letters
    BY <1>0
  <2>3. "\\" \in X
    BY <1>0
  <2>4. <<"\\", "U", "0001">> \in Seq(X) /\ Readable(<<"\\", "U", "0001">>, Coded("0001"), StringsReader)
    BY <2>1, <2>2, <2>3, DigitsBlock
  <2> QED
    BY <2>1, <2>4
<1>3. CASE c \notin {"\n", "\t", "\r", "\\", "\"", "ctl"}
  <2>1. StringsImage(c) = <<c>>
    BY <1>3 DEF StringsImage
  <2>2. c # "\\" /\ c \notin StringsReader.refused
    BY <1>0, <1>3
  <2>3. <<c>> \in Seq(X) /\ Readable(<<c>>, c, StringsReader)
    BY <2>2, PlainBlock
  <2> QED
    BY <2>1, <2>3
<1> QED
  BY <1>1, <1>2, <1>3

\* A JSON file gives back every text, of whatever characters and length.
LEMMA JSONIsRead ==
    ASSUME NEW X, Special \subseteq X, NEW t \in Seq(X)
    PROVE  ReadJSON(WriteJSON(t)) = t
<1> DEFINE bb == [i \in DOMAIN t |-> JSONImage(t[i])]
<1>1. Len(t) \in Nat /\ DOMAIN t = 1 .. Len(t) /\ \A i \in 1 .. Len(t) : t[i] \in X
  OBVIOUS
<1>2. \A i \in 1 .. Len(t) : bb[i] = JSONImage(t[i]) /\ bb[i] \in Seq(X)
  BY <1>1, JSONImages
<1>3. bb = [i \in 1 .. Len(t) |-> bb[i]]
  BY <1>1
<1> HIDE DEF bb
<1>4. bb \in Seq(Seq(X)) /\ Len(bb) = Len(t)
  BY <1>1, <1>2, <1>3, BlocksOf
<1>5. \A i \in 1 .. Len(t) : ReadAs(bb, i, t[i], JSONReader)
  BY <1>1, <1>2, JSONImages DEF ReadAs, Readable
<1>6. Alphabet(X, JSONReader)
  <2>1. JSONReader.odd = Refused /\ JSONReader.last = Refused
    BY DEF JSONReader
  <2> QED
    BY <2>1 DEF Alphabet, Special
<1>7. Unescaped(FlattenSeq(bb), JSONReader) = t
  BY <1>4, <1>5, <1>6, BlocksAreRead
<1> QED
  BY <1>7 DEF ReadJSON, WriteJSON, bb

\* So does a .strings file.
LEMMA StringsAreRead ==
    ASSUME NEW X, Special \subseteq X, NEW t \in Seq(X)
    PROVE  ReadStrings(WriteStrings(t)) = t
<1> DEFINE bb == [i \in DOMAIN t |-> StringsImage(t[i])]
<1>1. Len(t) \in Nat /\ DOMAIN t = 1 .. Len(t) /\ \A i \in 1 .. Len(t) : t[i] \in X
  OBVIOUS
<1>2. \A i \in 1 .. Len(t) : bb[i] = StringsImage(t[i]) /\ bb[i] \in Seq(X)
  BY <1>1, StringsImages
<1>3. bb = [i \in 1 .. Len(t) |-> bb[i]]
  BY <1>1
<1> HIDE DEF bb
<1>4. bb \in Seq(Seq(X)) /\ Len(bb) = Len(t)
  BY <1>1, <1>2, <1>3, BlocksOf
<1>5. \A i \in 1 .. Len(t) : ReadAs(bb, i, t[i], StringsReader)
  BY <1>1, <1>2, StringsImages DEF ReadAs, Readable
<1>6. Alphabet(X, StringsReader)
  <2>1. StringsReader.odd = "\\" /\ StringsReader.last = Refused
    BY DEF StringsReader
  <2> QED
    BY <2>1 DEF Alphabet, Special
<1>7. Unescaped(FlattenSeq(bb), StringsReader) = t
  BY <1>4, <1>5, <1>6, BlocksAreRead
<1> QED
  BY <1>7 DEF ReadStrings, WriteStrings, bb

-----------------------------------------------------------------------------
(* Android: the escapes.                                                   *)

AndroidBlocks(t) == [i \in DOMAIN t |-> AndroidImage(t, i)]

\* A character is escaped, or stands for itself.
LEMMA AndroidImages ==
    ASSUME NEW X, Special \subseteq X, NEW t \in Seq(X), NEW i \in 1 .. Len(t)
    PROVE  /\ AndroidImage(t, i) \in Seq(X)
           /\ \/ /\ t[i] \in {"\n", "\t", "\\", "\"", "'", "@"}
                 /\ AndroidImage(t, i) = <<"\\", Letter(t[i])>>
                 /\ Letter(t[i]) \in {"n", "t", "\\", "\"", "'", "@"}
                 /\ Meant(Letter(t[i])) = t[i]
              \/ AndroidImage(t, i) = <<t[i]>> /\ (t[i] = "\\" => Stays(t, i))
<1>0. {"\\", "n", "t", "\"", "'", "@"} \subseteq X /\ t[i] \in X
  <2>1. t[i] \in X
    OBVIOUS
  <2> QED
    BY <2>1 DEF Special
<1>1. CASE t[i] \in {"\n", "\t", "\\", "\"", "'", "@"} /\ ~Stays(t, i)
  <2> DEFINE l == Letter(t[i])
  <2>1. AndroidImage(t, i) = <<"\\", l>>
    BY <1>1 DEF AndroidImage
  <2>2. l \in {"n", "t", "\\", "\"", "'", "@"} /\ Meant(l) = t[i]
    BY <1>1 DEF Letter, Meant
  <2> HIDE DEF l
  <2>3. l \in X /\ "\\" \in X
    BY <1>0, <2>2
  <2>4. <<"\\", l>> \in Seq(X)
    BY <2>3
  <2> QED
    BY <1>1, <2>1, <2>2, <2>4 DEF l
<1>2. CASE ~(t[i] \in {"\n", "\t", "\\", "\"", "'", "@"} /\ ~Stays(t, i))
  <2>1. AndroidImage(t, i) = <<t[i]>>
    BY <1>2 DEF AndroidImage
  <2>2. <<t[i]>> \in Seq(X)
    <3> DEFINE c == t[i]
    <3>1. c \in X
      BY <1>0
    <3> HIDE DEF c
    <3>2. <<c>> \in Seq(X)
      BY <3>1
    <3> QED
      BY <3>2 DEF c
  <2>3. t[i] = "\\" => Stays(t, i)
    BY <1>2
  <2> QED
    BY <2>1, <2>2, <2>3
<1> QED
  BY <1>1, <1>2

LEMMA AndroidBlocksAre ==
    ASSUME NEW X, Special \subseteq X, NEW t \in Seq(X)
    PROVE  /\ AndroidBlocks(t) \in Seq(Seq(X)) /\ Len(AndroidBlocks(t)) = Len(t)
           /\ \A i \in 1 .. Len(t) : AndroidBlocks(t)[i] = AndroidImage(t, i)
           /\ FlattenSeq(AndroidBlocks(t)) = EscapeAndroid(t)
<1> DEFINE bb == AndroidBlocks(t)
<1>1. Len(t) \in Nat /\ DOMAIN t = 1 .. Len(t)
  OBVIOUS
<1>2. \A i \in 1 .. Len(t) : bb[i] = AndroidImage(t, i)
  BY <1>1 DEF AndroidBlocks
<1>3. bb = [i \in 1 .. Len(t) |-> bb[i]]
  BY <1>1 DEF AndroidBlocks
<1>4. FlattenSeq(bb) = EscapeAndroid(t)
  BY DEF AndroidBlocks, EscapeAndroid
<1> HIDE DEF bb
<1>5. \A i \in 1 .. Len(t) : bb[i] \in Seq(X)
  BY <1>2, AndroidImages
<1>6. bb \in Seq(Seq(X)) /\ Len(bb) = Len(t)
  BY <1>1, <1>3, <1>5, BlocksOf
<1> QED
  BY <1>2, <1>4, <1>6 DEF bb

LEMMA AndroidIsRead ==
    ASSUME NEW X, Special \subseteq X, NEW t \in Seq(X)
    PROVE  EscapeAndroid(t) \in Seq(X) /\ UnescapeAndroid(EscapeAndroid(t)) = t
<1> DEFINE bb == AndroidBlocks(t)
<1>0. /\ AndroidReader.letters = {"n", "t", "\\", "\"", "'", "@"} /\ AndroidReader.markers = {}
      /\ AndroidReader.refused = {} /\ AndroidReader.odd = "\\" /\ AndroidReader.last = "\\"
  BY DEF AndroidReader
<1>1. /\ bb \in Seq(Seq(X)) /\ Len(bb) = Len(t) /\ Len(t) \in Nat
      /\ \A i \in 1 .. Len(t) : bb[i] = AndroidImage(t, i)
      /\ FlattenSeq(bb) = EscapeAndroid(t)
  BY AndroidBlocksAre
<1> HIDE DEF bb
<1>2. ASSUME NEW i \in 1 .. Len(t) PROVE ReadAs(bb, i, t[i], AndroidReader)
  <2> DEFINE c == t[i]
             l == Letter(t[i])
  <2>1. \/ bb[i] = <<"\\", l>> /\ l \in {"n", "t", "\\", "\"", "'", "@"} /\ Meant(l) = c
        \/ bb[i] = <<c>> /\ (c = "\\" => Stays(t, i))
    BY <1>1, AndroidImages
  <2> HIDE DEF c, l
  <2>2. CASE bb[i] = <<"\\", l>> /\ l \in {"n", "t", "\\", "\"", "'", "@"} /\ Meant(l) = c
    <3>1. l \in AndroidReader.letters
      BY <1>0, <2>2
    <3> QED
      BY <2>2, <3>1 DEF ReadAs, ByLetter, c
  <2>3. CASE bb[i] = <<c>> /\ c # "\\"
    <3>1. c \notin AndroidReader.refused
      BY <1>0
    <3> QED
      BY <2>3, <3>1 DEF ReadAs, Plainly, c
  <2>4. CASE bb[i] = <<c>> /\ c = "\\" /\ Stays(t, i)
    <3>1. i + 1 < Len(t) /\ t[i + 1] = "u"
      BY <2>4 DEF Stays, c
    <3>2. i + 1 \in 1 .. Len(t) /\ i < Len(bb)
      BY <1>1, <3>1
    <3>3. bb[i + 1] = <<"u">>
      BY <1>1, <3>1, <3>2 DEF AndroidImage
    <3>4. Len(bb[i + 1]) > 0 /\ bb[i + 1][1] = "u"
      BY <3>3
    <3>5. "u" \notin AndroidReader.letters \cup AndroidReader.markers
      BY <1>0
    <3>6. Oddly(bb, i, AndroidReader)
      BY <1>0, <2>4, <3>2, <3>4, <3>5 DEF Oddly
    <3> QED
      BY <2>4, <3>6 DEF ReadAs, c
  <2> QED
    BY <2>1, <2>2, <2>3, <2>4
<1>3. Alphabet(X, AndroidReader)
  BY <1>0 DEF Alphabet, Special
<1>4. Unescaped(FlattenSeq(bb), AndroidReader) = t
  BY <1>1, <1>2, <1>3, BlocksAreRead
<1>5. FlattenSeq(bb) \in Seq(X)
  BY <1>1, LaidOut
<1> QED
  BY <1>1, <1>4, <1>5 DEF UnescapeAndroid

-----------------------------------------------------------------------------
(* What stands where.                                                      *)

LEMMA AtPoints ==
    ASSUME NEW X, NEW t \in Seq(X), NEW x \in Seq(X), NEW i \in Nat \ {0}
    PROVE  At(t, i, x) <=> /\ i + Len(x) <= Len(t) + 1
                           /\ \A k \in 1 .. Len(x) : t[i + k - 1] = x[k]
<1> DEFINE m == Len(x)
           n == i + m - 1
           u == SubSeq(t, i, n)
<1>0. m \in Nat /\ Len(t) \in Nat
  OBVIOUS
<1> SUFFICES ASSUME i + m <= Len(t) + 1
             PROVE  u = x <=> \A k \in 1 .. m : t[i + k - 1] = x[k]
  BY DEF At
<1>1. u \in Seq(X) /\ Len(u) = m /\ \A k \in 1 .. m : u[k] = t[i + k - 1]
  <2>1. n \in Int /\ n - i + 1 = m /\ n <= Len(t) /\ i \in Int /\ (i <= n <=> m # 0)
    BY <1>0
  <2>2. \A k \in i .. n : t[k] \in X
    <3>1. \A k \in i .. n : k \in 1 .. Len(t)
      BY <2>1
    <3> QED
      BY <3>1
  <2> HIDE DEF m, n
  <2> QED
    BY <1>0, <2>1, <2>2, SubSeqProperties
<1> HIDE DEF u
<1>2. u = x => \A k \in 1 .. m : t[i + k - 1] = x[k]
  BY <1>1
<1>3. (\A k \in 1 .. m : t[i + k - 1] = x[k]) => u = x
  <2> HAVE \A k \in 1 .. m : t[i + k - 1] = x[k]
  <2>1. \A k \in 1 .. Len(u) : u[k] = x[k]
    BY <1>1
  <2> QED
    BY <1>1, <2>1, SeqEqual
<1> QED
  BY <1>2, <1>3

Matches(t, i, x) ==
    /\ i + Len(x) <= Len(t) + 1
    /\ \A k \in 1 .. Len(x) : t[i + k - 1] = x[k]

LEMMA AtMatches ==
    ASSUME NEW X, NEW t \in Seq(X), NEW x \in Seq(X), NEW i \in Nat \ {0}
    PROVE  At(t, i, x) <=> Matches(t, i, x)
BY AtPoints DEF Matches

LEMMA Pair ==
    ASSUME NEW X, NEW a \in X, NEW b \in X
    PROVE  <<a, b>> \in Seq(X) /\ Len(<<a, b>>) = 2 /\ <<a, b>>[1] = a /\ <<a, b>>[2] = b
OBVIOUS

LEMMA Triple ==
    ASSUME NEW X, NEW a \in X, NEW b \in X, NEW c \in X
    PROVE  /\ <<a, b, c>> \in Seq(X) /\ Len(<<a, b, c>>) = 3
           /\ <<a, b, c>>[1] = a /\ <<a, b, c>>[2] = b /\ <<a, b, c>>[3] = c
OBVIOUS

\* The blocks of t from i on, m of them, are the characters of t.
Single(bb, t, i, m) == \A k \in i .. i + m - 1 : bb[k] = <<t[k]>>

\* Where blocks are single characters, positions in the text run along.
RunsAlong(t, s, off, i, m) ==
    /\ \A k \in 0 .. m : off[i - 1 + k] = off[i - 1] + k
    /\ \A k \in 1 .. m : s[off[i - 1] + k] = t[i + k - 1]

LEMMA SinglesRunAlong ==
    ASSUME NEW X, NEW t \in Seq(X), NEW bb \in Seq(Seq(X)), Len(bb) = Len(t),
           NEW s, NEW off, Laid(bb, s, off),
           NEW i \in 1 .. Len(t), NEW m \in Nat, i + m <= Len(t) + 1, Single(bb, t, i, m)
    PROVE  RunsAlong(t, s, off, i, m)
<1> DEFINE a == off[i - 1]
<1>0. Len(t) \in Nat /\ a \in Nat
  BY LaidEnds
<1> HIDE DEF a
<1>1. ASSUME NEW j \in i .. i + m - 1
      PROVE  off[j] = off[j - 1] + 1 /\ s[off[j - 1] + 1] = t[j]
  <2>1. j \in 1 .. Len(bb) /\ bb[j] = <<t[j]>>
    BY <1>0 DEF Single
  <2>2. Len(bb[j]) = 1 /\ bb[j][1] = t[j]
    BY <2>1
  <2>3. 1 \in 1 .. Len(bb[j])
    BY <2>2
  <2> QED
    BY <2>1, <2>2, <2>3 DEF Laid, Offsets
<1> DEFINE Along == {n \in Nat : n <= m => off[i - 1 + n] = a + n}
<1>2. Along = Nat
  <2>1. 0 \in Along
    BY <1>0 DEF a
  <2>2. ASSUME NEW n \in Along PROVE n + 1 \in Along
    <3> SUFFICES ASSUME n + 1 <= m PROVE off[i - 1 + (n + 1)] = a + (n + 1)
      OBVIOUS
    <3> DEFINE j == i + n
    <3>1. j \in i .. i + m - 1 /\ j - 1 = i - 1 + n /\ j = i - 1 + (n + 1) /\ n <= m
      BY <1>0
    <3>2. off[i - 1 + n] = a + n
      BY <3>1
    <3> HIDE DEF j
    <3>3. off[j] = off[j - 1] + 1
      BY <1>1, <3>1
    <3>4. off[j - 1] = a + n /\ n \in Nat
      BY <3>1, <3>2
    <3> HIDE DEF Along
    <3>5. off[j] = a + (n + 1)
      BY <1>0, <3>3, <3>4
    <3> QED
      BY <3>1, <3>5
  <2> QED
    <3> HIDE DEF Along
    <3> QED
      BY <2>1, <2>2, CountUp DEF Along
<1>3. \A k \in 0 .. m : off[i - 1 + k] = a + k
  <2> TAKE k \in 0 .. m
  <2>1. k \in Along
    <3> HIDE DEF Along
    <3> QED
      BY <1>2
  <2> QED
    BY <2>1
<1>4. ASSUME NEW k \in 1 .. m PROVE s[a + k] = t[i + k - 1]
  <2> DEFINE j == i + k - 1
             h == k - 1
  <2>1. j \in i .. i + m - 1 /\ h \in 0 .. m /\ j - 1 = i - 1 + h /\ h + 1 = k /\ h \in Nat
    BY <1>0
  <2> HIDE DEF j, h
  <2>2. off[j - 1] = a + h
    BY <1>3, <2>1
  <2>3. off[j - 1] + 1 = a + k
    BY <1>0, <2>1, <2>2
  <2>4. s[off[j - 1] + 1] = t[j]
    BY <1>1, <2>1
  <2> QED
    BY <2>3, <2>4 DEF j
<1> QED
  BY <1>3, <1>4 DEF a, RunsAlong

\* What stands in t, and is written character by character, stands in the text too.
LEMMA StaysAt ==
    ASSUME NEW X, NEW t \in Seq(X), NEW bb \in Seq(Seq(X)), Len(bb) = Len(t),
           NEW s \in Seq(X), NEW off, Laid(bb, s, off), NEW x \in Seq(X),
           NEW i \in 1 .. Len(t), At(t, i, x), Single(bb, t, i, Len(x))
    PROVE  At(s, off[i - 1] + 1, x)
<1> DEFINE m == Len(x)
           a == off[i - 1]
<1>0. m \in Nat /\ a \in Nat /\ Len(s) \in Nat /\ i \in Nat \ {0} /\ Len(t) \in Nat
  BY LaidEnds
<1>1. i + m <= Len(t) + 1 /\ \A k \in 1 .. m : t[i + k - 1] = x[k]
  BY <1>0, AtPoints
<1>2. (\A k \in 0 .. m : off[i - 1 + k] = a + k) /\ (\A k \in 1 .. m : s[a + k] = t[i + k - 1])
  <2> HIDE DEF a, m
  <2>1. RunsAlong(t, s, off, i, m)
    BY <1>0, <1>1, SinglesRunAlong DEF m
  <2> QED
    BY <2>1 DEF a, RunsAlong
<1>3. a + m <= Len(s)
  <2> DEFINE j == i - 1 + m
  <2>1. j \in 0 .. Len(bb) /\ m \in 0 .. m
    BY <1>0, <1>1
  <2>2. off[j] = a + m
    BY <1>2, <2>1
  <2> HIDE DEF j, a, m
  <2>3. off[j] <= Len(s)
    BY <2>1, LaidEnds
  <2> QED
    BY <2>2, <2>3
<1>4. \A k \in 1 .. m : s[a + 1 + k - 1] = x[k]
  <2> TAKE k \in 1 .. m
  <2>1. a + 1 + k - 1 = a + k
    BY <1>0
  <2> QED
    BY <1>1, <1>2, <2>1
<1> HIDE DEF a, m
<1>5. a + 1 + m <= Len(s) + 1 /\ a + 1 \in Nat \ {0}
  BY <1>0, <1>3
<1>6. At(s, a + 1, x)
  BY <1>4, <1>5, AtPoints DEF m
<1> QED
  BY <1>6 DEF a

\* Blocks of one character each that may be in P, or of characters that are not.
Apart(bb, t, P) ==
    \A i \in 1 .. Len(t) :
        /\ Len(bb[i]) > 0
        /\ bb[i] = <<t[i]>> \/ \A k \in 1 .. Len(bb[i]) : bb[i][k] \notin P

LEMMA OffsetsDiffer ==
    ASSUME NEW X, NEW t \in Seq(X), NEW bb \in Seq(Seq(X)), Len(bb) = Len(t),
           NEW off, Offsets(bb, off), NEW P, Apart(bb, t, P),
           NEW i \in 0 .. Len(t), NEW j \in 0 .. Len(t), off[i] = off[j]
    PROVE  i = j
<1>0. Len(t) \in Nat /\ \A k \in 0 .. Len(t) : off[k] \in Nat
  <2>1. Len(t) \in Nat /\ off \in [0 .. Len(t) -> Nat]
    BY DEF Offsets
  <2> QED
    BY <2>1
<1>1. ASSUME NEW k \in 0 .. Len(t), NEW l \in 0 .. Len(t), k < l PROVE off[k] < off[l]
  <2> DEFINE n == k + 1
             b == Len(bb[n])
  <2>1. n \in 1 .. Len(t) /\ n \in 0 .. Len(t) /\ n - 1 = k /\ n <= l
    BY <1>0, <1>1
  <2> HIDE DEF n
  <2>2. b \in Nat /\ b > 0
    BY <2>1 DEF Apart
  <2>3. off[n] = off[n - 1] + b
    BY <2>1 DEF Offsets
  <2>4. off[n] <= off[l]
    BY <2>1, OffsetsGrow
  <2> HIDE DEF b
  <2> QED
    BY <1>0, <2>1, <2>2, <2>3, <2>4
<1>2. ~(i < j) /\ ~(j < i)
  BY <1>0, <1>1
<1> QED
  BY <1>0, <1>2

\* A character in P is where a block begins that is this character.
Begins(bb, t, off, p, c) ==
    \E i \in 1 .. Len(t) : off[i - 1] = p - 1 /\ bb[i] = <<t[i]>> /\ t[i] = c

LEMMA ComesFromOne ==
    ASSUME NEW X, NEW t \in Seq(X), NEW bb \in Seq(Seq(X)), Len(bb) = Len(t),
           NEW s, NEW off, Laid(bb, s, off), NEW P, Apart(bb, t, P),
           NEW p \in 1 .. Len(s), s[p] \in P
    PROVE  Begins(bb, t, off, p, s[p])
<1>1. Offsets(bb, off) /\ p \in 1 .. off[Len(bb)]
  BY DEF Laid
<1>2. PICK i \in 1 .. Len(bb), k \in Nat : k \in 1 .. Len(bb[i]) /\ p = off[i - 1] + k
  <2>1. Covered(bb, off, p)
    BY <1>1, PositionsAreCovered
  <2> QED
    BY <2>1 DEF Covered
<1>3. s[p] = bb[i][k]
  BY <1>2 DEF Laid
<1>4. bb[i] = <<t[i]>>
  BY <1>2, <1>3 DEF Apart
<1>5. Len(bb[i]) = 1 /\ bb[i][1] = t[i]
  BY <1>4
<1>6. k = 1 /\ off[i - 1] \in Nat
  BY <1>2, <1>5, LaidEnds
<1>7. off[i - 1] = p - 1
  BY <1>2, <1>6
<1> QED
  BY <1>3, <1>4, <1>5, <1>6, <1>7 DEF Begins

\* What stands in the text, made of characters in P, stood in t.
Stood(bb, t, off, p, x) ==
    \E i \in 1 .. Len(t) : off[i - 1] + 1 = p /\ At(t, i, x) /\ Single(bb, t, i, Len(x))

LEMMA CameFrom ==
    ASSUME NEW X, NEW t \in Seq(X), NEW bb \in Seq(Seq(X)), Len(bb) = Len(t),
           NEW s \in Seq(X), NEW off, Laid(bb, s, off), NEW P, Apart(bb, t, P),
           NEW x \in Seq(X), Len(x) > 0, \A k \in 1 .. Len(x) : x[k] \in P,
           NEW p \in Nat \ {0}, At(s, p, x)
    PROVE  Stood(bb, t, off, p, x)
<1> DEFINE m == Len(x)
           N == Len(t)
<1>0. m \in Nat /\ m > 0 /\ Len(s) \in Nat /\ N \in Nat /\ Offsets(bb, off)
  BY DEF Laid
<1>1. p + m <= Len(s) + 1 /\ \A k \in 1 .. m : s[p + k - 1] = x[k]
  BY AtPoints
<1>01. \A k \in 1 .. m : x[k] \in P
  OBVIOUS
<1> HIDE DEF m, N
<1>2. ASSUME NEW k \in Nat, k < m
      PROVE  \E i \in 1 .. N : off[i - 1] = p + k - 1 /\ bb[i] = <<t[i]>> /\ t[i] = x[k + 1]
  <2> DEFINE q == p + k
  <2>1. q \in 1 .. Len(s) /\ q = p + (k + 1) - 1 /\ k + 1 \in 1 .. m /\ q - 1 = p + k - 1
    BY <1>0, <1>1, <1>2
  <2> HIDE DEF q
  <2>2. s[q] = x[k + 1] /\ x[k + 1] \in P
    BY <1>01, <1>1, <2>1
  <2>3. Begins(bb, t, off, q, s[q])
    BY <2>1, <2>2, ComesFromOne
  <2> QED
    BY <2>1, <2>2, <2>3 DEF Begins, N
<1>3. PICK i \in 1 .. N : off[i - 1] = p - 1 /\ bb[i] = <<t[i]>> /\ t[i] = x[1]
  <2>1. 0 \in Nat /\ 0 < m /\ p + 0 - 1 = p - 1 /\ 0 + 1 = 1
    BY <1>0
  <2> QED
    BY <1>2, <2>1
<1>4. off[i - 1] + 1 = p
  BY <1>3
<1> DEFINE Fits(k) == /\ i + k <= N
                      /\ off[i + k - 1] = p + k - 1
                      /\ bb[i + k] = <<t[i + k]>>
                      /\ t[i + k] = x[k + 1]
           Matched == {k \in Nat : k < m => Fits(k)}
<1>5. Matched = Nat
  <2>1. 0 \in Matched
    <3>1. i + 0 = i /\ p + 0 - 1 = p - 1 /\ 0 + 1 = 1 /\ i <= N
      BY <1>0
    <3> QED
      BY <1>3, <3>1
  <2>2. ASSUME NEW k \in Matched PROVE k + 1 \in Matched
    <3> DEFINE l == k + 1
               h == i + k
               j == i + l
    <3>0. k \in Nat /\ l \in Nat
      OBVIOUS
    <3> SUFFICES ASSUME l < m PROVE Fits(l)
      <4> HIDE DEF Fits
      <4> QED
        BY <3>0
    <3>1. h <= N /\ off[h - 1] = p + k - 1 /\ bb[h] = <<t[h]>>
      <4>1. Fits(k)
        <5> HIDE DEF Fits
        <5> QED
          BY <1>0, <3>0
      <4> QED
        BY <4>1
    <3>2. h \in 1 .. N /\ h \in 0 .. N /\ h = j - 1 /\ p + k - 1 + 1 = p + l - 1
      BY <1>0, <3>0, <3>1
    <3> HIDE DEF h, l, j, Matched
    <3>3. Len(bb[h]) = 1 /\ off[h] = off[h - 1] + Len(bb[h])
      BY <1>0, <3>1, <3>2 DEF Offsets, N
    <3>4. off[h] = p + l - 1
      BY <3>0, <3>1, <3>2, <3>3
    <3>5. PICK g \in 1 .. N : off[g - 1] = p + l - 1 /\ bb[g] = <<t[g]>> /\ t[g] = x[l + 1]
      BY <1>2, <3>0
    <3>6. g - 1 \in 0 .. N /\ off[g - 1] = off[h]
      BY <1>0, <3>4, <3>5
    <3>7. g - 1 = h
      BY <1>0, <3>2, <3>6, OffsetsDiffer DEF N
    <3>8. j = g
      <4>1. j \in Int
        BY <3>0 DEF j
      <4> QED
        BY <3>2, <3>7, <4>1
    <3>9. j <= N /\ off[j - 1] = p + l - 1 /\ bb[j] = <<t[j]>> /\ t[j] = x[l + 1]
      BY <1>0, <3>5, <3>8
    <3>10. i + l <= N /\ off[i + l - 1] = p + l - 1
      <4>1. j = i + l /\ j - 1 = i + l - 1
        BY <3>0 DEF j
      <4> QED
        BY <3>9, <4>1
    <3>11. bb[i + l] = <<t[i + l]>> /\ t[i + l] = x[l + 1]
      BY <3>9 DEF j
    <3> QED
      BY <3>10, <3>11
  <2> QED
    <3> HIDE DEF Matched
    <3> QED
      BY <2>1, <2>2, CountUp DEF Matched
<1>6. ASSUME NEW k \in 1 .. m
      PROVE  i + k - 1 <= N /\ bb[i + k - 1] = <<t[i + k - 1]>> /\ t[i + k - 1] = x[k]
  <2> DEFINE l == k - 1
  <2>1. l \in Nat /\ l < m /\ l + 1 = k /\ i + l = i + k - 1
    BY <1>0
  <2> HIDE DEF l
  <2>2. l \in Matched
    <3> HIDE DEF Matched
    <3> QED
      BY <1>5, <2>1
  <2> QED
    BY <2>1, <2>2
<1>7. i + m <= N + 1
  <2>1. m \in 1 .. m
    BY <1>0
  <2>2. i + m - 1 <= N
    BY <1>6, <2>1
  <2> QED
    BY <1>0, <2>2
<1>8. At(t, i, x)
  <2>1. i \in Nat \ {0}
    BY <1>0
  <2> QED
    BY <1>6, <1>7, <2>1, AtPoints DEF m, N
<1>9. Single(bb, t, i, m)
  <2>1. ASSUME NEW j \in i .. i + m - 1 PROVE bb[j] = <<t[j]>>
    <3> DEFINE k == j - i + 1
    <3>1. k \in 1 .. m /\ i + k - 1 = j
      BY <1>0
    <3> HIDE DEF k
    <3> QED
      BY <1>6, <3>1
  <2> QED
    BY <2>1 DEF Single
<1> QED
  BY <1>4, <1>8, <1>9 DEF Stood, m, N

LEMMA HoldsAlike ==
    ASSUME NEW X, NEW t \in Seq(X), NEW bb \in Seq(Seq(X)), Len(bb) = Len(t),
           NEW s \in Seq(X), NEW off, Laid(bb, s, off), NEW P, Apart(bb, t, P),
           NEW x \in Seq(X), Len(x) > 0, \A k \in 1 .. Len(x) : x[k] \in P
    PROVE  /\ Holds(s, x) => \E i \in 1 .. Len(t) : At(t, i, x) /\ Single(bb, t, i, Len(x))
           /\ (\E i \in 1 .. Len(t) : At(t, i, x) /\ Single(bb, t, i, Len(x))) => Holds(s, x)
<1>0. Len(t) \in Nat /\ Len(s) \in Nat /\ Len(x) \in Nat /\ DOMAIN s = 1 .. Len(s)
  OBVIOUS
<1>1. ASSUME NEW p \in DOMAIN s, At(s, p, x)
      PROVE  \E i \in 1 .. Len(t) : At(t, i, x) /\ Single(bb, t, i, Len(x))
  <2>1. p \in Nat \ {0}
    BY <1>0
  <2>2. Stood(bb, t, off, p, x)
    BY <1>1, <2>1, CameFrom
  <2> QED
    BY <2>2 DEF Stood
<1>2. ASSUME NEW i \in 1 .. Len(t), At(t, i, x), Single(bb, t, i, Len(x))
      PROVE  Holds(s, x)
  <2> DEFINE p == off[i - 1] + 1
  <2>1. At(s, p, x)
    BY <1>2, StaysAt
  <2>2. p \in Nat /\ p >= 1
    BY LaidEnds
  <2> HIDE DEF p
  <2>3. p + Len(x) <= Len(s) + 1
    BY <2>1 DEF At
  <2>4. p \in DOMAIN s
    BY <1>0, <2>2, <2>3
  <2> QED
    BY <2>1, <2>4 DEF Holds
<1> QED
  BY <1>1, <1>2 DEF Holds

\* What the escapes for Android leave alone, and do not write.
Kept == {"<", "/", "b", "u", ">", "]", "![CDATA[", "ctl"}

LEMMA AndroidKeeps ==
    ASSUME NEW X, Special \subseteq X, NEW t \in Seq(X)
    PROVE  /\ Apart(AndroidBlocks(t), t, Kept)
           /\ \A i \in 1 .. Len(t) : t[i] \in Kept => AndroidBlocks(t)[i] = <<t[i]>>
<1> SUFFICES ASSUME NEW i \in 1 .. Len(t)
             PROVE  /\ Len(AndroidBlocks(t)[i]) > 0
                    /\ \/ AndroidBlocks(t)[i] = <<t[i]>>
                       \/ \A k \in 1 .. Len(AndroidBlocks(t)[i]) : AndroidBlocks(t)[i][k] \notin Kept
                    /\ t[i] \in Kept => AndroidBlocks(t)[i] = <<t[i]>>
  BY DEF Apart
<1> DEFINE b == AndroidBlocks(t)[i]
           c == t[i]
           l == Letter(t[i])
<1>1. \/ c \in {"\n", "\t", "\\", "\"", "'", "@"} /\ b = <<"\\", l>> /\ l \in {"n", "t", "\\", "\"", "'", "@"}
      \/ b = <<c>>
  BY AndroidBlocksAre, AndroidImages
<1> HIDE DEF b, c, l
<1>2. CASE b = <<c>>
  BY <1>2 DEF b, c
<1>3. CASE c \in {"\n", "\t", "\\", "\"", "'", "@"} /\ b = <<"\\", l>> /\ l \in {"n", "t", "\\", "\"", "'", "@"}
  <2>0. \A k \in 1 .. 2 : k = 1 \/ k = 2
    OBVIOUS
  <2>00. Len(b) = 2 /\ b[1] = "\\" /\ b[2] = l
    BY <1>3
  <2>1. Len(b) = 2 /\ b[1] = "\\" /\ b[2] = l /\ \A k \in 1 .. 2 : k = 1 \/ k = 2
    BY <2>0, <2>00
  <2>2. "\\" \notin Kept /\ l \notin Kept /\ c \notin Kept
    BY <1>3 DEF Kept
  <2>3. Len(b) > 0 /\ (\A k \in 1 .. Len(b) : b[k] \notin Kept) /\ c \notin Kept
    BY <2>1, <2>2
  <2> QED
    BY <2>3 DEF b, c
<1> QED
  BY <1>1, <1>2, <1>3

LEMMA AndroidHolds ==
    ASSUME NEW X, Special \subseteq X, NEW t \in Seq(X),
           NEW x \in Seq(X), Len(x) > 0, \A k \in 1 .. Len(x) : x[k] \in Kept
    PROVE  Holds(EscapeAndroid(t), x) <=> Holds(t, x)
<1> DEFINE bb == AndroidBlocks(t)
           s == EscapeAndroid(t)
<1>1. /\ bb \in Seq(Seq(X)) /\ Len(bb) = Len(t) /\ FlattenSeq(bb) = s
      /\ Apart(bb, t, Kept) /\ \A i \in 1 .. Len(t) : t[i] \in Kept => bb[i] = <<t[i]>>
  BY AndroidBlocksAre, AndroidKeeps
<1> HIDE DEF bb, s
<1>2. s \in Seq(X) /\ \E off : Laid(bb, s, off)
  BY <1>1, LaidOut
<1>3. PICK off : Laid(bb, s, off)
  BY <1>2
<1>4. ASSUME NEW i \in 1 .. Len(t), At(t, i, x)
      PROVE  Single(bb, t, i, Len(x))
  <2>0. Len(t) \in Nat /\ Len(x) \in Nat /\ i \in Nat \ {0}
    OBVIOUS
  <2>1. i + Len(x) <= Len(t) + 1 /\ \A k \in 1 .. Len(x) : t[i + k - 1] = x[k]
    BY <1>4, <2>0, AtPoints
  <2>2. ASSUME NEW j \in i .. i + Len(x) - 1 PROVE bb[j] = <<t[j]>>
    <3> DEFINE k == j - i + 1
    <3>1. j \in 1 .. Len(t) /\ k \in 1 .. Len(x) /\ i + k - 1 = j
      BY <2>0, <2>1
    <3> HIDE DEF k
    <3> QED
      BY <1>1, <2>1, <3>1
  <2> QED
    BY <2>2 DEF Single
<1>5. /\ Holds(s, x) => \E i \in 1 .. Len(t) : At(t, i, x) /\ Single(bb, t, i, Len(x))
      /\ (\E i \in 1 .. Len(t) : At(t, i, x) /\ Single(bb, t, i, Len(x))) => Holds(s, x)
  BY <1>1, <1>2, <1>3, HoldsAlike
<1>6. DOMAIN t = 1 .. Len(t)
  OBVIOUS
<1> QED
  BY <1>4, <1>5, <1>6 DEF Holds, s

-----------------------------------------------------------------------------
(* Android: CDATA.                                                         *)

Joins(X, s, t, u) ==
    /\ u \in Seq(X)
    /\ Len(u) = Len(s) + Len(t)
    /\ \A p \in 1 .. Len(s) : u[p] = s[p]
    /\ \A k \in 1 .. Len(t) : u[Len(s) + k] = t[k]

LEMMA JoinsAre ==
    ASSUME NEW X, NEW s \in Seq(X), NEW t \in Seq(X)
    PROVE  Joins(X, s, t, s \o t)
BY Joining DEF Joins

LEMMA CDataEnds ==
    ASSUME NEW X, Special \subseteq X
    PROVE  /\ CDataOpen \in Seq(X) /\ Len(CDataOpen) = 2
           /\ CDataOpen[1] = "<" /\ CDataOpen[2] = "![CDATA["
           /\ CDataClose \in Seq(X) /\ Len(CDataClose) = 3
           /\ CDataClose[1] = "]" /\ CDataClose[2] = "]" /\ CDataClose[3] = ">"
<1>1. "<" \in X /\ "![CDATA[" \in X /\ "]" \in X /\ ">" \in X
  BY DEF Special
<1> QED
  BY <1>1, Pair, Triple DEF CDataOpen, CDataClose

LEMMA Wrapped ==
    ASSUME NEW X, Special \subseteq X, NEW e \in Seq(X), NEW w, w = CDataOpen \o e \o CDataClose
    PROVE  IsPrefix(CDataOpen, w) /\ SubSeq(w, 3, Len(w) - 3) = e
<1> DEFINE a == CDataOpen
           c == CDataClose
           u == a \o e
           m == Len(e)
<1>1. a \in Seq(X) /\ Len(a) = 2 /\ c \in Seq(X) /\ Len(c) = 3 /\ m \in Nat
  BY CDataEnds
<1>2. w = u \o c
  OBVIOUS
<1> HIDE DEF a, c, m
<1>3. /\ u \in Seq(X) /\ Len(u) = 2 + m
      /\ \A p \in 1 .. 2 : u[p] = a[p]
      /\ \A k \in 1 .. m : u[2 + k] = e[k]
  <2>0. Joins(X, a, e, a \o e)
    BY <1>1, JoinsAre
  <2>1. /\ a \o e \in Seq(X)
        /\ Len(a \o e) = Len(a) + Len(e)
        /\ \A p \in 1 .. Len(a) : (a \o e)[p] = a[p]
        /\ \A k \in 1 .. Len(e) : (a \o e)[Len(a) + k] = e[k]
    BY <2>0 DEF Joins
  <2> DEFINE s == a \o e
  <2> HIDE DEF s
  <2>2. s \in Seq(X) /\ Len(s) = 2 + m
    BY <1>1, <2>1 DEF s, m
  <2>3. (\A p \in 1 .. 2 : s[p] = a[p]) /\ \A k \in 1 .. m : s[2 + k] = e[k]
    BY <1>1, <2>1 DEF s, m
  <2> QED
    BY <2>2, <2>3 DEF s
<1> HIDE DEF u
<1>4. /\ w \in Seq(X) /\ Len(w) = m + 5
      /\ \A p \in 1 .. m + 2 : w[p] = u[p]
  <2>1. /\ u \o c \in Seq(X)
        /\ Len(u \o c) = Len(u) + Len(c)
        /\ \A p \in 1 .. Len(u) : (u \o c)[p] = u[p]
    <3>1. Joins(X, u, c, u \o c)
      BY <1>1, <1>3, JoinsAre
    <3> QED
      BY <3>1 DEF Joins
  <2>2. w \in Seq(X) /\ Len(w) = Len(u) + Len(c) /\ \A p \in 1 .. Len(u) : w[p] = u[p]
    BY <1>2, <2>1
  <2>3. Len(u) = m + 2 /\ Len(u) + Len(c) = m + 5
    BY <1>1, <1>3
  <2> QED
    BY <2>2, <2>3
<1>5. \A p \in 1 .. 2 : w[p] = a[p]
  <2>1. \A p \in 1 .. 2 : p \in 1 .. m + 2
    BY <1>1
  <2> QED
    BY <1>3, <1>4, <2>1
<1>6. \A k \in 1 .. m : w[2 + k] = e[k]
  <2> TAKE k \in 1 .. m
  <2> DEFINE p == 2 + k
  <2>1. p \in 1 .. m + 2
    BY <1>1
  <2>2. u[p] = e[k]
    BY <1>3
  <2> HIDE DEF p
  <2>3. w[p] = u[p]
    BY <1>4, <2>1
  <2> QED
    BY <2>2, <2>3 DEF p
<1>7. At(w, 1, a) /\ At(w, 3, e)
  <2>1. \A k \in 1 .. 2 : w[1 + k - 1] = a[k]
    <3> TAKE k \in 1 .. 2
    <3>1. 1 + k - 1 = k
      OBVIOUS
    <3> QED
      BY <1>5, <3>1
  <2>2. \A k \in 1 .. m : w[3 + k - 1] = e[k]
    <3> TAKE k \in 1 .. m
    <3>1. 3 + k - 1 = 2 + k
      BY <1>1
    <3> QED
      BY <1>6, <3>1
  <2>3. 1 + 2 <= Len(w) + 1 /\ 3 + m <= Len(w) + 1
    BY <1>1, <1>4
  <2>4. At(w, 1, a)
    <3>1. Matches(w, 1, a) /\ 1 \in Nat \ {0}
      BY <1>1, <2>1, <2>3 DEF Matches
    <3> QED
      BY <1>1, <1>4, <3>1, AtMatches
  <2>5. At(w, 3, e)
    <3>1. Matches(w, 3, e) /\ 3 \in Nat \ {0}
      BY <1>1, <2>2, <2>3 DEF Matches, m
    <3> QED
      BY <1>4, <3>1, AtMatches
  <2> QED
    BY <2>4, <2>5
<1>8. IsPrefix(a, w)
  <2>1. 1 + Len(a) - 1 = Len(a) /\ Len(a) <= Len(w)
    BY <1>1, <1>4
  <2>2. SubSeq(w, 1, Len(a)) = a
    BY <1>7, <2>1 DEF At
  <2>3. SubSeq(a, 1, Len(a)) = a
    BY <1>1, SubSeqFull
  <2> QED
    BY <2>1, <2>2, <2>3 DEF IsPrefix
<1>9. SubSeq(w, 3, Len(w) - 3) = e
  <2>1. 3 + m - 1 = Len(w) - 3
    BY <1>1, <1>4
  <2>2. SubSeq(w, 3, 3 + m - 1) = e
    BY <1>7 DEF At, m
  <2> QED
    BY <2>1, <2>2
<1> QED
  BY <1>8, <1>9 DEF a

LEMMA HoldsOne ==
    ASSUME NEW X, NEW t \in Seq(X), NEW c \in X
    PROVE  Holds(t, <<c>>) <=> c \in Range(t)
<1>0. <<c>> \in Seq(X) /\ Len(<<c>>) = 1 /\ <<c>>[1] = c /\ Len(t) \in Nat /\ DOMAIN t = 1 .. Len(t)
  OBVIOUS
<1>1. ASSUME NEW i \in DOMAIN t PROVE At(t, i, <<c>>) <=> t[i] = c
  <2>1. i \in Nat \ {0} /\ i + 1 <= Len(t) + 1 /\ i + 1 - 1 = i
    BY <1>0
  <2>2. At(t, i, <<c>>) <=> Matches(t, i, <<c>>)
    BY <1>0, <2>1, AtMatches
  <2>3. \A k \in 1 .. 1 : k = 1
    OBVIOUS
  <2>4. Matches(t, i, <<c>>) <=> i + 1 <= Len(t) + 1 /\ \A k \in 1 .. 1 : t[i + k - 1] = <<c>>[k]
    BY <1>0 DEF Matches
  <2> QED
    BY <1>0, <2>1, <2>2, <2>3, <2>4
<1> QED
  BY <1>1 DEF Holds, Range

\* A text in a CDATA section is read back, unless it would end that section, open
\* one of its own or has a control character: no reader takes such a file.
LEMMA CDataIsRead ==
    ASSUME NEW X, Special \subseteq X, NEW t \in Seq(X)
    PROVE  ReadXML(WriteCData(t)) =
               IF "ctl" \in Range(t) \/ Holds(t, CDataOpen) \/ Holds(t, CDataClose)
               THEN <<Refused>> ELSE t
<1> DEFINE e == EscapeAndroid(t)
           w == WriteCData(t)
<1>1. e \in Seq(X) /\ UnescapeAndroid(e) = t
  BY AndroidIsRead
<1>2. w = CDataOpen \o e \o CDataClose
  BY DEF WriteCData
<1> HIDE DEF e, w
<1>3. IsPrefix(CDataOpen, w) /\ SubSeq(w, 3, Len(w) - 3) = e
  BY <1>1, <1>2, Wrapped
<1>4. Holds(e, <<"ctl">>) <=> "ctl" \in Range(t)
  <2>1. "ctl" \in X /\ "ctl" \in Kept
    BY DEF Special, Kept
  <2>2. <<"ctl">> \in Seq(X) /\ Len(<<"ctl">>) > 0 /\ \A k \in 1 .. Len(<<"ctl">>) : <<"ctl">>[k] \in Kept
    BY <2>1
  <2>3. Holds(e, <<"ctl">>) <=> Holds(t, <<"ctl">>)
    BY <2>2, AndroidHolds DEF e
  <2> QED
    BY <2>1, <2>3, HoldsOne
<1>5. Holds(e, CDataOpen) <=> Holds(t, CDataOpen)
  <2> DEFINE x == CDataOpen
  <2>1. x \in Seq(X) /\ Len(x) = 2 /\ x[1] = "<" /\ x[2] = "![CDATA["
    BY CDataEnds
  <2> HIDE DEF x
  <2>2. \A k \in 1 .. Len(x) : k = 1 \/ k = 2
    BY <2>1
  <2>3. Len(x) > 0 /\ \A k \in 1 .. Len(x) : x[k] \in Kept
    BY <2>1, <2>2 DEF Kept
  <2>4. Holds(e, x) <=> Holds(t, x)
    BY <2>1, <2>3, AndroidHolds DEF e
  <2> QED
    BY <2>4 DEF x
<1>6. Holds(e, CDataClose) <=> Holds(t, CDataClose)
  <2> DEFINE x == CDataClose
  <2>1. x \in Seq(X) /\ Len(x) = 3 /\ x[1] = "]" /\ x[2] = "]" /\ x[3] = ">"
    BY CDataEnds
  <2> HIDE DEF x
  <2>2. \A k \in 1 .. Len(x) : k = 1 \/ k = 2 \/ k = 3
    BY <2>1
  <2>3. Len(x) > 0 /\ \A k \in 1 .. Len(x) : x[k] \in Kept
    BY <2>1, <2>2 DEF Kept
  <2>4. Holds(e, x) <=> Holds(t, x)
    BY <2>1, <2>3, AndroidHolds DEF e
  <2> QED
    BY <2>4 DEF x
<1>7. ReadXML(w) = IF Holds(e, <<"ctl">>) \/ Holds(e, CDataOpen) \/ Holds(e, CDataClose)
                   THEN <<Refused>> ELSE UnescapeAndroid(e)
  BY <1>3 DEF ReadXML
<1> QED
  BY <1>1, <1>4, <1>5, <1>6, <1>7 DEF w

-----------------------------------------------------------------------------
(* Replacing.                                                              *)

Span(t, i, old) == IF At(t, i, old) THEN Len(old) ELSE 1
Copy(t, i, old, new) == IF At(t, i, old) THEN new ELSE <<t[i]>>

\* f[i] is what becomes of t from i on.
Replacing(f, t, old, new) ==
    /\ Replaced(t, old, new) = f[1]
    /\ f[Len(t) + 1] = <<>>
    /\ \A i \in 1 .. Len(t) : f[i] = Copy(t, i, old, new) \o f[i + Span(t, i, old)]

LEMMA ReplacedEquation ==
    ASSUME NEW X, NEW t \in Seq(X), NEW old \in Seq(X), NEW new \in Seq(X), Len(old) > 0
    PROVE  \E f \in [1 .. Len(t) + 1 -> Seq(X)] : Replacing(f, t, old, new)
<1> DEFINE L == Len(t)
           read == [i \in 1 .. L |-> Copy(t, i, old, new)]
           width == [i \in 1 .. L |-> Span(t, i, old)]
<1>1. /\ L \in Nat
      /\ read \in [1 .. L -> Seq(X)] /\ width \in [1 .. L -> Nat \ {0}]
      /\ \A i \in 1 .. L : i + width[i] <= L + 1
  <2>1. L \in Nat /\ Len(old) \in Nat
    OBVIOUS
  <2>2. ASSUME NEW i \in 1 .. L
        PROVE  Copy(t, i, old, new) \in Seq(X)
    <3> DEFINE c == t[i]
    <3>1. c \in X
      OBVIOUS
    <3> HIDE DEF c
    <3>2. <<c>> \in Seq(X)
      BY <3>1
    <3> QED
      BY <3>2 DEF Copy, c
  <2>3. ASSUME NEW i \in 1 .. L
        PROVE  Span(t, i, old) \in Nat \ {0} /\ i + Span(t, i, old) <= L + 1
    BY <2>1 DEF Span, At
  <2> HIDE DEF L
  <2> QED
    BY <2>1, <2>2, <2>3
<1>2. PICK f : Pass(f, L, read, width)
  <2> HIDE DEF L, read, width
  <2> QED
    BY <1>1, PassExists
<1> DEFINE Nested(e) ==
        [i \in 1 .. Len(t) + 1 |->
            IF i > Len(t) THEN <<>>
            ELSE IF At(t, i, old) THEN new \o e[i + Len(old)]
            ELSE <<t[i]>> \o e[i + 1]]
<1>3. ASSUME NEW e, NEW i \in 1 .. L
      PROVE  Nested(e)[i] = read[i] \o e[i + width[i]]
  <2>1. i \in 1 .. L + 1 /\ ~(i > L)
    BY <1>1
  <2>2. read[i] = Copy(t, i, old, new) /\ width[i] = Span(t, i, old)
    OBVIOUS
  <2>3. Nested(e)[i] = Copy(t, i, old, new) \o e[i + Span(t, i, old)]
    BY <2>1 DEF Copy, Span
  <2> QED
    BY <2>2, <2>3
<1>4. ASSUME NEW e PROVE Nested(e)[L + 1] = <<>>
  <2>1. L + 1 \in 1 .. L + 1 /\ L + 1 > L
    BY <1>1
  <2> QED
    BY <2>1
<1> DEFINE F == CHOOSE e : e = Nested(e)
<1>5. Replaced(t, old, new) = F[1]
  BY DEF Replaced
<1>6. F = Nested(F)
  <2>1. \A i \in 1 .. L + 1 : f[i] = Nested(f)[i]
    <3>1. \A i \in 1 .. L + 1 : i \in 1 .. L \/ i = L + 1
      BY <1>1
    <3> HIDE DEF Nested, L, read, width
    <3> QED
      BY <1>2, <1>3, <1>4, <3>1 DEF Pass
  <2> DEFINE g == Nested(f)
  <2>2. g = [i \in 1 .. L + 1 |-> g[i]]
    OBVIOUS
  <2>3. f = [i \in 1 .. L + 1 |-> f[i]]
    BY <1>2 DEF Pass
  <2>4. f = g
    <3> HIDE DEF g, L
    <3>1. \A i \in 1 .. L + 1 : f[i] = g[i]
      BY <2>1 DEF g
    <3>2. [i \in 1 .. L + 1 |-> f[i]] = [i \in 1 .. L + 1 |-> g[i]]
      BY <3>1
    <3> QED
      BY <2>2, <2>3, <3>2
  <2> HIDE DEF Nested
  <2>5. f = Nested(f)
    BY <2>4 DEF g
  <2> QED
    BY <2>5
<1> HIDE DEF F
<1>7. Pass(F, L, read, width)
  <2>1. F = [i \in 1 .. L + 1 |-> F[i]]
    <3> DEFINE g == Nested(F)
    <3>1. g = [i \in 1 .. L + 1 |-> g[i]]
      OBVIOUS
    <3> HIDE DEF g, L
    <3>2. F = g
      BY <1>6 DEF g
    <3> QED
      BY <3>1, <3>2
  <2> HIDE DEF Nested, L, read, width
  <2> QED
    BY <1>3, <1>4, <1>6, <2>1 DEF Pass
<1>8. F \in [1 .. L + 1 -> Seq(X)]
  <2> HIDE DEF L, read, width
  <2> QED
    BY <1>1, <1>7, PassTyped
<1>9. ASSUME NEW i \in 1 .. L PROVE F[i] = Copy(t, i, old, new) \o F[i + Span(t, i, old)]
  <2>1. F[i] = read[i] \o F[i + width[i]]
    <3> HIDE DEF L, read, width
    <3> QED
      BY <1>7 DEF Pass
  <2> QED
    BY <2>1
<1> QED
  BY <1>5, <1>7, <1>8, <1>9 DEF Pass, Replacing

\* A character is something else, or is replaced.
LEMMA ReplacedOne ==
    ASSUME NEW X, NEW c \in X, NEW d \in X, NEW new \in Seq(X)
    PROVE  Replaced(<<c>>, <<d>>, new) = IF c = d THEN new ELSE <<c>>
<1> DEFINE t == <<c>>
           old == <<d>>
<1>1. t \in Seq(X) /\ old \in Seq(X) /\ Len(t) = 1 /\ Len(old) = 1 /\ t[1] = c /\ old[1] = d
  OBVIOUS
<1> HIDE DEF t, old
<1>2. PICK f \in [1 .. Len(t) + 1 -> Seq(X)] : Replacing(f, t, old, new)
  <2>1. Len(old) > 0
    BY <1>1
  <2> QED
    BY <1>1, <2>1, ReplacedEquation
<1>3. At(t, 1, old) <=> c = d
  <2>1. At(t, 1, old) <=> Matches(t, 1, old)
    BY <1>1, AtMatches
  <2>2. Matches(t, 1, old) <=> \A k \in 1 .. 1 : t[1 + k - 1] = old[k]
    BY <1>1 DEF Matches
  <2>3. 1 + 1 - 1 = 1 /\ \A k \in 1 .. 1 : k = 1
    OBVIOUS
  <2> QED
    BY <1>1, <2>1, <2>2, <2>3
<1>4. f[2] = <<>> /\ 1 \in 1 .. Len(t) /\ Span(t, 1, old) = 1
  <2>1. Len(t) + 1 = 2 /\ 1 \in 1 .. Len(t)
    BY <1>1
  <2>2. f[2] = <<>>
    BY <1>2, <2>1 DEF Replacing
  <2> QED
    BY <1>1, <2>1, <2>2 DEF Span
<1>5. f[1] = Copy(t, 1, old, new) \o f[2]
  <2>1. f[1] = Copy(t, 1, old, new) \o f[1 + Span(t, 1, old)]
    BY <1>2, <1>4 DEF Replacing
  <2>2. 1 + Span(t, 1, old) = 2
    BY <1>4
  <2> QED
    BY <2>1, <2>2
<1>6. Copy(t, 1, old, new) = IF c = d THEN new ELSE <<c>>
  BY <1>1, <1>3 DEF Copy
<1>7. Copy(t, 1, old, new) \in Seq(X)
  <2>1. <<c>> \in Seq(X)
    OBVIOUS
  <2> QED
    BY <1>6, <2>1
<1>8. f[1] = Copy(t, 1, old, new)
  BY <1>4, <1>5, <1>7, EmptyLast
<1> QED
  BY <1>2, <1>6, <1>8 DEF Replacing, t, old

LEMMA PairJoins ==
    ASSUME NEW X, NEW a \in X, NEW b \in X
    PROVE  <<a>> \o <<b>> = <<a, b>>
<1> DEFINE s == <<a>>
           t == <<b>>
           u == s \o t
           v == <<a, b>>
<1>1. s \in Seq(X) /\ t \in Seq(X) /\ Len(s) = 1 /\ Len(t) = 1 /\ s[1] = a /\ t[1] = b
  OBVIOUS
<1>2. v \in Seq(X) /\ Len(v) = 2 /\ v[1] = a /\ v[2] = b
  BY Pair
<1> HIDE DEF s, t, v
<1>3. Joins(X, s, t, s \o t)
  BY <1>1, JoinsAre
<1>4. u \in Seq(X) /\ Len(u) = 1 + 1 /\ u[1] = s[1] /\ u[1 + 1] = t[1]
  <2>1. 1 \in 1 .. Len(s) /\ 1 \in 1 .. Len(t)
    BY <1>1
  <2> HIDE DEF u
  <2>2. Joins(X, s, t, u)
    BY <1>3 DEF u
  <2> QED
    BY <1>1, <2>1, <2>2 DEF Joins
<1> HIDE DEF u
<1>5. \A k \in 1 .. Len(u) : u[k] = v[k]
  <2>1. \A k \in 1 .. 2 : k = 1 \/ k = 2
    OBVIOUS
  <2>2. 1 + 1 = 2
    OBVIOUS
  <2> QED
    BY <1>1, <1>2, <1>4, <2>1, <2>2
<1>6. u = v
  BY <1>2, <1>4, <1>5, SeqEqual
<1> QED
  BY <1>6 DEF u, v, s, t

LEMMA ReplacedPair ==
    ASSUME NEW X, NEW a \in X, NEW b \in X, NEW d \in X, a # d, b # d, NEW new \in Seq(X)
    PROVE  Replaced(<<a, b>>, <<d>>, new) = <<a, b>>
<1> DEFINE t == <<a, b>>
           old == <<d>>
<1>1. t \in Seq(X) /\ old \in Seq(X) /\ Len(t) = 2 /\ Len(old) = 1 /\ t[1] = a /\ t[2] = b /\ old[1] = d
  OBVIOUS
<1> HIDE DEF t, old
<1>2. PICK f \in [1 .. Len(t) + 1 -> Seq(X)] : Replacing(f, t, old, new)
  <2>1. Len(old) > 0
    BY <1>1
  <2> QED
    BY <1>1, <2>1, ReplacedEquation
<1>3. ASSUME NEW i \in 1 .. 2 PROVE ~At(t, i, old)
  <2>1. At(t, i, old) <=> Matches(t, i, old)
    BY <1>1, AtMatches
  <2>2. t[i] # d
    BY <1>1
  <2>3. i + 1 - 1 = i /\ 1 \in 1 .. Len(old)
    BY <1>1
  <2> QED
    BY <1>1, <2>1, <2>2, <2>3 DEF Matches
<1>4. f[3] = <<>> /\ f[2] = <<b>> \o f[3] /\ f[1] = <<a>> \o f[2]
  <2>1. Len(t) + 1 = 3 /\ 1 \in 1 .. Len(t) /\ 2 \in 1 .. Len(t) /\ 1 \in 1 .. 2 /\ 2 \in 1 .. 2
    BY <1>1
  <2>2. /\ f[3] = <<>>
        /\ f[2] = Copy(t, 2, old, new) \o f[2 + Span(t, 2, old)]
        /\ f[1] = Copy(t, 1, old, new) \o f[1 + Span(t, 1, old)]
    BY <1>2, <2>1 DEF Replacing
  <2>3. /\ Span(t, 1, old) = 1 /\ Span(t, 2, old) = 1
        /\ Copy(t, 1, old, new) = <<a>> /\ Copy(t, 2, old, new) = <<b>>
    BY <1>1, <1>3, <2>1 DEF Span, Copy
  <2>4. 1 + Span(t, 1, old) = 2 /\ 2 + Span(t, 2, old) = 3
    BY <2>3
  <2> QED
    BY <2>2, <2>3, <2>4
<1>5. f[1] = <<a, b>>
  <2>1. <<b>> \in Seq(X)
    OBVIOUS
  <2>2. f[2] = <<b>>
    BY <1>4, <2>1, EmptyLast
  <2>3. <<a>> \o <<b>> = <<a, b>>
    BY PairJoins
  <2> QED
    BY <1>4, <2>2, <2>3
<1> QED
  BY <1>2, <1>5 DEF Replacing, t, old

LEMMA Prefixed ==
    ASSUME NEW X, NEW a \in X, NEW b \in X, NEW r \in Seq(X), NEW s, s = <<b>> \o r,
           NEW t, t = <<a>> \o s
    PROVE  t = <<a, b>> \o r
<1> DEFINE u == <<a>>
           v == <<b>>
           w == <<a, b>>
<1>1. u \in Seq(X) /\ v \in Seq(X)
  OBVIOUS
<1>2. w = u \o v
  BY PairJoins
<1> HIDE DEF u, v, w
<1>3. (u \o v) \o r = u \o (v \o r)
  BY <1>1
<1>4. t = u \o (v \o r)
  BY DEF u, v
<1>5. t = w \o r
  BY <1>2, <1>3, <1>4
<1> QED
  BY <1>5 DEF w

\* Blocks that are entities, or a character but &.
Entities(bb) ==
    \A i \in 1 .. Len(bb) :
        \/ \E c : c # "&" /\ bb[i] = <<c>>
        \/ \E y : y # "&" /\ bb[i] = <<"&", y>>

\* Replacing an entity replaces the blocks that are this entity.
Swapped(bb, cc, e, new) ==
    /\ Len(cc) = Len(bb)
    /\ \A i \in 1 .. Len(bb) : cc[i] = IF bb[i] = <<"&", e>> THEN new ELSE bb[i]

LEMMA EntitiesReplaced ==
    ASSUME NEW X, "&" \in X, NEW bb \in Seq(Seq(X)), Entities(bb), NEW e \in X,
           NEW new \in Seq(X), NEW cc \in Seq(Seq(X)), Swapped(bb, cc, e, new)
    PROVE  Replaced(FlattenSeq(bb), <<"&", e>>, new) = FlattenSeq(cc)
<1> DEFINE old == <<"&", e>>
           s == FlattenSeq(bb)
<1>1. old \in Seq(X) /\ Len(old) = 2 /\ old[1] = "&" /\ old[2] = e
  BY Pair
<1>2. Len(cc) = Len(bb) /\ \A i \in 1 .. Len(bb) : cc[i] = IF bb[i] = old THEN new ELSE bb[i]
  BY DEF Swapped
<1>3. \A c, y : <<c>> # old /\ (<<"&", y>> = old <=> y = e)
  OBVIOUS
<1> HIDE DEF old
<1>4. s \in Seq(X) /\ \E off : Laid(bb, s, off)
  BY LaidOut
<1> HIDE DEF s
<1>5. PICK off : Laid(bb, s, off)
  BY <1>4
<1>6. PICK f \in [1 .. Len(s) + 1 -> Seq(X)] : Replacing(f, s, old, new)
  <2>1. Len(old) > 0
    BY <1>1
  <2> QED
    BY <1>1, <1>4, <2>1, ReplacedEquation
<1>7. \A p \in 1 .. Len(s) : f[p] = Copy(s, p, old, new) \o f[p + Span(s, p, old)]
  BY <1>6 DEF Replacing
<1>8. \A p \in 1 .. Len(s) : At(s, p, old) <=> p + 2 <= Len(s) + 1 /\ s[p] = "&" /\ s[p + 1] = e
  <2> TAKE p \in 1 .. Len(s)
  <2>1. p \in Nat \ {0} /\ p + 1 - 1 = p /\ p + 2 - 1 = p + 1 /\ \A k \in 1 .. 2 : k = 1 \/ k = 2
    BY <1>4
  <2>2. At(s, p, old) <=> Matches(s, p, old)
    BY <1>1, <1>4, <2>1, AtMatches
  <2>3. Matches(s, p, old) <=> /\ p + 2 <= Len(s) + 1
                               /\ \A k \in 1 .. 2 : s[p + k - 1] = old[k]
    BY <1>1 DEF Matches
  <2>4. (\A k \in 1 .. 2 : s[p + k - 1] = old[k]) <=> s[p] = "&" /\ s[p + 1] = e
    <3>1. 1 \in 1 .. 2 /\ 2 \in 1 .. 2
      OBVIOUS
    <3> QED
      BY <1>1, <2>1, <3>1
  <2> QED
    BY <2>2, <2>3, <2>4
<1>9. ASSUME NEW p \in 1 .. Len(s), ~At(s, p, old)
      PROVE  f[p] = <<s[p]>> \o f[p + 1]
  BY <1>7, <1>9 DEF Copy, Span
<1>10. ASSUME NEW p \in 1 .. Len(s), At(s, p, old)
       PROVE  f[p] = new \o f[p + 2]
  BY <1>1, <1>7, <1>10 DEF Copy, Span
<1>11. ASSUME NEW i \in 1 .. Len(bb)
       PROVE  f[off[i - 1] + 1] = cc[i] \o f[off[i] + 1]
  <2> DEFINE p == off[i - 1] + 1
  <2>0. /\ p \in Nat /\ p >= 1 /\ off[i - 1] \in Nat /\ Len(bb[i]) \in Nat /\ Len(s) \in Nat
        /\ off[i] + 1 = p + Len(bb[i]) /\ p + Len(bb[i]) <= Len(s) + 1
    <3> DEFINE a == off[i - 1]
               b == off[i]
               n == Len(bb[i])
    <3>1. i \in 0 .. Len(bb)
      OBVIOUS
    <3>2. a \in Nat /\ n \in Nat /\ b = a + n /\ b <= Len(s) /\ Len(s) \in Nat
      BY <1>5, <3>1, LaidEnds
    <3> HIDE DEF a, b, n
    <3>3. a + 1 \in Nat /\ a + 1 >= 1 /\ b + 1 = a + 1 + n /\ a + 1 + n <= Len(s) + 1
      BY <3>2
    <3> QED
      BY <3>2, <3>3 DEF a, b, n
  <2>1. \A k \in 1 .. Len(bb[i]) : s[off[i - 1] + k] = bb[i][k]
    BY <1>5 DEF Laid
  <2>2. off[i - 1] + 1 = p /\ off[i - 1] + 2 = p + 1
    BY <2>0
  <2> HIDE DEF p
  <2>3. CASE \E c : c # "&" /\ bb[i] = <<c>>
    <3>1. PICK c : c # "&" /\ bb[i] = <<c>>
      BY <2>3
    <3>2. Len(bb[i]) = 1 /\ bb[i][1] = c /\ 1 \in 1 .. 1
      BY <3>1
    <3>3. s[p] = c
      BY <2>1, <2>2, <3>2
    <3>4. p \in 1 .. Len(s) /\ off[i] + 1 = p + 1
      BY <2>0, <3>2
    <3>5. ~At(s, p, old)
      BY <1>8, <3>1, <3>3, <3>4
    <3>6. f[p] = <<c>> \o f[p + 1]
      BY <1>9, <3>3, <3>4, <3>5
    <3>7. cc[i] = <<c>>
      BY <1>2, <1>3, <3>1
    <3> QED
      BY <3>4, <3>6, <3>7 DEF p
  <2>4. CASE \E y : y # "&" /\ bb[i] = <<"&", y>>
    <3>1. PICK y : y # "&" /\ bb[i] = <<"&", y>>
      BY <2>4
    <3>2. Len(bb[i]) = 2 /\ bb[i][1] = "&" /\ bb[i][2] = y /\ 1 \in 1 .. 2 /\ 2 \in 1 .. 2
      BY <3>1
    <3>3. s[p] = "&" /\ s[p + 1] = y
      BY <2>1, <2>2, <3>2
    <3>4. p \in 1 .. Len(s) /\ p + 1 \in 1 .. Len(s) /\ p + 2 <= Len(s) + 1 /\ off[i] + 1 = p + 2
          /\ p + 1 + 1 = p + 2
      BY <2>0, <3>2
    <3>5. CASE y = e
      <4>1. At(s, p, old)
        BY <1>8, <3>3, <3>4, <3>5
      <4>2. f[p] = new \o f[p + 2]
        BY <1>10, <3>4, <4>1
      <4>3. cc[i] = new
        BY <1>2, <1>3, <3>1, <3>5
      <4> QED
        BY <3>4, <4>2, <4>3 DEF p
    <3>6. CASE y # e
      <4>1. ~At(s, p, old) /\ ~At(s, p + 1, old)
        BY <1>8, <3>1, <3>3, <3>4, <3>6
      <4>2. f[p] = <<"&">> \o f[p + 1]
        BY <1>9, <3>3, <3>4, <4>1
      <4> DEFINE q == p + 1
      <4>3. f[q] = <<y>> \o f[p + 2]
        <5>1. q \in 1 .. Len(s) /\ s[q] = y /\ q + 1 = p + 2 /\ ~At(s, q, old)
          BY <3>3, <3>4, <4>1
        <5> HIDE DEF q
        <5> QED
          BY <1>9, <5>1
      <4>4. cc[i] = <<"&", y>>
        BY <1>2, <1>3, <3>1, <3>6
      <4>5. f[p] = <<"&", y>> \o f[p + 2]
        <5>1. y \in X /\ p + 2 \in 1 .. Len(s) + 1
          <6>1. bb[i] \in Seq(X)
            OBVIOUS
          <6>2. y \in X
            BY <3>2, <6>1
          <6> QED
            BY <2>0, <3>4, <6>2
        <5>2. f[p + 2] \in Seq(X)
          BY <5>1
        <5> QED
          BY <4>2, <4>3, <5>1, <5>2, Prefixed
      <4> QED
        BY <3>4, <4>4, <4>5 DEF p
    <3> QED
      BY <3>5, <3>6
  <2> QED
    BY <2>3, <2>4 DEF Entities
<1>12. Passing(bb, cc, off, f, X)
  <2>1. \A i \in 0 .. Len(bb) : f[off[i] + 1] \in Seq(X)
    BY <1>5, LaidEnds
  <2>2. f[off[Len(bb)] + 1] = <<>>
    <3>1. Len(s) = off[Len(bb)] /\ f[Len(s) + 1] = <<>>
      BY <1>5, <1>6 DEF Laid, Replacing
    <3> QED
      BY <3>1
  <2> QED
    BY <1>11, <2>1, <2>2 DEF Passing
<1>13. f[1] = FlattenSeq(cc)
  <2>1. Offsets(bb, off)
    BY <1>5 DEF Laid
  <2> QED
    BY <1>2, <1>12, <2>1, PassesBlocks
<1> QED
  BY <1>6, <1>13 DEF Replacing, old, s

-----------------------------------------------------------------------------
(* Android: XML.                                                           *)

LEMMA EscapedXML ==
    ASSUME NEW X, Special \subseteq X, NEW c \in X
    PROVE  /\ c = "&" => EscapeXML(<<c>>) = <<"&", "amp;">>
           /\ c = "<" => EscapeXML(<<c>>) = <<"&", "lt;">>
           /\ c = ">" => EscapeXML(<<c>>) = <<"&", "gt;">>
           /\ c \notin {"&", "<", ">"} => EscapeXML(<<c>>) = <<c>>
<1>0. "&" \in X /\ "<" \in X /\ ">" \in X /\ "amp;" \in X /\ "lt;" \in X /\ "gt;" \in X
  BY DEF Special
<1> DEFINE amp == <<"&", "amp;">>
           lt == <<"&", "lt;">>
           gt == <<"&", "gt;">>
<1>1. amp \in Seq(X) /\ lt \in Seq(X) /\ gt \in Seq(X)
  BY <1>0, Pair
<1>2. /\ Replaced(amp, <<"<">>, lt) = amp /\ Replaced(amp, <<">">>, gt) = amp
      /\ Replaced(lt, <<">">>, gt) = lt
  <2> HIDE DEF lt, gt
  <2>1. Replaced(<<"&", "amp;">>, <<"<">>, lt) = <<"&", "amp;">>
    <3>1. "&" \in X /\ "amp;" \in X /\ "<" \in X /\ lt \in Seq(X)
      BY <1>0, <1>1
    <3>2. "&" # "<" /\ "amp;" # "<"
      OBVIOUS
    <3> QED
      BY <3>1, <3>2, ReplacedPair
  <2>2. Replaced(<<"&", "amp;">>, <<">">>, gt) = <<"&", "amp;">>
    <3>1. "&" \in X /\ "amp;" \in X /\ ">" \in X /\ gt \in Seq(X)
      BY <1>0, <1>1
    <3>2. "&" # ">" /\ "amp;" # ">"
      OBVIOUS
    <3> QED
      BY <3>1, <3>2, ReplacedPair
  <2>3. Replaced(<<"&", "lt;">>, <<">">>, gt) = <<"&", "lt;">>
    <3>1. "&" \in X /\ "lt;" \in X /\ ">" \in X /\ gt \in Seq(X)
      BY <1>0, <1>1
    <3>2. "&" # ">" /\ "lt;" # ">"
      OBVIOUS
    <3> QED
      BY <3>1, <3>2, ReplacedPair
  <2> QED
    BY <2>1, <2>2, <2>3 DEF lt
<1> HIDE DEF amp, lt, gt
<1>3. EscapeXML(<<c>>) =
          Replaced(Replaced(Replaced(<<c>>, <<"&">>, amp), <<"<">>, lt), <<">">>, gt)
  BY DEF EscapeXML, amp, lt, gt
<1>4. /\ Replaced(<<c>>, <<"&">>, amp) = IF c = "&" THEN amp ELSE <<c>>
      /\ Replaced(<<c>>, <<"<">>, lt) = IF c = "<" THEN lt ELSE <<c>>
      /\ Replaced(<<c>>, <<">">>, gt) = IF c = ">" THEN gt ELSE <<c>>
  BY <1>0, <1>1, ReplacedOne
<1>5. "&" # "<" /\ "&" # ">" /\ "<" # ">"
  OBVIOUS
<1>6. /\ c = "&" => EscapeXML(<<c>>) = amp
      /\ c = "<" => EscapeXML(<<c>>) = lt
      /\ c = ">" => EscapeXML(<<c>>) = gt
      /\ c \notin {"&", "<", ">"} => EscapeXML(<<c>>) = <<c>>
  BY <1>2, <1>3, <1>4, <1>5
<1> QED
  BY <1>6 DEF amp, lt, gt

Inline == {"<", "b", "u", "/", ">"}

LEMMA MarksAre ==
    ASSUME NEW X, Special \subseteq X, NEW mark \in InlineMarkup
    PROVE  /\ mark \in Seq(X) /\ Len(mark) \in {3, 4}
           /\ mark[1] = "<" /\ mark[2] \in {"b", "u", "/"}
           /\ \A k \in 1 .. Len(mark) : /\ mark[k] \in Inline
                                        /\ mark[k] = "<" => k = 1
                                        /\ mark[k] = ">" => k = Len(mark)
                                        /\ k = Len(mark) - 1 => mark[k] \in {"b", "u"}
<1>0. {"<", "b", "u", "/", ">"} \subseteq X
  BY DEF Special
<1>1. ASSUME NEW n \in {"b", "u"}, mark = <<"<", n, ">">>
      PROVE  /\ mark \in Seq(X) /\ Len(mark) = 3
             /\ mark[1] = "<" /\ mark[2] = n /\ mark[3] = ">"
  <2>1. "<" \in X /\ n \in X /\ ">" \in X
    BY <1>0
  <2> QED
    BY <1>1, <2>1, Triple
<1>2. ASSUME NEW n \in {"b", "u"}, mark = <<"<", "/", n, ">">>
      PROVE  /\ mark \in Seq(X) /\ Len(mark) = 4
             /\ mark[1] = "<" /\ mark[2] = "/" /\ mark[3] = n /\ mark[4] = ">"
  <2>1. "<" \in X /\ n \in X /\ ">" \in X /\ "/" \in X
    BY <1>0
  <2>2. <<"<", "/", n, ">">> \in Seq(X)
    BY <2>1
  <2>3. Len(mark) = 4 /\ mark[1] = "<" /\ mark[2] = "/" /\ mark[3] = n /\ mark[4] = ">"
    BY <1>2
  <2> QED
    BY <1>2, <2>2, <2>3
<1>3. \/ \E n \in {"b", "u"} : mark = <<"<", n, ">">>
      \/ \E n \in {"b", "u"} : mark = <<"<", "/", n, ">">>
  <2>1. CASE mark \in Openings
    BY <2>1 DEF Openings
  <2>2. CASE \E o \in Openings : mark = Closing(o)
    <3>1. PICK n \in {"b", "u"} : mark = Closing(<<"<", n, ">">>)
      BY <2>2 DEF Openings
    <3>2. <<"<", n, ">">>[2] = n
      OBVIOUS
    <3> QED
      BY <3>1, <3>2 DEF Closing
  <2> QED
    BY <2>1, <2>2 DEF InlineMarkup
<1>4. CASE \E n \in {"b", "u"} : mark = <<"<", n, ">">>
  <2>1. PICK n \in {"b", "u"} : mark = <<"<", n, ">">>
    BY <1>4
  <2>2. /\ mark \in Seq(X) /\ Len(mark) = 3
        /\ mark[1] = "<" /\ mark[2] = n /\ mark[3] = ">"
    BY <1>1, <2>1
  <2>3. \A k \in 1 .. 3 : k = 1 \/ k = 2 \/ k = 3
    OBVIOUS
  <2>4. n # "<" /\ n # ">" /\ {"<", n, ">"} \subseteq Inline
    BY DEF Inline
  <2> QED
    BY <2>2, <2>3, <2>4
<1>5. CASE \E n \in {"b", "u"} : mark = <<"<", "/", n, ">">>
  <2>1. PICK n \in {"b", "u"} : mark = <<"<", "/", n, ">">>
    BY <1>5
  <2>2. /\ mark \in Seq(X) /\ Len(mark) = 4
        /\ mark[1] = "<" /\ mark[2] = "/" /\ mark[3] = n /\ mark[4] = ">"
    BY <1>2, <2>1
  <2>3. \A k \in 1 .. 4 : k = 1 \/ k = 2 \/ k = 3 \/ k = 4
    OBVIOUS
  <2>4. n # "<" /\ n # ">" /\ {"<", "/", n, ">"} \subseteq Inline
    BY DEF Inline
  <2> QED
    BY <2>2, <2>3, <2>4
<1> QED
  BY <1>3, <1>4, <1>5

\* What stays is part of a mark.
LEMMA RawIsMarkup ==
    ASSUME NEW X, Special \subseteq X, NEW e \in Seq(X), NEW j \in Raw(e)
    PROVE  /\ j \in 1 .. Len(e) /\ e[j] \in Inline
           /\ e[j] = "<" => \E mark \in InlineMarkup : At(e, j, mark)
           /\ e[j] = ">" => j - 1 \in 1 .. Len(e) /\ e[j - 1] \in {"b", "u"}
<1>1. PICK i \in 1 .. j, mark \in InlineMarkup : At(e, i, mark) /\ j < i + Len(mark)
  BY DEF Raw
<1>2. j \in 1 .. Len(e) /\ Len(e) \in Nat
  BY DEF Raw
<1> DEFINE k == j - i + 1
           m == Len(mark)
<1>3. /\ mark \in Seq(X) /\ m \in {3, 4}
      /\ \A l \in 1 .. m : /\ mark[l] \in Inline
                           /\ mark[l] = "<" => l = 1
                           /\ mark[l] = ">" => l = m
                           /\ l = m - 1 => mark[l] \in {"b", "u"}
  BY MarksAre
<1>4. i + m <= Len(e) + 1 /\ \A l \in 1 .. m : e[i + l - 1] = mark[l]
  <2>1. i \in Nat \ {0}
    BY <1>2
  <2>2. Matches(e, i, mark)
    BY <1>1, <1>3, <2>1, AtMatches
  <2> QED
    BY <2>2 DEF Matches
<1>5. k \in 1 .. m /\ i + k - 1 = j
  BY <1>1, <1>2, <1>3
<1> HIDE DEF k, m
<1>6. e[j] = mark[k]
  BY <1>4, <1>5
<1>7. e[j] = "<" => At(e, j, mark)
  <2> HAVE e[j] = "<"
  <2>1. k = 1
    BY <1>3, <1>5, <1>6
  <2>2. i = j
    BY <1>2, <1>5, <2>1
  <2> QED
    BY <1>1, <2>2
<1>8. e[j] = ">" => j - 1 \in 1 .. Len(e) /\ e[j - 1] \in {"b", "u"}
  <2> HAVE e[j] = ">"
  <2>1. k = m
    BY <1>3, <1>5, <1>6
  <2> DEFINE l == m - 1
  <2>2. l \in 1 .. m /\ i + l - 1 = j - 1 /\ l = m - 1 /\ j - 1 \in 1 .. Len(e)
    BY <1>2, <1>3, <1>5, <2>1
  <2> HIDE DEF l
  <2>3. e[i + l - 1] = mark[l] /\ mark[l] \in {"b", "u"}
    BY <1>3, <1>4, <2>2
  <2> QED
    BY <2>2, <2>3
<1> QED
  BY <1>2, <1>3, <1>5, <1>6, <1>7, <1>8

PlainBlocks(e) == [i \in DOMAIN e |-> PlainImage(e, i)]

\* What becomes of a character.
Comes(b, c) ==
    \/ c # "&" /\ b = <<c>>
    \/ c = "&" /\ b = <<"&", "amp;">>
    \/ c = "<" /\ b = <<"&", "lt;">>
    \/ c = ">" /\ b = <<"&", "gt;">>

LEMMA EntitiesDiffer ==
    ASSUME NEW X, NEW c \in X, "&" \in X, NEW y \in X, NEW z \in X
    PROVE  /\ <<c>> # <<"&", y>>
           /\ y # z => <<"&", y>> # <<"&", z>>
OBVIOUS

LEMMA PlainImages ==
    ASSUME NEW X, Special \subseteq X, NEW e \in Seq(X), NEW i \in 1 .. Len(e)
    PROVE  /\ PlainImage(e, i) \in Seq(X)
           /\ Comes(PlainImage(e, i), e[i])
           /\ i \in Raw(e) => PlainImage(e, i) = <<e[i]>>
           /\ PlainImage(e, i) = <<e[i]>> => i \in Raw(e) \/ e[i] \notin {"<", ">"}
<1> DEFINE c == e[i]
<1>0. c \in X /\ {"&", "<", ">", "amp;", "lt;", "gt;"} \subseteq X
  <2>1. {"&", "<", ">", "amp;", "lt;", "gt;"} \subseteq X
    BY DEF Special
  <2>2. c \in X
    OBVIOUS
  <2> HIDE DEF c
  <2> QED
    BY <2>1, <2>2
<1> HIDE DEF c
<1>1. <<c>> \in Seq(X)
  <2>1. c \in X
    BY <1>0
  <2> QED
    BY <2>1
<1>2. /\ <<"&", "amp;">> \in Seq(X)
      /\ <<"&", "lt;">> \in Seq(X) /\ <<"&", "gt;">> \in Seq(X)
  <2>1. "&" \in X /\ "amp;" \in X /\ "lt;" \in X /\ "gt;" \in X
    BY <1>0
  <2> QED
    BY <2>1, Pair
<1>3. CASE i \in Raw(e)
  <2>1. PlainImage(e, i) = <<c>>
    BY <1>3 DEF PlainImage, c
  <2>2. c # "&"
    <3>1. c \in Inline
      BY <1>3, RawIsMarkup DEF c
    <3> QED
      BY <3>1 DEF Inline
  <2> QED
    BY <1>1, <1>3, <2>1, <2>2 DEF Comes, c
<1>4. CASE i \notin Raw(e)
  <2>1. PlainImage(e, i) = EscapeXML(<<c>>)
    BY <1>4 DEF PlainImage, c
  <2>2. /\ c = "&" => EscapeXML(<<c>>) = <<"&", "amp;">>
        /\ c = "<" => EscapeXML(<<c>>) = <<"&", "lt;">>
        /\ c = ">" => EscapeXML(<<c>>) = <<"&", "gt;">>
        /\ c \notin {"&", "<", ">"} => EscapeXML(<<c>>) = <<c>>
    BY <1>0, EscapedXML
  <2>3. CASE c = "&"
    <3>1. PlainImage(e, i) = <<"&", "amp;">> /\ PlainImage(e, i) \in Seq(X)
      BY <1>2, <2>1, <2>2, <2>3
    <3>2. PlainImage(e, i) # <<c>>
      <4>1. "&" \in X /\ "amp;" \in X
        BY <1>0
      <4> QED
        BY <1>0, <3>1, <4>1, EntitiesDiffer
    <3> QED
      BY <1>4, <2>3, <3>1, <3>2 DEF Comes, c
  <2>4. CASE c = "<"
    <3>1. PlainImage(e, i) = <<"&", "lt;">> /\ PlainImage(e, i) \in Seq(X)
      BY <1>2, <2>1, <2>2, <2>4
    <3>2. PlainImage(e, i) # <<c>>
      <4>1. "&" \in X /\ "lt;" \in X
        BY <1>0
      <4> QED
        BY <1>0, <3>1, <4>1, EntitiesDiffer
    <3> QED
      BY <1>4, <2>4, <3>1, <3>2 DEF Comes, c
  <2>5. CASE c = ">"
    <3>1. PlainImage(e, i) = <<"&", "gt;">> /\ PlainImage(e, i) \in Seq(X)
      BY <1>2, <2>1, <2>2, <2>5
    <3>2. PlainImage(e, i) # <<c>>
      <4>1. "&" \in X /\ "gt;" \in X
        BY <1>0
      <4> QED
        BY <1>0, <3>1, <4>1, EntitiesDiffer
    <3> QED
      BY <1>4, <2>5, <3>1, <3>2 DEF Comes, c
  <2>6. CASE c \notin {"&", "<", ">"}
    <3>1. PlainImage(e, i) = <<c>>
      BY <2>1, <2>2, <2>6
    <3> QED
      BY <1>1, <1>4, <2>6, <3>1 DEF Comes, c
  <2> QED
    BY <2>3, <2>4, <2>5, <2>6
<1> QED
  BY <1>3, <1>4

LEMMA PlainBlocksAre ==
    ASSUME NEW X, Special \subseteq X, NEW e \in Seq(X)
    PROVE  /\ PlainBlocks(e) \in Seq(Seq(X)) /\ Len(PlainBlocks(e)) = Len(e)
           /\ \A i \in 1 .. Len(e) : PlainBlocks(e)[i] = PlainImage(e, i)
           /\ Entities(PlainBlocks(e))
<1> DEFINE bb == PlainBlocks(e)
<1>1. bb = [i \in 1 .. Len(e) |-> PlainImage(e, i)]
  BY DEF PlainBlocks
<1>2. Len(e) \in Nat /\ \A i \in 1 .. Len(e) : bb[i] = PlainImage(e, i) /\ bb[i] \in Seq(X)
  BY <1>1, PlainImages
<1>3. bb = [i \in 1 .. Len(e) |-> bb[i]]
  BY <1>1
<1> HIDE DEF bb
<1>4. bb \in Seq(Seq(X)) /\ Len(bb) = Len(e)
  BY <1>2, <1>3, BlocksOf
<1>5. Entities(bb)
  <2> SUFFICES ASSUME NEW i \in 1 .. Len(bb)
               PROVE  \/ \E c : c # "&" /\ bb[i] = <<c>>
                      \/ \E y : y # "&" /\ bb[i] = <<"&", y>>
    BY DEF Entities
  <2>1. Comes(bb[i], e[i])
    BY <1>2, <1>4, PlainImages
  <2> QED
    BY <2>1 DEF Comes
<1> QED
  BY <1>2, <1>4, <1>5 DEF bb

\* What a pass over the entities makes of the blocks.
Resolved(bb, y, c) == [i \in 1 .. Len(bb) |-> IF bb[i] = <<"&", y>> THEN <<c>> ELSE bb[i]]

Passed(X, bb, y, c, cc) ==
    /\ cc \in Seq(Seq(X)) /\ Len(cc) = Len(bb)
    /\ \A i \in 1 .. Len(bb) : cc[i] = IF bb[i] = <<"&", y>> THEN <<c>> ELSE bb[i]
    /\ Replaced(FlattenSeq(bb), <<"&", y>>, <<c>>) = FlattenSeq(cc)
    /\ c # "&" => Entities(cc)

LEMMA ResolvedIs ==
    ASSUME NEW X, "&" \in X, NEW bb \in Seq(Seq(X)), Entities(bb), NEW y \in X, NEW c \in X
    PROVE  Passed(X, bb, y, c, Resolved(bb, y, c))
<1> DEFINE new == <<c>>
           cc == Resolved(bb, y, c)
<1>1. new \in Seq(X)
  OBVIOUS
<1>2. /\ Len(bb) \in Nat /\ \A i \in 1 .. Len(bb) : bb[i] \in Seq(X)
      /\ cc = [i \in 1 .. Len(bb) |-> cc[i]]
      /\ \A i \in 1 .. Len(bb) : cc[i] = IF bb[i] = <<"&", y>> THEN new ELSE bb[i]
  BY DEF Resolved
<1> HIDE DEF new, cc
<1>3. cc \in Seq(Seq(X)) /\ Len(cc) = Len(bb)
  <2>1. \A i \in 1 .. Len(bb) : cc[i] \in Seq(X)
    BY <1>1, <1>2
  <2> QED
    BY <1>2, <2>1, BlocksOf
<1>4. Replaced(FlattenSeq(bb), <<"&", y>>, new) = FlattenSeq(cc)
  <2>1. Swapped(bb, cc, y, new)
    BY <1>2, <1>3 DEF Swapped
  <2> QED
    BY <1>1, <1>3, <2>1, EntitiesReplaced
<1>5. ASSUME c # "&" PROVE Entities(cc)
  <2> SUFFICES ASSUME NEW i \in 1 .. Len(cc)
               PROVE  \/ \E d : d # "&" /\ cc[i] = <<d>>
                      \/ \E z : z # "&" /\ cc[i] = <<"&", z>>
    BY DEF Entities
  <2>1. CASE bb[i] = <<"&", y>>
    BY <1>2, <1>3, <1>5, <2>1 DEF new
  <2>2. CASE bb[i] # <<"&", y>>
    <3>1. cc[i] = bb[i] /\ i \in 1 .. Len(bb)
      BY <1>2, <1>3, <2>2
    <3> QED
      BY <3>1 DEF Entities
  <2> QED
    BY <2>1, <2>2
<1> QED
  BY <1>2, <1>3, <1>4, <1>5 DEF new, cc, Passed

LEMMA EntitiesAreRead ==
    ASSUME NEW X, Special \subseteq X, NEW e \in Seq(X)
    PROVE  /\ FlattenSeq(PlainBlocks(e)) \in Seq(X)
           /\ UnescapeXML(FlattenSeq(PlainBlocks(e))) = e
<1>0. /\ "&" \in X /\ "<" \in X /\ ">" \in X /\ "'" \in X
      /\ "amp;" \in X /\ "lt;" \in X /\ "gt;" \in X /\ "#39;" \in X
  BY DEF Special
<1> DEFINE b0 == PlainBlocks(e)
           b1 == Resolved(b0, "lt;", "<")
           b2 == Resolved(b1, "gt;", ">")
           b3 == Resolved(b2, "#39;", "'")
           b4 == Resolved(b3, "amp;", "&")
<1>1. /\ b0 \in Seq(Seq(X)) /\ Len(b0) = Len(e) /\ Entities(b0)
      /\ \A i \in 1 .. Len(e) : Comes(b0[i], e[i])
  BY PlainBlocksAre, PlainImages
<1> HIDE DEF b0
<1>2. "<" # "&" /\ ">" # "&" /\ "'" # "&"
  OBVIOUS
<1>3. /\ b1 \in Seq(Seq(X)) /\ Len(b1) = Len(e) /\ Entities(b1)
      /\ \A i \in 1 .. Len(e) : b1[i] = IF b0[i] = <<"&", "lt;">> THEN <<"<">> ELSE b0[i]
      /\ Replaced(FlattenSeq(b0), <<"&", "lt;">>, <<"<">>) = FlattenSeq(b1)
  <2>1. Passed(X, b0, "lt;", "<", b1)
    BY <1>0, <1>1, ResolvedIs
  <2> QED
    BY <1>1, <1>2, <2>1 DEF Passed
<1> HIDE DEF b1
<1>4. /\ b2 \in Seq(Seq(X)) /\ Len(b2) = Len(e) /\ Entities(b2)
      /\ \A i \in 1 .. Len(e) : b2[i] = IF b1[i] = <<"&", "gt;">> THEN <<">">> ELSE b1[i]
      /\ Replaced(FlattenSeq(b1), <<"&", "gt;">>, <<">">>) = FlattenSeq(b2)
  <2>1. Passed(X, b1, "gt;", ">", b2)
    BY <1>0, <1>3, ResolvedIs
  <2> QED
    BY <1>2, <1>3, <2>1 DEF Passed
<1> HIDE DEF b2
<1>5. /\ b3 \in Seq(Seq(X)) /\ Len(b3) = Len(e) /\ Entities(b3)
      /\ \A i \in 1 .. Len(e) : b3[i] = IF b2[i] = <<"&", "#39;">> THEN <<"'">> ELSE b2[i]
      /\ Replaced(FlattenSeq(b2), <<"&", "#39;">>, <<"'">>) = FlattenSeq(b3)
  <2>1. Passed(X, b2, "#39;", "'", b3)
    BY <1>0, <1>4, ResolvedIs
  <2> QED
    BY <1>2, <1>4, <2>1 DEF Passed
<1> HIDE DEF b3
<1>6. /\ b4 \in Seq(Seq(X)) /\ Len(b4) = Len(e)
      /\ \A i \in 1 .. Len(e) : b4[i] = IF b3[i] = <<"&", "amp;">> THEN <<"&">> ELSE b3[i]
      /\ Replaced(FlattenSeq(b3), <<"&", "amp;">>, <<"&">>) = FlattenSeq(b4)
  <2>1. Passed(X, b3, "amp;", "&", b4)
    BY <1>0, <1>5, ResolvedIs
  <2> QED
    BY <1>5, <2>1 DEF Passed
<1>7. b4 = [i \in 1 .. Len(e) |-> b4[i]]
  BY <1>5 DEF Resolved
<1> HIDE DEF b4
<1>8. UnescapeXML(FlattenSeq(b0)) = FlattenSeq(b4)
  BY <1>3, <1>4, <1>5, <1>6 DEF UnescapeXML, OtherEntities, Ampersands
<1>9. ASSUME NEW i \in 1 .. Len(e) PROVE b4[i] = <<e[i]>>
  <2>0. e[i] \in X
    OBVIOUS
  <2>1. /\ <<"&", "lt;">> # <<"&", "gt;">> /\ <<"&", "lt;">> # <<"&", "#39;">>
        /\ <<"&", "lt;">> # <<"&", "amp;">> /\ <<"&", "gt;">> # <<"&", "#39;">>
        /\ <<"&", "gt;">> # <<"&", "amp;">> /\ <<"&", "amp;">> # <<"&", "#39;">>
    OBVIOUS
  <2>2. \A c \in X : /\ <<c>> # <<"&", "lt;">> /\ <<c>> # <<"&", "gt;">>
                     /\ <<c>> # <<"&", "#39;">> /\ <<c>> # <<"&", "amp;">>
    BY <1>0, EntitiesDiffer
  <2>3. Comes(b0[i], e[i])
    BY <1>1
  <2>4. CASE e[i] # "&" /\ b0[i] = <<e[i]>>
    BY <1>3, <1>4, <1>5, <1>6, <2>0, <2>2, <2>4
  <2>5. CASE e[i] = "&" /\ b0[i] = <<"&", "amp;">>
    BY <1>3, <1>4, <1>5, <1>6, <2>1, <2>5
  <2>6. CASE e[i] = "<" /\ b0[i] = <<"&", "lt;">>
    BY <1>0, <1>3, <1>4, <1>5, <1>6, <2>2, <2>6
  <2>7. CASE e[i] = ">" /\ b0[i] = <<"&", "gt;">>
    BY <1>0, <1>3, <1>4, <1>5, <1>6, <2>1, <2>2, <2>7
  <2> QED
    BY <2>3, <2>4, <2>5, <2>6, <2>7 DEF Comes
<1>10. FlattenSeq(b4) = e
  <2>1. b4 = [i \in DOMAIN e |-> <<e[i]>>]
    <3>1. DOMAIN e = 1 .. Len(e)
      OBVIOUS
    <3> QED
      BY <1>7, <1>9, <3>1
  <2> QED
    BY <2>1, SinglesFlatten
<1>11. FlattenSeq(b0) \in Seq(X)
  BY <1>1, LaidOut
<1> QED
  BY <1>8, <1>10, <1>11 DEF b0

LEMMA PairAvoids ==
    ASSUME NEW X, NEW P, NEW a \in X, NEW d \in X, a \notin P, d \notin P, NEW b, b = <<a, d>>
    PROVE  Len(b) > 0 /\ \A k \in 1 .. Len(b) : b[k] \notin P
<1>1. Len(b) = 2 /\ b[1] = a /\ b[2] = d
  OBVIOUS
<1>2. \A k \in 1 .. 2 : k = 1 \/ k = 2
  OBVIOUS
<1> QED
  BY <1>1, <1>2

LEMMA PlainIsApart ==
    ASSUME NEW X, Special \subseteq X, NEW e \in Seq(X)
    PROVE  Apart(PlainBlocks(e), e, Kept)
<1> DEFINE bb == PlainBlocks(e)
<1> HIDE DEF bb
<1>1. ASSUME NEW i \in 1 .. Len(e), NEW b \in Seq(X), Comes(b, e[i])
      PROVE  Len(b) > 0 /\ (b = <<e[i]>> \/ \A k \in 1 .. Len(b) : b[k] \notin Kept)
  <2>1. CASE b = <<e[i]>>
    BY <2>1
  <2>2. CASE \E y \in {"amp;", "lt;", "gt;"} : b = <<"&", y>>
    <3>1. PICK y \in {"amp;", "lt;", "gt;"} : b = <<"&", y>>
      BY <2>2
    <3>2. "&" \in X /\ y \in X /\ "&" \notin Kept /\ y \notin Kept
      BY DEF Kept, Special
    <3> QED
      BY <3>1, <3>2, PairAvoids
  <2> QED
    BY <1>1, <2>1, <2>2 DEF Comes
<1>2. \A i \in 1 .. Len(e) : bb[i] \in Seq(X) /\ Comes(bb[i], e[i])
  BY PlainBlocksAre, PlainImages DEF bb
<1>3. Apart(bb, e, Kept)
  BY <1>1, <1>2 DEF Apart
<1> QED
  BY <1>3 DEF bb

\* What is alone among the blocks of a plain text, and is a bracket, belongs to a mark.
LEMMA PlainHolds ==
    ASSUME NEW X, Special \subseteq X, NEW e \in Seq(X), NEW x \in Seq(X), Len(x) > 0,
           \A k \in 1 .. Len(x) : x[k] \in Kept, NEW w, w = FlattenSeq(PlainBlocks(e))
    PROVE  Holds(w, x) <=> \E i \in 1 .. Len(e) : At(e, i, x) /\ Single(PlainBlocks(e), e, i, Len(x))
<1> DEFINE bb == PlainBlocks(e)
<1>1. bb \in Seq(Seq(X)) /\ Len(bb) = Len(e) /\ Apart(bb, e, Kept)
  BY PlainBlocksAre, PlainIsApart
<1>2. w = FlattenSeq(bb)
  OBVIOUS
<1> HIDE DEF bb
<1>3. w \in Seq(X) /\ \E off : Laid(bb, w, off)
  BY <1>1, <1>2, LaidOut
<1>4. PICK off : Laid(bb, w, off)
  BY <1>3
<1>5. Holds(w, x) <=> \E i \in 1 .. Len(e) : At(e, i, x) /\ Single(bb, e, i, Len(x))
  BY <1>1, <1>3, <1>4, HoldsAlike
<1> QED
  BY <1>5 DEF bb

KeptAt(e, i, k, x) ==
    /\ i + k - 1 \in 1 .. Len(e) /\ e[i + k - 1] = x[k]
    /\ x[k] \in {"<", ">"} => i + k - 1 \in Raw(e)

LEMMA PlainSingle ==
    ASSUME NEW X, Special \subseteq X, NEW e \in Seq(X), NEW x \in Seq(X),
           NEW i \in 1 .. Len(e), At(e, i, x), Single(PlainBlocks(e), e, i, Len(x)),
           NEW k \in 1 .. Len(x)
    PROVE  KeptAt(e, i, k, x)
<1> DEFINE j == i + k - 1
<1>0. Len(e) \in Nat /\ Len(x) \in Nat /\ i \in Nat \ {0}
  OBVIOUS
<1>1. Matches(e, i, x)
  BY <1>0, AtMatches
<1>2. j \in 1 .. Len(e) /\ e[j] = x[k] /\ j \in i .. i + Len(x) - 1
  BY <1>0, <1>1 DEF Matches
<1> HIDE DEF j
<1>3. PlainBlocks(e)[j] = <<e[j]>>
  BY <1>2 DEF Single
<1>4. PlainImage(e, j) = <<e[j]>>
  BY <1>2, <1>3, PlainBlocksAre
<1>5. j \in Raw(e) \/ e[j] \notin {"<", ">"}
  BY <1>2, <1>4, PlainImages
<1> QED
  BY <1>2, <1>5 DEF j, KeptAt

LEMMA PlainHasNoCData ==
    ASSUME NEW X, Special \subseteq X, NEW e \in Seq(X), NEW w, w = FlattenSeq(PlainBlocks(e))
    PROVE  /\ ~Holds(w, CDataOpen) /\ ~Holds(w, CDataClose)
           /\ Holds(w, <<"ctl">>) <=> Holds(e, <<"ctl">>)
<1>1. /\ CDataOpen \in Seq(X) /\ Len(CDataOpen) = 2
      /\ CDataOpen[1] = "<" /\ CDataOpen[2] = "![CDATA["
      /\ CDataClose \in Seq(X) /\ Len(CDataClose) = 3
      /\ CDataClose[1] = "]" /\ CDataClose[2] = "]" /\ CDataClose[3] = ">"
  BY CDataEnds
<1>2. (\A k \in 1 .. 2 : k = 1 \/ k = 2) /\ (\A k \in 1 .. 3 : k = 1 \/ k = 2 \/ k = 3)
  OBVIOUS
<1>3. {"<", "![CDATA[", "]", ">", "ctl"} \subseteq Kept
  BY DEF Kept
<1>4. ASSUME Holds(w, CDataOpen) PROVE FALSE
  <2>1. PICK i \in 1 .. Len(e) : At(e, i, CDataOpen) /\ Single(PlainBlocks(e), e, i, Len(CDataOpen))
    <3>1. Len(CDataOpen) > 0 /\ \A k \in 1 .. Len(CDataOpen) : CDataOpen[k] \in Kept
      BY <1>1, <1>2, <1>3
    <3> QED
      BY <1>1, <1>4, <3>1, PlainHolds
  <2>2. 1 \in 1 .. Len(CDataOpen) /\ 2 \in 1 .. Len(CDataOpen)
    BY <1>1
  <2>3. e[i] = "<" /\ i \in Raw(e)
    <3>1. /\ e[i + 1 - 1] = CDataOpen[1]
          /\ CDataOpen[1] \in {"<", ">"} => i + 1 - 1 \in Raw(e)
      <4>1. KeptAt(e, i, 1, CDataOpen)
        BY <1>1, <2>1, <2>2, PlainSingle
      <4> QED
        BY <4>1 DEF KeptAt
    <3>2. i + 1 - 1 = i
      OBVIOUS
    <3> QED
      BY <1>1, <3>1, <3>2
  <2>4. e[i + 1] = "![CDATA["
    <3>1. e[i + 2 - 1] = CDataOpen[2]
      <4>1. KeptAt(e, i, 2, CDataOpen)
        BY <1>1, <2>1, <2>2, PlainSingle
      <4> QED
        BY <4>1 DEF KeptAt
    <3>2. i + 2 - 1 = i + 1
      OBVIOUS
    <3> QED
      BY <1>1, <3>1, <3>2
  <2>5. PICK mark \in InlineMarkup : At(e, i, mark)
    BY <2>3, RawIsMarkup
  <2>6. mark \in Seq(X) /\ Len(mark) \in {3, 4} /\ mark[2] \in {"b", "u", "/"}
    BY MarksAre
  <2>7. Matches(e, i, mark)
    <3>1. i \in Nat \ {0}
      OBVIOUS
    <3> QED
      BY <2>5, <2>6, <3>1, AtMatches
  <2>8. e[i + 1] = mark[2]
    <3>1. i + 2 - 1 = i + 1 /\ 2 \in 1 .. Len(mark)
      BY <2>6
    <3> QED
      BY <2>7, <3>1 DEF Matches
  <2> QED
    BY <2>4, <2>6, <2>8
<1>5. ASSUME Holds(w, CDataClose) PROVE FALSE
  <2>1. PICK i \in 1 .. Len(e) : At(e, i, CDataClose) /\ Single(PlainBlocks(e), e, i, Len(CDataClose))
    <3>1. Len(CDataClose) > 0 /\ \A k \in 1 .. Len(CDataClose) : CDataClose[k] \in Kept
      BY <1>1, <1>2, <1>3
    <3> QED
      BY <1>1, <1>5, <3>1, PlainHolds
  <2>2. 2 \in 1 .. Len(CDataClose) /\ 3 \in 1 .. Len(CDataClose)
    BY <1>1
  <2>3. e[i + 3 - 1] = CDataClose[3] /\ i + 3 - 1 \in Raw(e)
    <3>1. KeptAt(e, i, 3, CDataClose)
      BY <1>1, <2>1, <2>2, PlainSingle
    <3> QED
      BY <1>1, <3>1 DEF KeptAt
  <2>4. e[i + 2 - 1] = CDataClose[2]
    <3>1. KeptAt(e, i, 2, CDataClose)
      BY <1>1, <2>1, <2>2, PlainSingle
    <3> QED
      BY <3>1 DEF KeptAt
  <2>5. i + 3 - 1 = i + 2 /\ i + 2 - 1 = i + 1 /\ i + 2 - 1 = (i + 2) - 1
    OBVIOUS
  <2>6. e[i + 2] = ">" /\ i + 2 \in Raw(e) /\ e[(i + 2) - 1] = "]"
    BY <1>1, <2>3, <2>4, <2>5
  <2>7. e[(i + 2) - 1] \in {"b", "u"}
    BY <2>6, RawIsMarkup
  <2> QED
    BY <2>6, <2>7
<1>6. Holds(w, <<"ctl">>) <=> Holds(e, <<"ctl">>)
  <2> DEFINE x == <<"ctl">>
  <2>1. "ctl" \in X
    BY DEF Special
  <2>2. x \in Seq(X) /\ Len(x) = 1 /\ x[1] = "ctl" /\ \A k \in 1 .. 1 : k = 1
    BY <2>1
  <2> HIDE DEF x
  <2>3. Holds(w, x) <=> \E i \in 1 .. Len(e) : At(e, i, x) /\ Single(PlainBlocks(e), e, i, Len(x))
    <3>1. Len(x) > 0 /\ \A k \in 1 .. Len(x) : x[k] \in Kept
      BY <1>3, <2>2
    <3> QED
      BY <2>2, <3>1, PlainHolds
  <2>4. ASSUME NEW i \in 1 .. Len(e), At(e, i, x) PROVE Single(PlainBlocks(e), e, i, Len(x))
    <3>1. e[i] = "ctl"
      <4>1. i \in Nat \ {0} /\ i + 1 - 1 = i
        OBVIOUS
      <4>2. Matches(e, i, x)
        BY <2>2, <2>4, <4>1, AtMatches
      <4>3. 1 \in 1 .. Len(x)
        BY <2>2
      <4> QED
        BY <2>2, <4>1, <4>2, <4>3 DEF Matches
    <3>2. PlainBlocks(e)[i] = <<e[i]>>
      <4>1. Comes(PlainBlocks(e)[i], e[i])
        BY PlainBlocksAre, PlainImages
      <4> QED
        BY <3>1, <4>1 DEF Comes
    <3>3. \A k \in i .. i + 1 - 1 : k = i
      OBVIOUS
    <3> QED
      BY <2>2, <3>2, <3>3 DEF Single
  <2>5. Holds(e, x) <=> \E i \in 1 .. Len(e) : At(e, i, x)
    <3>1. DOMAIN e = 1 .. Len(e)
      OBVIOUS
    <3> QED
      BY <3>1 DEF Holds
  <2> QED
    BY <2>3, <2>4, <2>5 DEF x
<1> QED
  BY <1>4, <1>5, <1>6

Marks(t) == FlattenSeq([i \in DOMAIN t |-> MarksAt(t, i)])

LEMMA MarksTyped ==
    ASSUME NEW t, NEW i
    PROVE  MarksAt(t, i) \in Seq(InlineMarkup)
<1> DEFINE met == {mark \in InlineMarkup : At(t, i, mark)}
<1>1. MarksAt(t, i) = IF met = {} THEN <<>> ELSE <<CHOOSE mark \in met : TRUE>>
  BY DEF MarksAt
<1>2. met \subseteq InlineMarkup
  OBVIOUS
<1> HIDE DEF met
<1>3. CASE met = {}
  BY <1>1, <1>3
<1>4. CASE met # {}
  <2>1. (CHOOSE mark \in met : TRUE) \in met
    BY <1>4
  <2> DEFINE m == CHOOSE mark \in met : TRUE
  <2>2. m \in InlineMarkup
    BY <1>2, <2>1
  <2>3. MarksAt(t, i) = <<m>>
    BY <1>1, <1>4
  <2> HIDE DEF m
  <2> QED
    BY <2>2, <2>3
<1> QED
  BY <1>3, <1>4

LEMMA MarksSame ==
    ASSUME NEW s, NEW p, NEW t, NEW i, \A mark \in InlineMarkup : At(s, p, mark) <=> At(t, i, mark)
    PROVE  MarksAt(s, p) = MarksAt(t, i)
<1> DEFINE u == {mark \in InlineMarkup : At(s, p, mark)}
           v == {mark \in InlineMarkup : At(t, i, mark)}
<1>1. u = v
  OBVIOUS
<1>2. /\ MarksAt(s, p) = IF u = {} THEN <<>> ELSE <<CHOOSE mark \in u : TRUE>>
      /\ MarksAt(t, i) = IF v = {} THEN <<>> ELSE <<CHOOSE mark \in v : TRUE>>
  BY DEF MarksAt
<1> HIDE DEF u, v
<1>3. MarksAt(s, p) = IF v = {} THEN <<>> ELSE <<CHOOSE mark \in v : TRUE>>
  BY <1>1, <1>2, Zenon
<1> QED
  BY <1>2, <1>3

LEMMA MarksNone ==
    ASSUME NEW s, NEW p, \A mark \in InlineMarkup : ~At(s, p, mark)
    PROVE  MarksAt(s, p) = <<>>
<1>1. {mark \in InlineMarkup : At(s, p, mark)} = {}
  OBVIOUS
<1> QED
  BY <1>1 DEF MarksAt

\* What a pass over s, a character at a time, collects.
Collects(f, s) ==
    /\ f \in [1 .. Len(s) + 1 -> Seq(InlineMarkup)]
    /\ f[Len(s) + 1] = <<>>
    /\ \A p \in 1 .. Len(s) : f[p] = MarksAt(s, p) \o f[p + 1]

LEMMA CollectExists ==
    ASSUME NEW X, NEW s \in Seq(X)
    PROVE  \E f : Collects(f, s)
<1> DEFINE L == Len(s)
           read == [p \in 1 .. L |-> MarksAt(s, p)]
           width == [p \in 1 .. L |-> 1]
<1>1. L \in Nat
  OBVIOUS
<1> HIDE DEF L
<1>2. read \in [1 .. L -> Seq(InlineMarkup)] /\ \A p \in 1 .. L : read[p] = MarksAt(s, p)
  BY MarksTyped
<1>3. /\ width \in [1 .. L -> Nat \ {0}] /\ \A p \in 1 .. L : width[p] = 1
      /\ \A p \in 1 .. L : p + width[p] <= L + 1
  BY <1>1
<1> HIDE DEF read, width
<1>4. PICK f : Pass(f, L, read, width)
  BY <1>1, <1>2, <1>3, PassExists
<1>5. f \in [1 .. L + 1 -> Seq(InlineMarkup)]
  BY <1>1, <1>2, <1>3, <1>4, PassTyped
<1>6. f[L + 1] = <<>> /\ \A p \in 1 .. L : f[p] = MarksAt(s, p) \o f[p + 1]
  BY <1>2, <1>3, <1>4 DEF Pass
<1> QED
  BY <1>5, <1>6 DEF Collects, L

LEMMA MarkBlocks ==
    ASSUME NEW X, NEW t \in Seq(X), NEW cc, cc = [i \in DOMAIN t |-> MarksAt(t, i)]
    PROVE  /\ cc \in Seq(Seq(InlineMarkup)) /\ Len(cc) = Len(t)
           /\ \A i \in 1 .. Len(t) : cc[i] = MarksAt(t, i)
<1>1. Len(t) \in Nat /\ DOMAIN t = 1 .. Len(t)
  OBVIOUS
<1>2. cc = [i \in 1 .. Len(t) |-> cc[i]] /\ \A i \in 1 .. Len(t) : cc[i] = MarksAt(t, i)
  BY <1>1
<1>3. \A i \in 1 .. Len(t) : cc[i] \in Seq(InlineMarkup)
  BY <1>2, MarksTyped
<1> QED
  BY <1>1, <1>2, <1>3, BlocksOf

LEMMA CollectsMarks ==
    ASSUME NEW X, NEW s \in Seq(X), NEW f, Collects(f, s)
    PROVE  f[1] = Marks(s)
<1> DEFINE L == Len(s)
           bb == [p \in DOMAIN s |-> <<s[p]>>]
           cc == [p \in DOMAIN s |-> MarksAt(s, p)]
           off == [p \in 0 .. L |-> p]
<1>1. bb \in Seq(Seq(X)) /\ Len(bb) = L /\ \A p \in 1 .. L : Len(bb[p]) = 1
  BY SingleBlocks
<1>2. cc \in Seq(Seq(InlineMarkup)) /\ Len(cc) = L /\ \A p \in 1 .. L : cc[p] = MarksAt(s, p)
  BY MarkBlocks
<1>3. L \in Nat
  OBVIOUS
<1>4. Marks(s) = FlattenSeq(cc)
  BY DEF Marks
<1>5. /\ f \in [1 .. L + 1 -> Seq(InlineMarkup)]
      /\ f[L + 1] = <<>>
      /\ \A p \in 1 .. L : f[p] = MarksAt(s, p) \o f[p + 1]
  BY DEF Collects
<1> HIDE DEF bb, cc, L
<1>6. Offsets(bb, off)
  <2>1. off \in [0 .. L -> Nat] /\ off[0] = 0
    BY <1>3
  <2>2. ASSUME NEW p \in 1 .. L PROVE off[p] = off[p - 1] + Len(bb[p])
    <3>1. p \in 0 .. L /\ p - 1 \in 0 .. L /\ Len(bb[p]) = 1
      BY <1>1, <1>3
    <3> QED
      BY <3>1
  <2> HIDE DEF off
  <2> QED
    BY <1>1, <2>1, <2>2 DEF Offsets
<1>7. \A p \in 0 .. L : off[p] = p
  OBVIOUS
<1> HIDE DEF off
<1>8. Passing(bb, cc, off, f, InlineMarkup)
  <2>1. \A p \in 0 .. L : f[off[p] + 1] \in Seq(InlineMarkup)
    BY <1>3, <1>5, <1>7
  <2>2. f[off[L] + 1] = <<>>
    BY <1>3, <1>5, <1>7
  <2>3. ASSUME NEW p \in 1 .. L PROVE f[off[p - 1] + 1] = cc[p] \o f[off[p] + 1]
    <3>1. off[p - 1] + 1 = p /\ off[p] + 1 = p + 1
      BY <1>3, <1>7
    <3> QED
      BY <1>2, <1>5, <3>1
  <2> QED
    BY <1>1, <2>1, <2>2, <2>3 DEF Passing
<1>9. f[1] = FlattenSeq(cc)
  BY <1>1, <1>2, <1>6, <1>8, PassesBlocks
<1> QED
  BY <1>4, <1>9

\* A mark in t is a mark in what is made of t, and nothing else is.
Moves(bb, t, s, off, p, mark) ==
    /\ At(s, p, mark) => Stood(bb, t, off, p, mark)
    /\ \A i \in 1 .. Len(t) : off[i - 1] + 1 = p => (At(s, p, mark) <=> At(t, i, mark))

LEMMA MarksMove ==
    ASSUME NEW X, Special \subseteq X, NEW t \in Seq(X), NEW bb \in Seq(Seq(X)), Len(bb) = Len(t),
           NEW s \in Seq(X), NEW off, Laid(bb, s, off), NEW P, Apart(bb, t, P), Inline \subseteq P,
           \A i \in 1 .. Len(t), mark \in InlineMarkup : At(t, i, mark) => Single(bb, t, i, Len(mark)),
           NEW p \in Nat \ {0}, NEW mark \in InlineMarkup
    PROVE  Moves(bb, t, s, off, p, mark)
<1>1. mark \in Seq(X) /\ Len(mark) > 0 /\ \A k \in 1 .. Len(mark) : mark[k] \in P
  <2>1. mark \in Seq(X) /\ Len(mark) \in {3, 4} /\ \A k \in 1 .. Len(mark) : mark[k] \in Inline
    BY MarksAre
  <2>2. Len(mark) > 0
    <3>1. Len(mark) \in {3, 4} /\ \A n \in {3, 4} : n > 0
      BY <2>1
    <3> QED
      BY <3>1
  <2>3. \A k \in 1 .. Len(mark) : mark[k] \in P
    BY <2>1
  <2> QED
    BY <2>1, <2>2, <2>3
<1>2. At(s, p, mark) => Stood(bb, t, off, p, mark)
  BY <1>1, CameFrom
<1>3. ASSUME NEW i \in 1 .. Len(t), off[i - 1] + 1 = p
      PROVE  At(s, p, mark) <=> At(t, i, mark)
  <2>1. ASSUME At(t, i, mark) PROVE At(s, p, mark)
    <3>1. Single(bb, t, i, Len(mark))
      BY <2>1
    <3> QED
      BY <1>1, <1>3, <2>1, <3>1, StaysAt
  <2>2. ASSUME At(s, p, mark) PROVE At(t, i, mark)
    <3>1. PICK j \in 1 .. Len(t) : off[j - 1] + 1 = p /\ At(t, j, mark)
      BY <1>2, <2>2 DEF Stood
    <3> DEFINE a == i - 1
               b == j - 1
    <3>2. a \in 0 .. Len(t) /\ b \in 0 .. Len(t) /\ i = a + 1 /\ j = b + 1
      OBVIOUS
    <3>3. Offsets(bb, off)
      BY DEF Laid
    <3>4. off[a] \in Nat /\ off[b] \in Nat /\ off[a] + 1 = off[b] + 1
      BY <1>3, <3>1, <3>2, <3>3 DEF Offsets
    <3> HIDE DEF a, b
    <3>5. off[a] = off[b]
      <4> DEFINE u == off[a]
                 v == off[b]
      <4>1. u \in Nat /\ v \in Nat /\ u + 1 = v + 1
        BY <3>4
      <4> HIDE DEF u, v
      <4>2. u = v
        BY <4>1
      <4> QED
        BY <4>2 DEF u, v
    <3>6. a = b
      BY <3>2, <3>3, <3>5, OffsetsDiffer
    <3> QED
      BY <3>1, <3>2, <3>6
  <2> QED
    BY <2>1, <2>2
<1> QED
  BY <1>2, <1>3 DEF Moves

LEMMA MarksAlike ==
    ASSUME NEW X, Special \subseteq X, NEW t \in Seq(X), NEW bb \in Seq(Seq(X)), Len(bb) = Len(t),
           \A i \in 1 .. Len(t) : Len(bb[i]) \in {1, 2},
           NEW P, Apart(bb, t, P), Inline \subseteq P,
           \A i \in 1 .. Len(t), mark \in InlineMarkup : At(t, i, mark) => Single(bb, t, i, Len(mark))
    PROVE  Marks(FlattenSeq(bb)) = Marks(t)
<1> DEFINE s == FlattenSeq(bb)
           cc == [i \in DOMAIN t |-> MarksAt(t, i)]
           L == Len(s)
           N == Len(t)
<1>1. s \in Seq(X) /\ \E off : Laid(bb, s, off)
  BY LaidOut
<1>2. cc \in Seq(Seq(InlineMarkup)) /\ Len(cc) = N /\ \A i \in 1 .. N : cc[i] = MarksAt(t, i)
  BY MarkBlocks
<1>3. Marks(t) = FlattenSeq(cc)
  BY DEF Marks
<1> HIDE DEF s, cc
<1>4. PICK off : Laid(bb, s, off)
  BY <1>1
<1>5. PICK f : Collects(f, s)
  BY <1>1, CollectExists
<1>6. f[1] = Marks(s)
  BY <1>1, <1>5, CollectsMarks
<1>7. /\ f \in [1 .. L + 1 -> Seq(InlineMarkup)]
      /\ f[L + 1] = <<>>
      /\ \A p \in 1 .. L : f[p] = MarksAt(s, p) \o f[p + 1]
  BY <1>5 DEF Collects
<1>8. Offsets(bb, off)
  BY <1>4 DEF Laid
<1>9. /\ L \in Nat /\ N \in Nat /\ L = off[N]
      /\ \A i \in 0 .. N : off[i] \in Nat /\ off[i] <= L /\ off[i] + 1 \in 1 .. L + 1
      /\ \A i \in 1 .. N :
             off[i - 1] \in Nat /\ Len(bb[i]) \in {1, 2} /\ off[i] = off[i - 1] + Len(bb[i])
  BY <1>1, <1>4, LaidEnds
<1>10. \A i, j \in 0 .. N : i <= j => off[i] <= off[j]
  BY <1>8, OffsetsGrow
<1> HIDE DEF L, N
<1>11. ASSUME NEW i \in 1 .. N PROVE MarksAt(s, off[i - 1] + 1) = cc[i]
  <2> DEFINE p == off[i - 1] + 1
  <2>1. p \in Nat \ {0} /\ off[i - 1] + 1 = p
    BY <1>9
  <2> HIDE DEF p
  <2>2. \A mark \in InlineMarkup : At(s, p, mark) <=> At(t, i, mark)
    <3> TAKE mark \in InlineMarkup
    <3>1. Moves(bb, t, s, off, p, mark)
      BY <1>1, <1>4, <2>1, MarksMove
    <3> QED
      BY <2>1, <3>1 DEF Moves, N
  <2> QED
    BY <1>2, <2>1, <2>2, MarksSame
<1>12. ASSUME NEW i \in 1 .. N, off[i] = off[i - 1] + 2 PROVE MarksAt(s, off[i - 1] + 2) = <<>>
  <2> DEFINE p == off[i - 1] + 2
  <2>1. p \in Nat \ {0} /\ off[i - 1] + 1 = p - 1 /\ off[i] = p
    BY <1>9, <1>12
  <2> HIDE DEF p
  <2>2. ASSUME NEW mark \in InlineMarkup, At(s, p, mark) PROVE FALSE
    <3>1. Stood(bb, t, off, p, mark)
      <4>1. Moves(bb, t, s, off, p, mark)
        BY <1>1, <1>4, <2>1, MarksMove
      <4> QED
        BY <2>2, <4>1 DEF Moves
    <3>2. PICK j \in 1 .. N : off[j - 1] + 1 = p
      BY <3>1 DEF Stood, N
    <3> DEFINE a == i - 1
               b == j - 1
    <3>3. a \in 0 .. N /\ b \in 0 .. N /\ i \in 0 .. N /\ i = a + 1 /\ (b <= a \/ i <= b)
      BY <1>9
    <3>4. off[a] + 1 = p - 1 /\ off[b] + 1 = p
      BY <2>1, <3>2
    <3> HIDE DEF a, b
    <3>5. off[a] \in Nat /\ off[b] \in Nat /\ off[i] \in Nat
      BY <1>9, <3>3
    <3>6. CASE b <= a
      <4>1. off[b] <= off[a]
        BY <1>10, <3>3, <3>6
      <4> QED
        BY <2>1, <3>4, <3>5, <4>1
    <3>7. CASE i <= b
      <4>1. off[i] <= off[b]
        BY <1>10, <3>3, <3>7
      <4> QED
        BY <2>1, <3>4, <3>5, <4>1
    <3> QED
      BY <3>3, <3>6, <3>7
  <2>3. MarksAt(s, p) = <<>>
    BY <2>2, MarksNone
  <2> QED
    BY <2>3 DEF p
<1>13. ASSUME NEW i \in 1 .. N PROVE f[off[i - 1] + 1] = cc[i] \o f[off[i] + 1]
  <2> DEFINE q == off[i - 1]
             r == off[i]
  <2>1. q \in Nat /\ r \in Nat /\ r <= L /\ (r = q + 1 \/ r = q + 2)
    <3>1. i \in 0 .. N
      BY <1>9
    <3> QED
      BY <1>9, <3>1
  <2>2. MarksAt(s, q + 1) = cc[i]
    BY <1>11
  <2>3. r = q + 2 => MarksAt(s, q + 2) = <<>>
    BY <1>12
  <2> HIDE DEF q, r
  <2>4. q + 1 \in 1 .. L /\ (q + 1) + 1 = q + 2
    BY <1>9, <2>1
  <2>5. f[q + 1] = cc[i] \o f[q + 2]
    BY <1>7, <2>2, <2>4
  <2>6. CASE r = q + 1
    <3>1. r + 1 = q + 2
      BY <2>1, <2>6
    <3> QED
      BY <2>5, <3>1 DEF q, r
  <2>7. CASE r = q + 2
    <3>1. q + 2 \in 1 .. L /\ (q + 2) + 1 = r + 1 /\ r + 1 \in 1 .. L + 1
      BY <1>9, <2>1, <2>7
    <3>2. f[q + 2] = <<>> \o f[r + 1]
      BY <1>7, <2>3, <2>7, <3>1
    <3>3. f[r + 1] \in Seq(InlineMarkup)
      BY <1>7, <3>1
    <3>4. f[q + 2] = f[r + 1]
      BY <3>2, <3>3, EmptyLast
    <3> QED
      BY <2>5, <3>4 DEF q, r
  <2> QED
    BY <2>1, <2>6, <2>7
<1>14. Passing(bb, cc, off, f, InlineMarkup)
  <2>1. Len(bb) = N
    BY DEF N
  <2>2. \A i \in 0 .. N : f[off[i] + 1] \in Seq(InlineMarkup)
    BY <1>7, <1>9
  <2>3. f[off[N] + 1] = <<>>
    BY <1>7, <1>9
  <2> QED
    BY <1>13, <2>1, <2>2, <2>3 DEF Passing
<1>15. f[1] = FlattenSeq(cc)
  <2>1. Len(bb) = Len(cc)
    BY <1>2 DEF N
  <2> QED
    BY <1>2, <1>8, <1>14, <2>1, PassesBlocks
<1> QED
  BY <1>3, <1>6, <1>15 DEF s

LEMMA TwoLengths ==
    ASSUME NEW b, (\E c : b = <<c>>) \/ \E c, d : b = <<c, d>>
    PROVE  Len(b) \in {1, 2}
<1>1. CASE \E c : b = <<c>>
  <2>1. PICK c : b = <<c>>
    BY <1>1
  <2>2. Len(b) = 1
    BY <2>1
  <2> QED
    BY <2>2
<1>2. CASE \E c, d : b = <<c, d>>
  <2>1. PICK c, d : b = <<c, d>>
    BY <1>2
  <2>2. Len(b) = 2
    BY <2>1
  <2> QED
    BY <2>2
<1> QED
  BY <1>1, <1>2

LEMMA MarkPoints ==
    ASSUME NEW X, Special \subseteq X, NEW t \in Seq(X), NEW i \in 1 .. Len(t),
           NEW mark \in InlineMarkup, At(t, i, mark), NEW j \in i .. i + Len(mark) - 1
    PROVE  j \in 1 .. Len(t) /\ i \in 1 .. j /\ j < i + Len(mark) /\ t[j] \in Inline
<1>1. mark \in Seq(X) /\ Len(mark) \in {3, 4} /\ \A k \in 1 .. Len(mark) : mark[k] \in Inline
  BY MarksAre
<1>2. i \in Nat \ {0} /\ Len(t) \in Nat
  OBVIOUS
<1>3. Matches(t, i, mark)
  BY <1>1, <1>2, AtMatches
<1> DEFINE k == j - i + 1
           m == Len(mark)
<1>4. k \in 1 .. m /\ i + k - 1 = j /\ j < i + m /\ i \in 1 .. j
  BY <1>1, <1>2
<1>5. i + m <= Len(t) + 1 /\ \A l \in 1 .. m : t[i + l - 1] = mark[l]
  BY <1>3 DEF Matches
<1>6. j \in 1 .. Len(t)
  BY <1>1, <1>2, <1>4, <1>5
<1> HIDE DEF k
<1>7. t[j] = mark[k]
  BY <1>4, <1>5
<1>8. t[j] \in Inline
  BY <1>1, <1>4, <1>7
<1> QED
  BY <1>4, <1>6, <1>8

LEMMA AndroidMarks ==
    ASSUME NEW X, Special \subseteq X, NEW t \in Seq(X)
    PROVE  Marks(EscapeAndroid(t)) = Marks(t)
<1> DEFINE bb == AndroidBlocks(t)
<1>1. bb \in Seq(Seq(X)) /\ Len(bb) = Len(t) /\ FlattenSeq(bb) = EscapeAndroid(t)
  BY AndroidBlocksAre
<1>2. /\ Apart(bb, t, Kept)
      /\ \A i \in 1 .. Len(t) : t[i] \in Kept => bb[i] = <<t[i]>>
  BY AndroidKeeps
<1>3. \A i \in 1 .. Len(t) : Len(bb[i]) \in {1, 2}
  <2> TAKE i \in 1 .. Len(t)
  <2>1. bb[i] = <<t[i]>> \/ bb[i] = <<"\\", Letter(t[i])>>
    BY AndroidBlocksAre, AndroidImages
  <2> HIDE DEF bb
  <2> QED
    BY <2>1, TwoLengths
<1> HIDE DEF bb
<1>4. Inline \subseteq Kept
  BY DEF Inline, Kept
<1>5. ASSUME NEW i \in 1 .. Len(t), NEW mark \in InlineMarkup, At(t, i, mark)
      PROVE  Single(bb, t, i, Len(mark))
  BY <1>2, <1>4, <1>5, MarkPoints DEF Single
<1>6. Marks(FlattenSeq(bb)) = Marks(t)
  BY <1>1, <1>2, <1>3, <1>4, <1>5, MarksAlike
<1> QED
  BY <1>1, <1>6

LEMMA PlainMarks ==
    ASSUME NEW X, Special \subseteq X, NEW e \in Seq(X)
    PROVE  Marks(FlattenSeq(PlainBlocks(e))) = Marks(e)
<1> DEFINE bb == PlainBlocks(e)
<1>1. bb \in Seq(Seq(X)) /\ Len(bb) = Len(e) /\ \A i \in 1 .. Len(e) : bb[i] = PlainImage(e, i)
  BY PlainBlocksAre
<1>2. Apart(bb, e, Kept)
  BY PlainIsApart
<1>3. \A i \in 1 .. Len(e) : Len(bb[i]) \in {1, 2}
  <2> TAKE i \in 1 .. Len(e)
  <2>1. Comes(bb[i], e[i])
    BY PlainBlocksAre, PlainImages
  <2> HIDE DEF bb
  <2>2. bb[i] = <<e[i]>> \/ \E y : bb[i] = <<"&", y>>
    BY <2>1 DEF Comes
  <2> QED
    BY <2>2, TwoLengths
<1> HIDE DEF bb
<1>4. Inline \subseteq Kept
  BY DEF Inline, Kept
<1>5. ASSUME NEW i \in 1 .. Len(e), NEW mark \in InlineMarkup, At(e, i, mark)
      PROVE  Single(bb, e, i, Len(mark))
  <2> SUFFICES ASSUME NEW j \in i .. i + Len(mark) - 1
               PROVE  bb[j] = <<e[j]>>
    BY DEF Single
  <2>1. j \in 1 .. Len(e) /\ i \in 1 .. j /\ j < i + Len(mark)
    BY <1>5, MarkPoints
  <2>2. j \in Raw(e)
    <3>1. j \in DOMAIN e
      BY <2>1
    <3> QED
      BY <1>5, <2>1, <3>1 DEF Raw
  <2> QED
    BY <1>1, <2>1, <2>2, PlainImages
<1>6. Marks(FlattenSeq(bb)) = Marks(e)
  BY <1>1, <1>2, <1>3, <1>4, <1>5, MarksAlike
<1> QED
  BY <1>6 DEF bb

LEMMA PlainIsRead ==
    ASSUME NEW X, Special \subseteq X, NEW t \in Seq(X)
    PROVE  ReadXML(WritePlain(t)) =
               IF "ctl" \in Range(t) \/ ~Balanced(t) THEN <<Refused>> ELSE t
<1> DEFINE e == EscapeAndroid(t)
           w == FlattenSeq(PlainBlocks(e))
<1>1. e \in Seq(X) /\ UnescapeAndroid(e) = t
  BY AndroidIsRead
<1>2. WritePlain(t) = w
  BY DEF WritePlain, PlainBlocks
<1>3. "ctl" \in X /\ "ctl" \in Kept
  BY DEF Special, Kept
<1>4. Holds(e, <<"ctl">>) <=> "ctl" \in Range(t)
  <2> DEFINE x == <<"ctl">>
  <2>1. x \in Seq(X) /\ Len(x) > 0 /\ \A k \in 1 .. Len(x) : x[k] \in Kept
    BY <1>3
  <2>2. Holds(t, x) <=> "ctl" \in Range(t)
    BY <1>3, HoldsOne
  <2> HIDE DEF x
  <2>3. Holds(e, x) <=> Holds(t, x)
    BY <2>1, AndroidHolds
  <2> QED
    BY <2>2, <2>3 DEF x
<1>5. Marks(e) = Marks(t)
  BY AndroidMarks
<1> HIDE DEF e
<1>6. w \in Seq(X) /\ UnescapeXML(w) = e
  BY <1>1, EntitiesAreRead
<1>7. /\ ~Holds(w, CDataOpen) /\ ~Holds(w, CDataClose)
      /\ Holds(w, <<"ctl">>) <=> Holds(e, <<"ctl">>)
  BY <1>1, PlainHasNoCData
<1>8. Marks(w) = Marks(e)
  BY <1>1, PlainMarks
<1> HIDE DEF w
<1>9. Balanced(w) <=> Balanced(t)
  BY <1>5, <1>8 DEF Balanced, Marks
<1>10. ~IsPrefix(CDataOpen, w)
  <2> SUFFICES ASSUME IsPrefix(CDataOpen, w) PROVE FALSE
    OBVIOUS
  <2>1. CDataOpen \in Seq(X) /\ Len(CDataOpen) = 2
    BY CDataEnds
  <2>2. Len(w) \in Nat /\ Len(CDataOpen) <= Len(w) /\ SubSeq(CDataOpen, 1, 2) = SubSeq(w, 1, 2)
    BY <1>6, <2>1 DEF IsPrefix
  <2>3. SubSeq(CDataOpen, 1, 2) = CDataOpen
    BY <2>1, SubSeqFull
  <2>4. At(w, 1, CDataOpen)
    <3>1. 1 + 2 <= Len(w) + 1 /\ 1 + 2 - 1 = 2
      BY <2>1, <2>2
    <3> QED
      BY <2>1, <2>2, <2>3, <3>1 DEF At
  <2>5. 1 \in DOMAIN w
    BY <1>6, <2>1, <2>2
  <2> QED
    BY <1>7, <2>4, <2>5 DEF Holds
<1>11. ReadXML(w) =
           IF Holds(w, <<"ctl">>) \/ Holds(w, CDataOpen) \/ Holds(w, CDataClose) \/ ~Balanced(w)
           THEN <<Refused>> ELSE UnescapeAndroid(UnescapeXML(w))
  BY <1>10 DEF ReadXML
<1> QED
  BY <1>1, <1>2, <1>4, <1>6, <1>7, <1>9, <1>11

\* The text of a translation comes back from every kind of file, whatever its characters, or the
\* reader refuses the file: the rendering by jsonfmt, stringsfmt and xmlfmt, read by
\* encoding/json, stringsparse and xmlparse.
THEOREM TextsAreKept ==
    ASSUME NEW X, NEW t \in Seq(X)
    PROVE  ReadBack(t)
<1> DEFINE Y == X \cup Special
<1>1. t \in Seq(Y) /\ Special \subseteq Y
  OBVIOUS
<1> HIDE DEF Y
<1>2. ReadJSON(WriteJSON(t)) = t
  BY <1>1, JSONIsRead
<1>3. ReadStrings(WriteStrings(t)) = t
  BY <1>1, StringsAreRead
<1>4. ReadXML(WritePlain(t)) =
          IF "ctl" \in Range(t) \/ ~Balanced(t) THEN <<Refused>> ELSE t
  BY <1>1, PlainIsRead
<1>5. ReadXML(WriteCData(t)) =
          IF "ctl" \in Range(t) \/ Holds(t, CDataOpen) \/ Holds(t, CDataClose)
          THEN <<Refused>> ELSE t
  BY <1>1, CDataIsRead
<1> QED
  BY <1>2, <1>3, <1>4, <1>5 DEF ReadBack

LEMMA SomeTextsTyped == SomeTexts \subseteq Seq(Special)
<1> DEFINE F == Fragments \cup {<<>>}
<1>1. ASSUME NEW f \in F PROVE f \in Seq(Special)
  <2>1. {"\\", "\"", "'", "/", "\n", "\r", "ctl", "LS", "@", "&", "<", "lt;", "amp;", "n", "]"}
            \subseteq Special
    BY DEF Special
  <2>2. CASE \E c \in {"\\", "\"", "'", "/", "\n", "\r", "ctl", "LS", "@", "&", "<", "lt;", "amp;",
                       "n", "]"} : f = <<c>>
    <3>1. PICK c \in Special : f = <<c>>
      BY <2>1, <2>2
    <3> QED
      BY <3>1
  <2>3. /\ "<" \in Special /\ "b" \in Special /\ ">" \in Special /\ "/" \in Special
        /\ "u" \in Special /\ "2028" \in Special
    BY DEF Special
  <2>4. /\ <<>> \in Seq(Special) /\ <<"<", "b", ">">> \in Seq(Special)
        /\ <<"<", "/", "b", ">">> \in Seq(Special) /\ <<"u", "2028">> \in Seq(Special)
    BY <2>3
  <2>5. CDataOpen \in Seq(Special) /\ CDataClose \in Seq(Special)
    BY CDataEnds
  <2> QED
    BY <1>1, <2>2, <2>4, <2>5 DEF Fragments
<1>2. \A x \in SomeTexts : \E t \in F, u \in F, v \in F : x = t \o u \o v
  <2> DEFINE Three(t, u, v) == t \o u \o v
  <2>1. SomeTexts = {Three(t, u, v) : t, u, v \in F}
    BY DEF SomeTexts
  <2> HIDE DEF F, Three
  <2>2. ASSUME NEW x \in SomeTexts PROVE \E t \in F, u \in F, v \in F : x = Three(t, u, v)
    BY <2>1
  <2> QED
    BY <2>2 DEF Three
<1> HIDE DEF F
<1>3. ASSUME NEW x \in SomeTexts PROVE x \in Seq(Special)
  <2>0. PICK t \in F, u \in F, v \in F : x = t \o u \o v
    BY <1>2
  <2>1. t \in Seq(Special) /\ u \in Seq(Special) /\ v \in Seq(Special)
    BY <1>1
  <2>2. t \o u \in Seq(Special)
    BY <2>1, Joining
  <2> QED
    BY <2>0, <2>1, <2>2, Joining
<1> QED
  BY <1>3

\* The same of the texts the runs look at: what is exported is what is in the files.
THEOREM TextsAreRead == Spec => []FilesKeepTexts
<1>1. \A t \in SomeTexts : ReadBack(t)
  BY SomeTextsTyped, TextsAreKept
<1>2. FilesKeepTexts
  BY <1>1 DEF FilesKeepTexts, TextsReadBack
<1> QED
  BY <1>2, PTL

=============================================================================
