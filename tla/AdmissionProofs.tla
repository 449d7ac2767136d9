---------------------------- MODULE AdmissionProofs ----------------------------
(***************************************************************************)
(* Theorems about what stands in front of an operation, RateLimit and      *)
(* Identity, for any clients, requests, rates and bursts, and any tokens,  *)
(* lifetimes and timeouts.                                                 *)
(***************************************************************************)
EXTENDS RateLimit, Identity, FiniteSetTheorems, TLAPS

USE DEF Keys, Times
-----------------------------------------------------------------------------
(* RateLimit.                                                              *)

\* The units of a full bucket, and what a product with Rate or One keeps.
LEMMA FullIsLarge == Full \in Nat /\ One <= Full
<1>1. One \in Nat /\ Burst \in Nat /\ Burst >= 1 /\ One >= 1
  BY RateLimitAssumption
<1> QED
  BY <1>1 DEF Full

LEMMA RateGrows ==
    ASSUME NEW x \in Int, NEW y \in Int, x <= y
    PROVE  Rate * x \in Int /\ Rate * y \in Int /\ Rate * x <= Rate * y
<1>1. Rate \in Nat
  BY RateLimitAssumption
<1> QED
  BY <1>1

\* Whatever a client writes into the header, its requests count as its own.
LEMMA OwnAddress ==
    ASSUME NEW k \in Senders, NEW a \in Arrivals(k)
    PROVE  ClientIP(a.header, a.socket) = k
<1> USE RateLimitAssumption, AddressAssumption
<1>1. CASE k \notin Clients
  <2>1. a.header = <<>> /\ a.socket = Garbage /\ k = Unknown
    BY <1>1 DEF Arrivals
  <2> QED
    BY <2>1 DEF ClientIP, SocketKey
<1>2. CASE k \in Clients /\ a.header \notin ThroughEdge(k)
  <2>1. a.header = <<>> /\ a.socket = k
    BY <1>2 DEF Arrivals
  <2> QED
    BY <1>2, <2>1 DEF ClientIP, SocketKey
<1>3. CASE k \in Clients /\ a.header \in ThroughEdge(k)
  <2>1. PICK f \in Forged : a.header = f \o <<k>> \/ a.header = f \o <<k, Private>>
    BY <1>3 DEF ThroughEdge
  <2>2. f \in Seq(Clients \cup {Private, Garbage})
    <3>1. PICK n \in 0 .. MaxForged : f \in [1 .. n -> Clients \cup {Private, Garbage}]
      BY DEF Forged
    <3> QED
      BY <3>1
  <2> DEFINE m == Len(f) + 1
             outside == {i \in DOMAIN a.header : a.header[i] # Private}
             nearest == CHOOSE i \in outside : \A j \in outside : j <= i
  <2>3. /\ m \in DOMAIN a.header /\ a.header[m] = k
        /\ \A i \in DOMAIN a.header : i \in Nat /\ (i > m => a.header[i] = Private)
    <3>1. CASE a.header = f \o <<k>>
      BY <2>2, <3>1
    <3>2. CASE a.header = f \o <<k, Private>>
      BY <2>2, <3>2
    <3> QED
      BY <2>1, <3>1, <3>2
  <2>4. m \in outside /\ \A j \in outside : j \in Nat /\ j <= m
    BY <1>3, <2>2, <2>3
  <2>5. nearest \in outside /\ m <= nearest
    BY <2>4
  <2>6. nearest = m
    BY <2>2, <2>4, <2>5
  <2> QED
    BY <1>3, <2>3, <2>4, <2>6 DEF ClientIP
<1> QED
  BY <1>1, <1>2, <1>3
-----------------------------------------------------------------------------
(* What take computes.                                                     *)

LEMMA RefillIsBounded ==
    ASSUME NEW t \in Int, NEW l \in Int, NEW now \in Int,
           NEW b, b = [tokens |-> t, last |-> l]
    PROVE  /\ Refill(b, now) \in Int
           /\ Refill(b, now) <= Full
           /\ Refill(b, now) <= t + Rate * (now - l)
           /\ Rate * (now - l) \in Int
           /\ Refill(b, now) = Full \/ Refill(b, now) = t + Rate * (now - l)
<1>1. Rate \in Nat /\ now - l \in Int
  BY RateLimitAssumption
<1>2. (now - l) * Rate = Rate * (now - l) /\ Rate * (now - l) \in Int
  BY <1>1
<1> QED
  BY <1>2, FullIsLarge DEF Refill, Uncapped

\* A bucket is either there or full.
LEMMA FoundIsBucket ==
    ASSUME LimiterTypeOK, NEW k \in Keys, NEW now \in 0 .. clock
    PROVE  /\ Found(k, now) \in [tokens : Int, last : 0 .. clock]
           /\ Found(k, now).tokens <= Full
           /\ buckets[k] = None => Refill(Found(k, now), now) = Full
<1>1. clock \in Nat
  BY DEF LimiterTypeOK
<1>2. CASE buckets[k] = None
  <2>1. Found(k, now) = [tokens |-> Full, last |-> now] /\ Rate * (now - now) = 0
    BY <1>1, <1>2, RateLimitAssumption DEF Found
  <2>2. Refill(Found(k, now), now) = Full
    BY <2>1, <1>1, FullIsLarge, RefillIsBounded
  <2> QED
    BY <2>1, <2>2, <1>1, FullIsLarge
<1>3. CASE buckets[k] # None
  BY <1>3, <1>1, FullIsLarge DEF Found, LimiterTypeOK
<1> QED
  BY <1>2, <1>3

LEMMA LeftIsLess ==
    ASSUME LimiterTypeOK, NEW k \in Keys, NEW now \in 0 .. clock
    PROVE  /\ Refill(Found(k, now), now) \in Int
           /\ Left(k, now) \in Int
           /\ Left(k, now) < Full
           /\ ~Admitted(k, now) => Left(k, now) = Refill(Found(k, now), now)
           /\ Admitted(k, now) => Left(k, now) = Refill(Found(k, now), now) - One
<1>1. clock \in Nat /\ One \in Nat \ {0}
  BY RateLimitAssumption DEF LimiterTypeOK
<1>2. PICK t \in Int, l \in 0 .. clock : Found(k, now) = [tokens |-> t, last |-> l]
  BY FoundIsBucket
<1>3. Refill(Found(k, now), now) \in Int /\ Refill(Found(k, now), now) <= Full
  BY <1>1, <1>2, RefillIsBounded
<1> QED
  BY <1>1, <1>3, FullIsLarge DEF Left, Admitted

LEMMA CountedIsCount ==
    ASSUME NEW G \in [Times -> [Times -> Nat]], NEW now \in Times
    PROVE  /\ Counted(G, now) \in [Times -> [Times -> Nat]]
           /\ \A a, b \in Times : Counted(G, now)[a][b] =
                  IF a <= now /\ now <= b THEN G[a][b] + 1 ELSE G[a][b]
<1>1. \A a \in Times : [b \in Times |->
          IF a <= now /\ now <= b THEN G[a][b] + 1 ELSE G[a][b]] \in [Times -> Nat]
  <2> TAKE a \in Times
  <2>1. G[a] \in [Times -> Nat]
    OBVIOUS
  <2>2. \A b \in Times : G[a][b] \in Nat /\ G[a][b] + 1 \in Nat
    BY <2>1
  <2> QED
    BY <2>2
<1> QED
  BY <1>1 DEF Counted

LEMMA RetryAfterIsNumber ==
    ASSUME NEW t \in Int
    PROVE  RetryAfter(t) \in Int /\ Second * RetryAfter(t) \in Int
<1>1. Rate * Second \in Nat \ {0} /\ Second \in Nat /\ One \in Nat
  BY RateLimitAssumption
<1> DEFINE d == Rate * Second
<1>2. \A x \in Int : x \div d \in Int
  BY <1>1
<1>3. One - t + d - 1 \in Int
  BY <1>1
<1>4. RetryAfter(t) \in Int
  BY <1>2, <1>3 DEF RetryAfter
<1> QED
  BY <1>1, <1>4
-----------------------------------------------------------------------------
(* Types.                                                                  *)

LEMMA LimiterTypeInit == LimiterInit => LimiterTypeOK
BY FullIsLarge, RateLimitAssumption DEF LimiterInit, LimiterTypeOK

LEMMA TypeArrive ==
    ASSUME LimiterTypeOK, NEW r \in Requests, NEW k \in Senders, Arrive(r, k)
    PROVE  LimiterTypeOK'
<1>1. PICK a \in Arrivals(k) : pending' = [pending EXCEPT ![r] =
          [key |-> ClientIP(a.header, a.socket), peer |-> k, read |-> clock]]
  BY DEF Arrive
<1>2. ClientIP(a.header, a.socket) = k /\ k \in Keys
  BY OwnAddress, RateLimitAssumption
<1>3. clock \in 0 .. clock
  BY DEF LimiterTypeOK
<1> QED
  BY <1>1, <1>2, <1>3 DEF LimiterTypeOK, Arrive

LEMMA TypeTake ==
    ASSUME LimiterTypeOK, NEW r \in Requests, Take(r)
    PROVE  LimiterTypeOK'
<1> DEFINE k == pending[r].key
           p == pending[r].peer
           now == pending[r].read
<1>1. k \in Keys /\ p \in Keys /\ now \in 0 .. clock /\ now \in Times /\ clock \in Nat
  BY RateLimitAssumption DEF LimiterTypeOK, Take
<1>2. Left(k, now) \in Int /\ Left(k, now) < Full
  BY <1>1, LeftIsLess
<1>3. /\ DOMAIN buckets' = Keys
      /\ \A j \in Keys : buckets'[j] # None =>
             /\ buckets'[j] \in [tokens : Int, last : 0 .. clock]
             /\ buckets'[j].tokens < Full
  BY <1>1, <1>2 DEF LimiterTypeOK, Take
<1>4. granted' \in [Keys -> [Times -> [Times -> Nat]]]
  <2>1. granted[p] \in [Times -> [Times -> Nat]]
    BY <1>1 DEF LimiterTypeOK
  <2>2. Counted(granted[p], now) \in [Times -> [Times -> Nat]]
    BY <1>1, <2>1, CountedIsCount
  <2> QED
    BY <1>1, <2>2 DEF LimiterTypeOK, Take, Remember
<1>5. promise' \in [Keys -> Int \cup {None}]
  <2>1. now + Second * RetryAfter(Left(k, now)) \in Int
    BY <1>1, <1>2, RetryAfterIsNumber
  <2> QED
    BY <1>1, <2>1 DEF LimiterTypeOK, Take, Remember
<1>6. created' \in Times /\ dropped' \in [Keys -> Times \cup {None}] /\ outrun' \subseteq Keys
  BY <1>1 DEF LimiterTypeOK, Take, Remember
<1>7. clock' = clock /\ pending' \in [Requests ->
          [key : Keys, peer : Keys, read : 0 .. clock] \cup {None}]
  BY DEF LimiterTypeOK, Take
<1> QED
  BY <1>3, <1>4, <1>5, <1>6, <1>7 DEF LimiterTypeOK

LEMMA LimiterTypeTick ==
    ASSUME LimiterTypeOK, LimiterTick
    PROVE  LimiterTypeOK'
<1>1. clock' \in Times /\ 0 .. clock \subseteq 0 .. clock'
  BY RateLimitAssumption DEF LimiterTypeOK, LimiterTick
<1> QED
  BY <1>1 DEF LimiterTypeOK, LimiterTick

LEMMA LimiterTypeStep == LimiterTypeOK /\ [LimiterNext]_limiterVars => LimiterTypeOK'
<1> SUFFICES ASSUME LimiterTypeOK, [LimiterNext]_limiterVars PROVE LimiterTypeOK'
  OBVIOUS
<1>1. CASE UNCHANGED limiterVars
  BY <1>1 DEF limiterVars, LimiterTypeOK
<1> QED
  BY <1>1, TypeArrive, TypeTake, LimiterTypeTick DEF LimiterNext

\* Buckets, requests and the clock keep their types, whatever arrives: no bucket
\* is ever full, and none was used at a later time than it is.
THEOREM LimiterTypeCorrect == LimiterSpec => []LimiterTypeOK
BY LimiterTypeInit, LimiterTypeStep, PTL DEF LimiterSpec
-----------------------------------------------------------------------------
(* WindowBounded.                                                          *)

KeysArePeers == \A r \in Requests : pending[r] # None => pending[r].key = pending[r].peer

\* What g admissions since a leave of the bucket of k, or did when it was pruned.
Account(g, k, a) ==
    IF buckets[k] # None
    THEN One * g + buckets[k].tokens <= Full + Rate * (buckets[k].last - a)
    ELSE dropped[k] # None /\ One * g <= Rate * (dropped[k] - a)

Spent ==
    \A k \in Keys \ outrun : \A a, b \in Times :
        a <= b /\ granted[k][a][b] > 0 => Account(granted[k][a][b], k, a)

WindowInv == LimiterTypeOK /\ KeysArePeers /\ Spent /\ WindowBounded

\* Time that passes in two parts.
LEMMA RateAdds ==
    ASSUME NEW x \in Int, NEW y \in Int, NEW z \in Int
    PROVE  /\ Rate * (z - x) \in Int /\ Rate * (z - y) \in Int /\ Rate * (y - x) \in Int
           /\ Rate * (z - x) = Rate * (z - y) + Rate * (y - x)
<1>1. Rate \in Nat
  BY RateLimitAssumption
<1> QED
  BY <1>1

LEMMA TimePasses ==
    ASSUME NEW a \in Int, NEW now \in Int, NEW b \in Int, a <= now, now <= b
    PROVE  /\ Rate * (now - a) \in Int /\ 0 <= Rate * (now - a)
           /\ Rate * (b - a) \in Int /\ Rate * (now - a) <= Rate * (b - a)
<1>1. Rate \in Nat /\ now - a \in Nat /\ b - now \in Nat
  BY RateLimitAssumption
<1>2. Rate * (now - a) \in Nat /\ Rate * (b - now) \in Nat
  BY <1>1
<1>3. Rate * (b - a) = Rate * (b - now) + Rate * (now - a)
  BY RateAdds
<1> QED
  BY <1>2, <1>3

LEMMA OneMore ==
    ASSUME NEW g \in Nat
    PROVE  One \in Nat \ {0} /\ One * g \in Nat /\ One * (g + 1) = One * g + One /\ One * 0 = 0
<1>1. One \in Nat \ {0}
  BY RateLimitAssumption
<1> QED
  BY <1>1

\* A bucket that was there: what the request leaves of it, admitted or not.
LEMMA AdmittedFromBucket ==
    ASSUME NEW g \in Nat, NEW t \in Int, NEW l \in Int, NEW now \in Int, NEW F \in Int,
           NEW a \in Int, NEW b \in Int, a <= now, now <= b,
           g > 0 => One * g + t <= Full + Rate * (l - a),
           F <= Full, F <= t + Rate * (now - l), One <= F
    PROVE  /\ One * (g + 1) + (F - One) <= Full + Rate * (now - a)
           /\ One * (g + 1) <= Full + Rate * (b - a)
<1>1. /\ Rate * (now - a) \in Int /\ 0 <= Rate * (now - a)
      /\ Rate * (b - a) \in Int /\ Rate * (now - a) <= Rate * (b - a)
  BY TimePasses
<1>2. One \in Int /\ One * g \in Int /\ One * (g + 1) = One * g + One /\ Full \in Int
  <2>1. One \in Int /\ One * g \in Int /\ One * (g + 1) = One * g + One
    BY OneMore
  <2> QED
    BY <2>1, FullIsLarge
<1>3. CASE g = 0
  BY <1>1, <1>2, <1>3, OneMore
<1>4. CASE g > 0
  <2>1. One * g + t <= Full + Rate * (l - a)
    BY <1>4
  <2>2. /\ Rate * (now - a) = Rate * (now - l) + Rate * (l - a)
        /\ Rate * (now - l) \in Int /\ Rate * (l - a) \in Int
    BY RateAdds
  <2> QED
    BY <1>1, <1>2, <2>1, <2>2
<1> QED
  BY <1>3, <1>4

LEMMA TakenFromBucket ==
    ASSUME NEW g \in Nat, NEW t \in Int, NEW l \in Int, NEW now \in Int, NEW F \in Int,
           NEW a \in Int, NEW L \in Int,
           One * g + t <= Full + Rate * (l - a),
           F <= t + Rate * (now - l), L <= F
    PROVE  One * g + L <= Full + Rate * (now - a)
<1>1. One * g \in Int /\ Full \in Int
  BY OneMore, FullIsLarge
<1>2. /\ Rate * (now - a) = Rate * (now - l) + Rate * (l - a)
      /\ Rate * (now - l) \in Int /\ Rate * (l - a) \in Int /\ Rate * (now - a) \in Int
  BY RateAdds
<1> QED
  BY <1>1, <1>2

\* A bucket that was pruned at d and is full again.
LEMMA AdmittedFromNew ==
    ASSUME NEW g \in Nat, NEW d \in Int, NEW now \in Int, NEW a \in Int, NEW b \in Int,
           a <= now, now <= b,
           g > 0 => One * g <= Rate * (d - a) /\ d <= now
    PROVE  /\ One * (g + 1) + (Full - One) <= Full + Rate * (now - a)
           /\ One * (g + 1) <= Full + Rate * (b - a)
<1>1. /\ Rate * (now - a) \in Int /\ 0 <= Rate * (now - a)
      /\ Rate * (b - a) \in Int /\ Rate * (now - a) <= Rate * (b - a)
  BY TimePasses
<1>2. /\ One \in Int /\ One * g \in Int /\ One * (g + 1) = One * g + One
      /\ Full \in Int /\ One <= Full
  <2>1. One \in Int /\ One * g \in Int /\ One * (g + 1) = One * g + One
    BY OneMore
  <2> QED
    BY <2>1, FullIsLarge
<1>3. CASE g = 0
  BY <1>1, <1>2, <1>3, OneMore
<1>4. CASE g > 0
  <2>1. One * g <= Rate * (d - a) /\ d <= now
    BY <1>4
  <2>2. Rate * (d - a) \in Int /\ Rate * (d - a) <= Rate * (now - a)
    BY <2>1, RateGrows
  <2> QED
    BY <1>1, <1>2, <2>1, <2>2
<1> QED
  BY <1>3, <1>4

LEMMA FilledAgain ==
    ASSUME NEW g \in Nat, NEW d \in Int, NEW now \in Int, NEW a \in Int, g > 0,
           g > 0 => One * g <= Rate * (d - a) /\ d <= now
    PROVE  One * g + (Full - One) <= Full + Rate * (now - a)
<1>1. One \in Nat /\ One * g \in Int /\ Full \in Int
  <2>1. One \in Nat /\ One * g \in Int
    BY OneMore
  <2> QED
    BY <2>1, FullIsLarge
<1>2. /\ Rate * (d - a) \in Int /\ Rate * (now - a) \in Int
      /\ Rate * (d - a) <= Rate * (now - a)
  BY RateGrows
<1> QED
  BY <1>1, <1>2

\* A bucket that would be full at now is pruned.
LEMMA PrunedWhenFull ==
    ASSUME NEW g \in Nat, NEW t \in Int, NEW l \in Int, NEW now \in Int, NEW d \in Int,
           NEW a \in Int, now <= d,
           One * g + t <= Full + Rate * (l - a),
           Full <= t + Rate * (now - l)
    PROVE  One * g <= Rate * (d - a)
<1>1. One * g \in Int /\ Full \in Int
  BY OneMore, FullIsLarge
<1>2. /\ Rate * (now - a) = Rate * (now - l) + Rate * (l - a)
      /\ Rate * (now - l) \in Int /\ Rate * (l - a) \in Int /\ Rate * (now - a) \in Int
  BY RateAdds
<1>3. Rate * (d - a) \in Int /\ Rate * (now - a) <= Rate * (d - a)
  BY RateGrows
<1> QED
  BY <1>1, <1>2, <1>3

\* What a request of k at now changes, of the bucket and the account of each key.
Changes(k, now) ==
    /\ k \in Keys /\ now \in 0 .. clock /\ now \in Times /\ clock \in Nat
    /\ buckets'[k] = [tokens |-> Left(k, now), last |-> now] /\ buckets'[k] # None
    /\ granted'[k] = IF Admitted(k, now) THEN Counted(granted[k], now) ELSE granted[k]
    /\ \A j \in Keys \ {k} :
           /\ granted'[j] = granted[j]
           /\ j \in SweptBuckets(k, now) => buckets'[j] = None
           /\ j \notin SweptBuckets(k, now) => buckets'[j] = buckets[j] /\ dropped'[j] = dropped[j]
    /\ \A j \in SweptBuckets(k, now) :
           /\ buckets[j] # None /\ Full <= Refill(buckets[j], now)
           /\ dropped'[j] \in Int /\ now <= dropped'[j]
    /\ outrun \subseteq outrun'
    /\ buckets[k] = None /\ k \notin outrun' => dropped[k] = None \/ dropped[k] <= now

LEMMA TakeChanges ==
    ASSUME WindowInv, NEW r \in Requests, Take(r)
    PROVE  Changes(pending[r].key, pending[r].read)
<1> DEFINE k == pending[r].key
           now == pending[r].read
<1>1. k \in Keys /\ now \in 0 .. clock /\ now \in Times /\ clock \in Nat /\ pending[r].peer = k
  BY RateLimitAssumption DEF WindowInv, LimiterTypeOK, KeysArePeers, Take
<1>2. Left(k, now) \in Int
  BY <1>1, LeftIsLess DEF WindowInv
<1>3. buckets'[k] = [tokens |-> Left(k, now), last |-> now]
  BY <1>1 DEF Take
<1>4. buckets'[k] # None
  BY <1>1, <1>2, <1>3, NoneAssumption
<1>5. granted'[k] = IF Admitted(k, now) THEN Counted(granted[k], now) ELSE granted[k]
  BY <1>1 DEF Take, Remember, WindowInv, LimiterTypeOK
<1>6. ASSUME NEW j \in Keys \ {k}
      PROVE  /\ granted'[j] = granted[j]
             /\ j \in SweptBuckets(k, now) => buckets'[j] = None
             /\ j \notin SweptBuckets(k, now) => buckets'[j] = buckets[j] /\ dropped'[j] = dropped[j]
  BY <1>1, <1>6 DEF Take, Remember, WindowInv, LimiterTypeOK
<1>7. ASSUME NEW j \in SweptBuckets(k, now)
      PROVE  /\ buckets[j] # None /\ Full <= Refill(buckets[j], now)
             /\ dropped'[j] \in Int /\ now <= dropped'[j]
  <2>1. j \in Keys /\ buckets[j] # None /\ Refill(buckets[j], now) >= Full
    BY <1>7 DEF SweptBuckets, Prunable, Tracked
  <2>2. dropped'[j] = IF dropped[j] = None \/ dropped[j] < now THEN now ELSE dropped[j]
    BY <2>1, <1>7 DEF Take, Remember
  <2>3. dropped[j] = None \/ dropped[j] \in Int
    BY <2>1, RateLimitAssumption DEF WindowInv, LimiterTypeOK
  <2>4. PICK t \in Int, l \in 0 .. clock : buckets[j] = [tokens |-> t, last |-> l]
    BY <2>1 DEF WindowInv, LimiterTypeOK
  <2>5. Refill(buckets[j], now) \in Int /\ Full \in Int
    BY <1>1, <2>4, RefillIsBounded, FullIsLarge
  <2> QED
    BY <1>1, <2>1, <2>2, <2>3, <2>5
<1>8. /\ outrun \subseteq outrun'
      /\ buckets[k] = None /\ k \notin outrun' => dropped[k] = None \/ dropped[k] <= now
  <2>1. dropped[k] = None \/ dropped[k] \in Int
    BY <1>1, RateLimitAssumption DEF WindowInv, LimiterTypeOK
  <2> QED
    BY <1>1, <2>1 DEF Take, Remember
<1> QED
  BY <1>1, <1>3, <1>4, <1>5, <1>6, <1>7, <1>8 DEF Changes

LEMMA WindowTake ==
    ASSUME WindowInv, NEW r \in Requests, Take(r)
    PROVE  Spent' /\ WindowBounded'
<1> DEFINE NextAccount(g, j, a) ==
               IF buckets'[j] # None
               THEN One * g + buckets'[j].tokens <= Full + Rate * (buckets'[j].last - a)
               ELSE dropped'[j] # None /\ One * g <= Rate * (dropped'[j] - a)
<1>1. PICK k, now : Changes(k, now)
  BY TakeChanges
<1>2. /\ k \in Keys /\ now \in 0 .. clock /\ now \in Times /\ clock \in Nat
      /\ buckets'[k] = [tokens |-> Left(k, now), last |-> now] /\ buckets'[k] # None
      /\ granted'[k] = IF Admitted(k, now) THEN Counted(granted[k], now) ELSE granted[k]
      /\ buckets[k] = None /\ k \notin outrun' => dropped[k] = None \/ dropped[k] <= now
      /\ outrun \subseteq outrun'
  BY <1>1 DEF Changes
<1>3. \A j \in Keys \ {k} :
          /\ granted'[j] = granted[j]
          /\ j \in SweptBuckets(k, now) => buckets'[j] = None
          /\ j \notin SweptBuckets(k, now) => buckets'[j] = buckets[j] /\ dropped'[j] = dropped[j]
  BY <1>1 DEF Changes
<1>4. \A j \in SweptBuckets(k, now) :
          /\ buckets[j] # None /\ Full <= Refill(buckets[j], now)
          /\ dropped'[j] \in Int /\ now <= dropped'[j]
  BY <1>1 DEF Changes
<1>5. ASSUME NEW j \in Keys \ outrun', NEW a \in Times, NEW b \in Times, a <= b
      PROVE  /\ granted[j][a][b] \in Nat /\ a \in Int /\ b \in Int
             /\ granted[j][a][b] > 0 => Account(granted[j][a][b], j, a)
             /\ One * granted[j][a][b] <= Full + Rate * (b - a)
  <2>1. j \in Keys /\ j \notin outrun /\ a \in Int /\ b \in Int
    BY <1>2, <1>5, RateLimitAssumption
  <2>2. granted[j] \in [Times -> [Times -> Nat]]
    BY <2>1 DEF WindowInv, LimiterTypeOK
  <2>3. granted[j][a] \in [Times -> Nat]
    BY <1>5, <2>2
  <2>4. granted[j][a][b] \in Nat
    BY <1>5, <2>3
  <2>5. granted[j][a][b] > 0 => Account(granted[j][a][b], j, a)
    BY <1>5, <2>1 DEF WindowInv, Spent
  <2>6. One * granted[j][a][b] <= Full + Rate * (b - a)
    BY <1>5, <2>1 DEF WindowInv, WindowBounded
  <2> QED
    BY <2>1, <2>4, <2>5, <2>6
<1>6. ASSUME NEW j \in Keys \ outrun', NEW a \in Times, NEW b \in Times, a <= b, j # k
      PROVE  /\ granted'[j][a][b] > 0 => NextAccount(granted'[j][a][b], j, a)
             /\ One * granted'[j][a][b] <= Full + Rate * (b - a)
  <2>1. j \in Keys \ {k} /\ granted[j][a][b] \in Nat /\ a \in Int /\ b \in Int
    BY <1>5, <1>6
  <2>2. PICK g \in Nat : g = granted[j][a][b] /\ g = granted'[j][a][b]
    BY <1>3, <2>1
  <2>3. g > 0 => Account(g, j, a)
    BY <1>5, <1>6, <2>2
  <2>4. ASSUME g > 0, j \in SweptBuckets(k, now) PROVE NextAccount(g, j, a)
    <3>1. /\ buckets[j] # None /\ Full <= Refill(buckets[j], now) /\ buckets'[j] = None
          /\ dropped'[j] \in Int /\ now <= dropped'[j]
      BY <1>3, <1>4, <2>1, <2>4
    <3>2. PICK t \in Int, l \in 0 .. clock : buckets[j] = [tokens |-> t, last |-> l]
      BY <3>1 DEF WindowInv, LimiterTypeOK
    <3>3. One * g + t <= Full + Rate * (l - a)
      BY <2>3, <2>4, <3>1, <3>2 DEF Account
    <3>4. now \in Int /\ l \in Int /\ a \in Int
      BY <1>2, <2>1
    <3>5. Full <= t + Rate * (now - l)
      BY <3>1, <3>2, <3>4, RefillIsBounded, FullIsLarge
    <3>6. One * g <= Rate * (dropped'[j] - a)
      BY <3>1, <3>3, <3>4, <3>5, PrunedWhenFull
    <3> QED
      BY <3>1, <3>6, NoneAssumption
  <2>5. ASSUME g > 0, j \notin SweptBuckets(k, now) PROVE NextAccount(g, j, a)
    <3>1. buckets'[j] = buckets[j] /\ dropped'[j] = dropped[j]
      BY <1>3, <2>1, <2>5
    <3>2. Account(g, j, a)
      BY <2>5, <2>3
    <3> QED
      BY <3>1, <3>2 DEF Account
  <2> QED
    BY <1>5, <1>6, <2>2, <2>4, <2>5
<1>7. ASSUME NEW a \in Times, NEW b \in Times, a <= b, k \notin outrun'
      PROVE  /\ granted'[k][a][b] > 0 => NextAccount(granted'[k][a][b], k, a)
             /\ One * granted'[k][a][b] <= Full + Rate * (b - a)
  <2> DEFINE F == Refill(Found(k, now), now)
  <2>1. PICK g \in Nat : g = granted[k][a][b]
    BY <1>2, <1>5, <1>7
  <2>2. /\ F \in Int /\ Left(k, now) \in Int
        /\ Admitted(k, now) => Left(k, now) = F - One
        /\ ~Admitted(k, now) => Left(k, now) = F
    BY <1>2, LeftIsLess DEF WindowInv
  <2>3. granted'[k][a][b] =
            IF Admitted(k, now) /\ a <= now /\ now <= b THEN g + 1 ELSE g
    BY <1>2, <2>1, CountedIsCount DEF WindowInv, LimiterTypeOK
  <2>4. now \in Int /\ a \in Int /\ b \in Int /\ Full \in Int /\ One \in Nat /\ One <= Full
    BY <1>2, <1>5, <1>7, FullIsLarge, RateLimitAssumption
  <2>5. g > 0 => Account(g, k, a)
    BY <1>2, <1>5, <1>7, <2>1
  <2>6. One * g <= Full + Rate * (b - a)
    BY <1>2, <1>5, <1>7, <2>1
  <2>7. CASE buckets[k] = None
    <3>1. F = Full /\ Admitted(k, now) /\ Left(k, now) = Full - One
      BY <1>2, <2>2, <2>4, <2>7, FoundIsBucket DEF Admitted, WindowInv
    <3>2. PICK d \in Int : g > 0 => One * g <= Rate * (d - a) /\ d <= now
      <4>1. CASE g = 0
        BY <2>1, <4>1
      <4>2. CASE g > 0
        <5>1. dropped[k] # None /\ One * g <= Rate * (dropped[k] - a)
          BY <2>5, <2>7, <4>2 DEF Account
        <5>2. dropped[k] \in Int /\ dropped[k] <= now
          BY <1>2, <1>7, <2>7, <5>1, RateLimitAssumption DEF WindowInv, LimiterTypeOK
        <5> QED
          BY <5>1, <5>2
      <4> QED
        BY <2>1, <4>1, <4>2
    <3>3. CASE a <= now /\ now <= b
      <4>1. /\ One * (g + 1) + (Full - One) <= Full + Rate * (now - a)
            /\ One * (g + 1) <= Full + Rate * (b - a)
        BY <2>1, <2>4, <3>2, <3>3, AdmittedFromNew
      <4> QED
        BY <1>2, <2>3, <3>1, <3>3, <4>1
    <3>4. CASE ~(a <= now /\ now <= b) /\ g > 0
      <4>1. One * g + (Full - One) <= Full + Rate * (now - a)
        BY <2>1, <2>4, <3>2, <3>4, FilledAgain
      <4> QED
        BY <1>2, <2>3, <2>6, <3>1, <3>4, <4>1
    <3>5. CASE ~(a <= now /\ now <= b) /\ g = 0
      BY <2>3, <2>6, <3>5
    <3> QED
      BY <2>1, <3>3, <3>4, <3>5
  <2>8. CASE buckets[k] # None
    <3>1. PICK t \in Int, l \in 0 .. clock : buckets[k] = [tokens |-> t, last |-> l]
      BY <1>2, <2>8 DEF WindowInv, LimiterTypeOK
    <3>2. l \in Int /\ Found(k, now) = [tokens |-> t, last |-> l]
      BY <1>2, <2>8, <3>1 DEF Found
    <3>3. F <= Full /\ F <= t + Rate * (now - l)
      BY <2>4, <3>2, RefillIsBounded
    <3>4. g > 0 => One * g + t <= Full + Rate * (l - a)
      BY <2>5, <2>8, <3>1 DEF Account
    <3>5. CASE Admitted(k, now) /\ a <= now /\ now <= b
      <4>1. One <= F
        BY <3>5, <2>2, <2>4 DEF Admitted
      <4>2. /\ One * (g + 1) + (F - One) <= Full + Rate * (now - a)
            /\ One * (g + 1) <= Full + Rate * (b - a)
        BY <2>1, <2>2, <2>4, <3>2, <3>3, <3>4, <3>5, <4>1, AdmittedFromBucket
      <4> QED
        BY <1>2, <2>2, <2>3, <3>5, <4>2
    <3>6. CASE ~(Admitted(k, now) /\ a <= now /\ now <= b) /\ g > 0
      <4>1. Left(k, now) <= F
        BY <2>2, <2>4
      <4>2. One * g + Left(k, now) <= Full + Rate * (now - a)
        BY <2>1, <2>2, <2>4, <3>2, <3>3, <3>4, <3>6, <4>1, TakenFromBucket
      <4> QED
        BY <1>2, <2>3, <2>6, <3>6, <4>2
    <3>7. CASE ~(Admitted(k, now) /\ a <= now /\ now <= b) /\ g = 0
      BY <2>3, <2>6, <3>7
    <3> QED
      BY <2>1, <3>5, <3>6, <3>7
  <2> QED
    BY <2>7, <2>8
<1>8. ASSUME NEW j \in Keys \ outrun', NEW a \in Times, NEW b \in Times, a <= b
      PROVE  /\ granted'[j][a][b] > 0 => NextAccount(granted'[j][a][b], j, a)
             /\ One * granted'[j][a][b] <= Full + Rate * (b - a)
  BY <1>6, <1>7, <1>8
<1> QED
  BY <1>8 DEF Spent, Account, WindowBounded

LEMMA WindowStep == WindowInv /\ [LimiterNext]_limiterVars => WindowInv'
<1> SUFFICES ASSUME WindowInv, [LimiterNext]_limiterVars PROVE WindowInv'
  OBVIOUS
<1>1. LimiterTypeOK'
  BY LimiterTypeStep DEF WindowInv
<1>2. CASE UNCHANGED limiterVars
  BY <1>1, <1>2 DEF limiterVars, WindowInv, KeysArePeers, Spent, Account, WindowBounded
<1>3. ASSUME NEW r \in Requests, NEW k \in Senders, Arrive(r, k) PROVE WindowInv'
  <2>1. PICK a \in Arrivals(k) : pending' = [pending EXCEPT ![r] =
            [key |-> ClientIP(a.header, a.socket), peer |-> k, read |-> clock]]
    BY <1>3 DEF Arrive
  <2>2. KeysArePeers'
    BY <2>1, OwnAddress DEF WindowInv, KeysArePeers, LimiterTypeOK
  <2> QED
    BY <1>1, <1>3, <2>2 DEF Arrive, WindowInv, Spent, Account, WindowBounded
<1>4. ASSUME NEW r \in Requests, Take(r) PROVE WindowInv'
  <2>1. KeysArePeers'
    BY <1>4 DEF Take, WindowInv, KeysArePeers, LimiterTypeOK
  <2> QED
    BY <1>1, <1>4, <2>1, WindowTake DEF WindowInv
<1>5. CASE LimiterTick
  BY <1>1, <1>5 DEF LimiterTick, WindowInv, KeysArePeers, Spent, Account, WindowBounded
<1> QED
  BY <1>2, <1>3, <1>4, <1>5 DEF LimiterNext

LEMMA WindowInit == LimiterInit => WindowInv
<1> SUFFICES ASSUME LimiterInit PROVE WindowInv
  OBVIOUS
<1>1. LimiterTypeOK
  BY LimiterTypeInit
<1>2. KeysArePeers /\ Spent
  BY DEF LimiterInit, KeysArePeers, Spent
<1>3. WindowBounded
  <2> SUFFICES ASSUME NEW k \in Keys, NEW a \in Times, NEW b \in Times, a <= b
               PROVE  One * granted[k][a][b] <= Full + Rate * (b - a)
    BY DEF WindowBounded
  <2>1. a \in Int /\ b \in Int /\ granted[k][a][b] = 0
    BY RateLimitAssumption DEF LimiterInit
  <2>2. Rate * (b - a) \in Int /\ 0 <= Rate * (b - a)
    BY <2>1, TimePasses
  <2> QED
    BY <2>1, <2>2, OneMore, FullIsLarge
<1> QED
  BY <1>1, <1>2, <1>3 DEF WindowInv

\* However many requests race to the bucket, in whatever order and with whatever
\* header, a client is admitted in no stretch of time more often than the burst
\* and the refill of that stretch allow.
THEOREM WindowsBounded == LimiterSpec => []WindowBounded
<1>1. WindowInv => WindowBounded
  BY DEF WindowInv
<1> QED
  BY <1>1, WindowInit, WindowStep, PTL DEF LimiterSpec
-----------------------------------------------------------------------------
(* MapBounded.                                                             *)

\* An admission of k that is not older than the refill of its bucket: since the last
\* one nothing was taken from the bucket, and it was never full.
UsedAt(G, k, b, t) == G[k][t][t] > 0 /\ Rate * (b.last - t) <= b.tokens

InUse == \A k \in Tracked : \E t \in Times : UsedAt(granted, k, buckets[k], t)

MapInv == WindowInv /\ IsFiniteSet(Tracked) /\ InUse /\ MapBounded

\* What a request of k at now makes of its bucket.
LEMMA TakenBucket ==
    ASSUME WindowInv, InUse, NEW k \in Keys, NEW now \in 0 .. clock, now \in Times,
           Changes(k, now)
    PROVE  \E t \in Times : UsedAt(granted', k, buckets'[k], t)
<1> DEFINE F == Refill(Found(k, now), now)
<1>1. /\ buckets'[k] = [tokens |-> Left(k, now), last |-> now]
      /\ granted'[k] = IF Admitted(k, now) THEN Counted(granted[k], now) ELSE granted[k]
      /\ now \in Int
  BY DEF Changes
<1>2. /\ F \in Int /\ Left(k, now) \in Int /\ One \in Int /\ Full \in Int /\ One <= Full
      /\ ~Admitted(k, now) => Left(k, now) = F
      /\ Admitted(k, now) => Left(k, now) = F - One /\ One <= F
  BY LeftIsLess, FullIsLarge, RateLimitAssumption DEF WindowInv, Admitted
<1>3. CASE Admitted(k, now)
  <2>1. granted[k] \in [Times -> [Times -> Nat]]
    BY DEF WindowInv, LimiterTypeOK
  <2>2. granted[k][now] \in [Times -> Nat]
    BY <2>1
  <2>3. granted[k][now][now] \in Nat
    BY <2>2
  <2>4. granted'[k][now][now] = granted[k][now][now] + 1
    BY <1>1, <1>3, <2>1, CountedIsCount
  <2>5. Rate * (now - now) = 0
    BY <1>1, RateLimitAssumption
  <2>6. 0 <= Left(k, now)
    BY <1>2, <1>3
  <2>7. UsedAt(granted', k, buckets'[k], now)
    BY <1>1, <2>3, <2>4, <2>5, <2>6 DEF UsedAt
  <2> QED
    BY <2>7
<1>4. CASE ~Admitted(k, now)
  <2>1. buckets[k] # None
    <3>1. buckets[k] = None => F = Full
      BY FoundIsBucket DEF WindowInv
    <3> QED
      BY <1>2, <1>4, <3>1 DEF Admitted
  <2>2. PICK tokens \in Int, last \in 0 .. clock :
            buckets[k] = [tokens |-> tokens, last |-> last]
    BY <2>1 DEF WindowInv, LimiterTypeOK
  <2>3. Found(k, now) = [tokens |-> tokens, last |-> last] /\ last \in Int
    BY <2>1, <2>2 DEF Found
  <2>4. F = tokens + Rate * (now - last)
    <3>1. F = Full \/ F = tokens + Rate * (now - last)
      BY <1>1, <2>3, RefillIsBounded
    <3> QED
      BY <1>2, <1>4, <3>1 DEF Admitted
  <2>5. PICK t \in Times : granted[k][t][t] > 0 /\ Rate * (last - t) <= tokens
    BY <2>1, <2>2 DEF InUse, Tracked, UsedAt
  <2>6. t \in Int
    BY <2>5, RateLimitAssumption
  <2>7. /\ Rate * (now - t) = Rate * (now - last) + Rate * (last - t)
        /\ Rate * (now - last) \in Int /\ Rate * (last - t) \in Int
    BY <1>1, <2>3, <2>6, RateAdds
  <2>8. Rate * (now - t) <= Left(k, now)
    BY <1>2, <1>4, <2>4, <2>5, <2>7
  <2>9. UsedAt(granted', k, buckets'[k], t)
    BY <1>1, <1>4, <2>5, <2>8 DEF UsedAt
  <2> QED
    BY <2>9
<1> QED
  BY <1>3, <1>4

\* A bucket that the sweep at now leaves, was used within the time of a refill.
LEMMA LeftBySweep ==
    ASSUME WindowInv, InUse, NEW j \in Tracked, NEW now \in Int, j \notin Prunable(now)
    PROVE  \E t \in Times : granted[j][t][t] > 0 /\ Rate * (now - t) < Full
<1>1. PICK tokens \in Int, last \in 0 .. clock : buckets[j] = [tokens |-> tokens, last |-> last]
  BY DEF Tracked, WindowInv, LimiterTypeOK
<1>2. PICK t \in Times : granted[j][t][t] > 0 /\ Rate * (last - t) <= tokens
  BY <1>1 DEF InUse, UsedAt
<1>3. t \in Int /\ last \in Int /\ Full \in Int
  BY <1>1, <1>2, FullIsLarge, RateLimitAssumption
<1>4. tokens + Rate * (now - last) < Full /\ Rate * (now - last) \in Int
  <2>1. ~(Refill(buckets[j], now) >= Full)
    BY DEF Prunable
  <2>2. /\ Refill(buckets[j], now) \in Int /\ Rate * (now - last) \in Int
        /\ \/ Refill(buckets[j], now) = Full
           \/ Refill(buckets[j], now) = tokens + Rate * (now - last)
    BY <1>1, <1>3, RefillIsBounded
  <2> QED
    BY <1>3, <2>1, <2>2
<1>5. Rate * (now - t) = Rate * (now - last) + Rate * (last - t) /\ Rate * (last - t) \in Int
  BY <1>3, RateAdds
<1>6. Rate * (now - t) < Full
  BY <1>1, <1>2, <1>3, <1>4, <1>5
<1> QED
  BY <1>2, <1>6

LEMMA MapTake ==
    ASSUME MapInv, NEW r \in Requests, Take(r)
    PROVE  IsFiniteSet(Tracked)' /\ InUse' /\ MapBounded'
<1> DEFINE k == pending[r].key
           now == pending[r].read
<1>1. Changes(k, now) /\ WindowInv /\ InUse
  BY TakeChanges DEF MapInv
<1>2. /\ k \in Keys /\ now \in 0 .. clock /\ now \in Times /\ now \in Int
      /\ buckets'[k] # None
      /\ granted'[k] = IF Admitted(k, now) THEN Counted(granted[k], now) ELSE granted[k]
      /\ \A j \in Keys \ {k} :
             /\ granted'[j] = granted[j]
             /\ j \in SweptBuckets(k, now) => buckets'[j] = None
             /\ j \notin SweptBuckets(k, now) => buckets'[j] = buckets[j]
  BY <1>1 DEF Changes
<1>3. created' = IF buckets[k] = None THEN now ELSE created
  BY DEF Take, Remember
<1> HIDE DEF k, now
<1>4. Tracked' = (Tracked \ SweptBuckets(k, now)) \cup {k}
  <2>1. k \notin SweptBuckets(k, now)
    BY DEF SweptBuckets, Prunable, Tracked
  <2> QED
    BY <1>2, <2>1 DEF Tracked
<1>5. IsFiniteSet(Tracked)'
  <2>1. IsFiniteSet(Tracked \ SweptBuckets(k, now))
    BY FS_Subset DEF MapInv
  <2> QED
    BY <1>4, <2>1, FS_AddElement
<1>6. InUse'
  <2> SUFFICES ASSUME NEW j \in Tracked'
               PROVE  \E t \in Times : UsedAt(granted', j, buckets'[j], t)
    BY DEF InUse
  <2>1. CASE j = k
    BY <1>1, <1>2, <2>1, TakenBucket
  <2>2. CASE j # k
    <3>1. j \in Keys \ {k} /\ j \in Tracked /\ j \notin SweptBuckets(k, now)
      BY <1>4, <2>2 DEF Tracked
    <3>2. PICK t \in Times : UsedAt(granted, j, buckets[j], t)
      BY <1>1, <3>1 DEF InUse
    <3> QED
      BY <1>2, <3>1, <3>2 DEF UsedAt
  <2> QED
    BY <2>1, <2>2
<1>7. ASSUME NEW j \in Keys, NEW t \in Times, granted[j][t][t] > 0
      PROVE  granted'[j][t][t] > 0
  <2>1. CASE j # k
    BY <1>2, <1>7, <2>1
  <2>2. CASE j = k
    <3>1. granted[k] \in [Times -> [Times -> Nat]]
      BY <1>1, <1>2 DEF WindowInv, LimiterTypeOK
    <3>2. granted[k][t] \in [Times -> Nat]
      BY <3>1
    <3>3. granted[k][t][t] \in Nat
      BY <3>2
    <3>4. Counted(granted[k], now)[t][t] \in {granted[k][t][t], granted[k][t][t] + 1}
      BY <1>2, <3>1, CountedIsCount
    <3> QED
      BY <1>2, <1>7, <2>2, <3>3, <3>4
  <2> QED
    BY <2>1, <2>2
<1>8. CASE buckets[k] # None
  <2>1. Tracked' = Tracked /\ created' = created
    BY <1>2, <1>3, <1>4, <1>8 DEF SweptBuckets, Tracked
  <2>2. \A j \in Tracked : j \in Keys
    BY DEF Tracked
  <2> QED
    BY <1>5, <1>6, <1>7, <2>1, <2>2 DEF MapInv, MapBounded
<1>9. CASE buckets[k] = None
  <2> SUFFICES ASSUME Cardinality(Tracked') > BucketPruneAt, NEW j \in Tracked'
               PROVE  \E t \in Times : granted'[j][t][t] > 0 /\ Rate * (now - t) < Full
    BY <1>3, <1>5, <1>6, <1>9 DEF MapBounded
  <2>1. Cardinality(Tracked) >= BucketPruneAt
    <3> SUFFICES ASSUME ~(Cardinality(Tracked) >= BucketPruneAt)
                 PROVE  FALSE
      OBVIOUS
    <3>1. Tracked' = Tracked \cup {k} /\ k \notin Tracked
      BY <1>4, <1>9 DEF SweptBuckets, Tracked
    <3>2. Cardinality(Tracked') = Cardinality(Tracked) + 1
      BY <3>1, FS_AddElement DEF MapInv
    <3>3. Cardinality(Tracked) \in Nat /\ BucketPruneAt \in Nat
      BY FS_CardinalityType, RateLimitAssumption DEF MapInv
    <3> QED
      BY <3>2, <3>3
  <2>2. CASE j = k
    <3>1. Admitted(k, now)
      <4>1. Refill(Found(k, now), now) = Full
        BY <1>1, <1>2, <1>9, FoundIsBucket DEF WindowInv
      <4> QED
        BY <4>1, FullIsLarge, RateLimitAssumption DEF Admitted
    <3>2. granted[k] \in [Times -> [Times -> Nat]]
      BY <1>1, <1>2 DEF WindowInv, LimiterTypeOK
    <3>3. granted[k][now] \in [Times -> Nat]
      BY <1>2, <3>2
    <3>4. granted[k][now][now] \in Nat
      BY <1>2, <3>3
    <3>5. granted'[k][now][now] = granted[k][now][now] + 1
      <4>1. now <= now /\ now \in Times /\ granted'[k] = Counted(granted[k], now)
        BY <1>2, <3>1
      <4> QED
        BY <3>2, <4>1, CountedIsCount
    <3>6. Rate * (now - now) = 0 /\ 0 < Full
      BY <1>2, FullIsLarge, RateLimitAssumption
    <3> QED
      BY <1>2, <2>2, <3>4, <3>5, <3>6
  <2>3. CASE j # k
    <3>1. j \in Tracked /\ j \notin Prunable(now)
      BY <1>4, <1>9, <2>1, <2>3 DEF SweptBuckets
    <3>2. j \in Keys
      BY <3>1 DEF Tracked
    <3> QED
      BY <1>1, <1>2, <1>7, <3>1, <3>2, LeftBySweep
  <2> QED
    BY <2>2, <2>3
<1> QED
  BY <1>8, <1>9

LEMMA MapStep == MapInv /\ [LimiterNext]_limiterVars => MapInv'
<1> SUFFICES ASSUME MapInv, [LimiterNext]_limiterVars PROVE MapInv'
  OBVIOUS
<1>1. WindowInv'
  BY WindowStep DEF MapInv
<1>2. CASE UNCHANGED <<buckets, granted, created>>
  BY <1>1, <1>2 DEF MapInv, Tracked, InUse, UsedAt, MapBounded
<1>3. CASE \E r \in Requests : Take(r)
  BY <1>1, <1>3, MapTake DEF MapInv
<1> QED
  BY <1>2, <1>3 DEF LimiterNext, Arrive, LimiterTick, limiterVars

LEMMA MapInit == LimiterInit => MapInv
<1> SUFFICES ASSUME LimiterInit PROVE MapInv
  OBVIOUS
<1>1. Tracked = {}
  BY DEF LimiterInit, Tracked
<1>2. IsFiniteSet(Tracked)
  BY <1>1, FS_EmptySet
<1> QED
  BY <1>1, <1>2, WindowInit DEF MapInv, InUse, MapBounded

\* Above the threshold the map holds only clients that were admitted within the time
\* of a refill before the reading that last added one: it grows with the clients of the
\* recent past and no further, in whatever order requests reach the lock.
THEOREM MapStaysSmall == LimiterSpec => []MapBounded
<1>1. MapInv => MapBounded
  BY DEF MapInv
<1> QED
  BY <1>1, MapInit, MapStep, PTL DEF LimiterSpec
-----------------------------------------------------------------------------
(* PromiseKept.                                                            *)

\* By the time promised, the bucket will hold a token.
PromisesHold ==
    \A k \in Keys : promise[k] # None /\ buckets[k] # None =>
        One <= buckets[k].tokens + Rate * (promise[k] - buckets[k].last)

PromiseInv == WindowInv /\ PromisesHold

\* Division rounds up, so that the wait is never short of what is missing.
LEMMA RetryIsEnough ==
    ASSUME NEW t \in Int
    PROVE  /\ RetryAfter(t) \in Int /\ Second * RetryAfter(t) \in Int
           /\ Rate * (Second * RetryAfter(t)) \in Int
           /\ One <= t + Rate * (Second * RetryAfter(t))
<1> DEFINE d == Rate * Second
           n == One - t + d - 1
           q == n \div d
<1>1. Rate \in Nat /\ Second \in Nat /\ One \in Nat /\ d \in Nat \ {0} /\ n \in Int
  BY RateLimitAssumption
<1>2. RetryAfter(t) = q /\ q \in Int /\ Second * q \in Int
  BY RetryAfterIsNumber DEF RetryAfter
<1> HIDE DEF n
<1>3. \A e \in Nat \ {0} : \A m \in Int : m \div e \in Int /\ m < e * (m \div e) + e
  OBVIOUS
<1>4. n < d * q + d
  BY <1>1, <1>3
<1>5. Rate * (Second * q) = d * q /\ d * q \in Int
  BY <1>1, <1>2
<1>6. One <= t + d * q
  <2> HIDE DEF q
  <2>1. n = One - t + d - 1
    BY DEF n
  <2> QED
    BY <1>1, <1>4, <1>5, <2>1
<1> QED
  BY <1>2, <1>5, <1>6

\* A request that comes after the time promised finds the token.
LEMMA PromisedIsAdmitted ==
    ASSUME PromiseInv, NEW k \in Keys, promise[k] # None,
           NEW now \in 0 .. clock, promise[k] <= now
    PROVE  Admitted(k, now)
<1>1. One \in Int /\ Full \in Int /\ One <= Full /\ clock \in Nat /\ now \in Int
  BY FullIsLarge, RateLimitAssumption DEF PromiseInv, WindowInv, LimiterTypeOK
<1>2. CASE buckets[k] = None
  <2>1. Refill(Found(k, now), now) = Full
    BY <1>2, FoundIsBucket DEF PromiseInv, WindowInv
  <2> QED
    BY <1>1, <2>1 DEF Admitted
<1>3. CASE buckets[k] # None
  <2>1. PICK tokens \in Int, last \in 0 .. clock :
            buckets[k] = [tokens |-> tokens, last |-> last]
    BY <1>3 DEF PromiseInv, WindowInv, LimiterTypeOK
  <2>2. Found(k, now) = [tokens |-> tokens, last |-> last] /\ last \in Int
    BY <1>1, <1>3, <2>1 DEF Found
  <2>3. promise[k] \in Int
    BY DEF PromiseInv, WindowInv, LimiterTypeOK
  <2>4. One <= tokens + Rate * (promise[k] - last)
    BY <1>3, <2>1 DEF PromiseInv, PromisesHold
  <2>5. /\ Rate * (promise[k] - last) \in Int /\ Rate * (now - last) \in Int
        /\ Rate * (promise[k] - last) <= Rate * (now - last)
    BY <1>1, <2>2, <2>3, RateGrows
  <2>6. /\ Refill(Found(k, now), now) \in Int
        /\ \/ Refill(Found(k, now), now) = Full
           \/ Refill(Found(k, now), now) = tokens + Rate * (now - last)
    BY <1>1, <2>2, RefillIsBounded
  <2> QED
    BY <1>1, <2>4, <2>5, <2>6 DEF Admitted
<1> QED
  BY <1>2, <1>3

LEMMA PromiseTake ==
    ASSUME PromiseInv, NEW r \in Requests, Take(r)
    PROVE  PromisesHold'
<1> DEFINE k == pending[r].key
           now == pending[r].read
<1>1. Changes(k, now) /\ WindowInv /\ k \in Keys /\ pending[r].peer = k
  BY TakeChanges DEF PromiseInv, Changes, WindowInv, KeysArePeers, Take
<1>2. promise' = [promise EXCEPT ![k] =
          IF Admitted(k, now) THEN None ELSE now + Second * RetryAfter(Left(k, now))]
  BY <1>1 DEF Take, Remember
<1> HIDE DEF k, now
<1> SUFFICES ASSUME NEW j \in Keys, promise'[j] # None, buckets'[j] # None
             PROVE  One <= buckets'[j].tokens + Rate * (promise'[j] - buckets'[j].last)
  BY DEF PromisesHold
<1>3. CASE j = k
  <2>1. promise'[k] = now + Second * RetryAfter(Left(k, now))
    BY <1>1, <1>2, <1>3 DEF WindowInv, LimiterTypeOK
  <2>2. buckets'[k] = [tokens |-> Left(k, now), last |-> now] /\ now \in Int
    BY <1>1 DEF Changes
  <2>3. Left(k, now) \in Int
    BY <1>1, LeftIsLess DEF Changes, WindowInv
  <2>4. /\ Second * RetryAfter(Left(k, now)) \in Int
        /\ One <= Left(k, now) + Rate * (Second * RetryAfter(Left(k, now)))
    BY <2>3, RetryIsEnough
  <2>5. promise'[k] - now = Second * RetryAfter(Left(k, now))
    BY <2>1, <2>2, <2>4
  <2> QED
    BY <1>3, <2>2, <2>4, <2>5
<1>4. CASE j # k
  <2>1. buckets'[j] = buckets[j] /\ promise'[j] = promise[j]
    BY <1>1, <1>2, <1>4 DEF Changes, WindowInv, LimiterTypeOK
  <2> QED
    BY <2>1 DEF PromiseInv, PromisesHold
<1> QED
  BY <1>3, <1>4

LEMMA PromiseStep == PromiseInv /\ [LimiterNext]_limiterVars => PromiseInv'
<1> SUFFICES ASSUME PromiseInv, [LimiterNext]_limiterVars PROVE PromiseInv'
  OBVIOUS
<1>1. WindowInv'
  BY WindowStep DEF PromiseInv
<1>2. CASE UNCHANGED <<buckets, promise>>
  BY <1>1, <1>2 DEF PromiseInv, PromisesHold
<1>3. CASE \E r \in Requests : Take(r)
  BY <1>1, <1>3, PromiseTake DEF PromiseInv
<1> QED
  BY <1>2, <1>3 DEF LimiterNext, Arrive, LimiterTick, limiterVars

\* Retry-After is kept for every rate, burst and number of racing requests: who comes
\* back no earlier than it was told, and was not admitted in between, is admitted.
THEOREM PromisesAreKept == LimiterSpec => PromiseKept
<1> DEFINE Kept == \A r \in Requests :
               /\ Take(r) /\ promise[pending[r].peer] # None
               /\ pending[r].read >= promise[pending[r].peer]
               => granted' # granted
<1>1. PromiseInv => Kept
  <2> SUFFICES ASSUME PromiseInv, NEW r \in Requests, Take(r),
                      promise[pending[r].peer] # None,
                      pending[r].read >= promise[pending[r].peer]
               PROVE  granted' # granted
    OBVIOUS
  <2> DEFINE k == pending[r].key
             now == pending[r].read
  <2>1. Changes(k, now) /\ WindowInv /\ pending[r].peer = k
    BY TakeChanges DEF PromiseInv, WindowInv, KeysArePeers, Take
  <2>2. /\ k \in Keys /\ now \in 0 .. clock /\ now \in Times
        /\ granted'[k] = IF Admitted(k, now) THEN Counted(granted[k], now) ELSE granted[k]
    BY <2>1 DEF Changes
  <2>3. promise[k] # None /\ promise[k] \in Int /\ promise[k] <= now
    BY <2>1, <2>2 DEF WindowInv, LimiterTypeOK
  <2> HIDE DEF k, now
  <2>4. granted'[k] = Counted(granted[k], now)
    BY <2>2, <2>3, PromisedIsAdmitted
  <2>5. granted[k] \in [Times -> [Times -> Nat]]
    BY <2>1, <2>2 DEF WindowInv, LimiterTypeOK
  <2>6. granted[k][now] \in [Times -> Nat]
    BY <2>2, <2>5
  <2>7. granted[k][now][now] \in Nat
    BY <2>2, <2>6
  <2>8. now <= now
    BY <2>2
  <2>9. granted'[k][now][now] = granted[k][now][now] + 1
    BY <2>2, <2>4, <2>5, <2>8, CountedIsCount
  <2> QED
    BY <2>7, <2>9
<1>2. PromiseInv => [Kept]_limiterVars
  BY <1>1
<1>3. LimiterInit => PromiseInv
  BY WindowInit DEF LimiterInit, PromiseInv, PromisesHold
<1> QED
  BY <1>2, <1>3, PromiseStep, PTL DEF LimiterSpec, PromiseKept
-----------------------------------------------------------------------------
(* Identity.                                                               *)

\* A request under way, by its stage.
LEMMA StageFields ==
    ASSUME TypeOK, NEW r \in Requests, request[r] # None
    PROVE  /\ request[r] \in [ask : Common, at : Stages]
           /\ request[r].ask.token \in Tokens /\ request[r].ask.minRole \in Roles
           /\ request[r].at.stage \in {"asking", "answered", "verified"}
           /\ request[r].at.stage = "verified" => request[r].at = Verified
           /\ request[r].at.stage # "verified" =>
                  request[r].at.since \in Times /\ clock <= request[r].at.since + Timeout
           /\ request[r].at.stage = "answered" =>
                  request[r].at.left \in Nat \ {0} /\ request[r].at.heard \in Times
<1>1. request[r] \in [ask : Common, at : Stages]
  BY DEF TypeOK
<1>2. request[r].ask.token \in Tokens /\ request[r].ask.minRole \in Roles
  BY <1>1 DEF Common
<1>3. /\ request[r].at.stage \in {"asking", "answered", "verified"}
      /\ request[r].at.stage = "verified" => request[r].at = Verified
      /\ request[r].at.stage # "verified" => request[r].at.since \in Times
      /\ request[r].at.stage = "answered" =>
             request[r].at.left \in Nat \ {0} /\ request[r].at.heard \in Times
  BY <1>1 DEF Stages, Verified
<1>4. request[r].at.stage # "verified" => clock <= request[r].at.since + Timeout
  BY DEF TypeOK
<1> QED
  BY <1>1, <1>2, <1>3, <1>4

LEMMA TimesAreNumbers ==
    ASSUME TypeOK
    PROVE  clock \in Nat /\ \A t \in Tokens : expiry[t] \in Nat /\ heard[t] \in Nat
<1>1. clock \in Nat /\ \A t \in Tokens : heard[t] \in Nat
  BY IdentityAssumption DEF TypeOK
<1>2. \A t \in Tokens : expiry[t] \in Lifetimes
  BY DEF TypeOK
<1>3. Lifetimes \subseteq Nat
  BY IdentityAssumption
<1> QED
  BY <1>1, <1>2, <1>3

LEMMA TtlIsBounded ==
    ASSUME NEW n \in Nat \ {0}
    PROVE  Ttl(n) \in Nat \ {0} /\ Ttl(n) <= n /\ Ttl(n) <= MaxCacheTTL
BY IdentityAssumption DEF Ttl
-----------------------------------------------------------------------------
(* Types.                                                                  *)

LEMMA TypeInit == Init => TypeOK
BY IdentityAssumption DEF Init, TypeOK

LEMMA TypeChangeUser ==
    ASSUME TypeOK, NEW row \in Rows, ChangeUser(row)
    PROVE  TypeOK'
<1>1. ASSUME NEW r \in Requests
      PROVE  /\ request'[r] \in [ask : Common, at : Stages] \cup {None}
             /\ request[r] = None => request'[r] = None
             /\ request[r] # None => request'[r].at = request[r].at
  <2>1. CASE request[r] = None
    BY <2>1 DEF ChangeUser
  <2>2. CASE request[r] # None
    <3>1. request[r] \in [ask : Common, at : Stages]
      BY <2>2, StageFields
    <3>2. Satisfies(row, request[r].ask.minRole) \in BOOLEAN
      BY DEF Satisfies
    <3>3. request'[r] = [request[r] EXCEPT !.ask.fit = @ \/ Satisfies(row, request[r].ask.minRole)]
      BY <2>2 DEF ChangeUser
    <3> QED
      BY <2>2, <3>1, <3>2, <3>3 DEF Common
  <2> QED
    BY <2>1, <2>2
<1>2. request' = [r \in Requests |-> request'[r]]
  BY DEF ChangeUser
<1> QED
  BY <1>1, <1>2 DEF TypeOK, ChangeUser

LEMMA TypePresent ==
    ASSUME TypeOK, NEW r \in Requests, NEW t \in Tokens, NEW minRole \in Roles,
           Present(r, t, minRole)
    PROVE  TypeOK'
<1> DEFINE ask == [token |-> t, minRole |-> minRole, fit |-> Satisfies(user, minRole)]
           at == IF Hit(t) THEN Verified ELSE [stage |-> "asking", since |-> clock]
<1>1. request' = [request EXCEPT ![r] = [ask |-> ask, at |-> at]]
  BY DEF Present
<1>2. ask \in Common
  BY DEF Common, Satisfies
<1>3. at \in Stages /\ (at.stage # "verified" => clock <= at.since + Timeout)
  BY IdentityAssumption DEF Stages, Verified, TypeOK
<1> HIDE DEF ask, at
<1> QED
  BY <1>1, <1>2, <1>3 DEF TypeOK, Present

LEMMA TypeMoves ==
    ASSUME TypeOK, NEW r \in Requests, request[r] # None, NEW at \in Stages, Moves(r, at),
           clock' = clock, at.stage # "verified" => clock <= at.since + Timeout
    PROVE  /\ request' \in [Requests -> [ask : Common, at : Stages] \cup {None}]
           /\ \A q \in Requests : request'[q] # None /\ request'[q].at.stage # "verified" =>
                  clock' <= request'[q].at.since + Timeout
<1>1. request'[r] = [request[r] EXCEPT !.at = at] /\ request[r] \in [ask : Common, at : Stages]
  BY DEF Moves, TypeOK
<1> QED
  BY <1>1 DEF Moves, TypeOK

LEMMA TypeConfirm ==
    ASSUME TypeOK, NEW r \in Requests, Confirm(r)
    PROVE  TypeOK'
<1> DEFINE t == request[r].ask.token
           at == [stage |-> "answered", since |-> request[r].at.since,
                  left |-> expiry[t] - clock, heard |-> clock]
<1>1. request[r] # None /\ request[r].at.stage = "asking" /\ Good(t) /\ Moves(r, at)
  BY DEF Confirm, Asking
<1>2. t \in Tokens /\ request[r].at.since \in Times /\ clock <= request[r].at.since + Timeout
  BY <1>1, StageFields
<1>3. expiry[t] - clock \in Nat \ {0} /\ clock \in Times
  <2>1. expiry[t] \in Nat /\ clock \in Nat /\ clock \in Times
    BY <1>2, TimesAreNumbers DEF TypeOK
  <2> QED
    BY <1>1, <2>1 DEF Good
<1>4. at \in Stages /\ clock <= at.since + Timeout
  BY <1>2, <1>3 DEF Stages
<1> HIDE DEF at
<1> QED
  BY <1>1, <1>4, TypeMoves DEF TypeOK, Confirm

LEMMA TypeStore ==
    ASSUME TypeOK, NEW r \in Requests, Store(r)
    PROVE  TypeOK'
<1> DEFINE t == request[r].ask.token
           u == clock + Ttl(request[r].at.left)
<1>1. request[r] # None /\ request[r].at.stage = "answered" /\ Moves(r, Verified)
  BY DEF Store
<1>2. t \in Tokens /\ request[r].at.left \in Nat \ {0} /\ request[r].at.heard \in Times
  BY <1>1, StageFields
<1>3. u \in 1 .. MaxTime + MaxCacheTTL
  BY <1>2, TtlIsBounded, IdentityAssumption DEF TypeOK
<1>4. Verified \in Stages /\ Verified.stage = "verified"
  BY DEF Stages, Verified
<1>5. cache' \in [Tokens -> 1 .. MaxTime + MaxCacheTTL \cup {None}]
  BY <1>2, <1>3 DEF Store, TypeOK
<1>6. heard' \in [Tokens -> Times]
  BY <1>2, IdentityAssumption DEF Store, TypeOK
<1> QED
  BY <1>1, <1>4, <1>5, <1>6, TypeMoves DEF TypeOK, Store

LEMMA TypeTick ==
    ASSUME TypeOK, Tick
    PROVE  TypeOK'
<1>1. clock' \in Times /\ clock' = clock + 1 /\ clock \in Nat
  BY IdentityAssumption DEF TypeOK, Tick
<1>2. ASSUME NEW r \in Requests, request[r] # None, request[r].at.stage # "verified"
      PROVE  clock' <= request[r].at.since + Timeout
  BY <1>1, <1>2, StageFields, IdentityAssumption DEF Tick, DueNow
<1> QED
  BY <1>1, <1>2 DEF TypeOK, Tick

LEMMA TypeStep == TypeOK /\ [Next]_vars => TypeOK'
<1> SUFFICES ASSUME TypeOK, [Next]_vars PROVE TypeOK'
  OBVIOUS
<1>1. CASE UNCHANGED vars
  BY <1>1 DEF vars, TypeOK
<1>2. ASSUME NEW row \in Rows, Grant(row) PROVE TypeOK'
  BY <1>2, TypeChangeUser DEF Grant
<1>3. ASSUME NEW role \in Roles, SetRole(role) PROVE TypeOK'
  <2>1. user \in Rows
    BY <1>3 DEF SetRole, TypeOK
  <2>2. [user EXCEPT !.role = role] \in Rows
    BY <2>1 DEF Rows
  <2> QED
    BY <1>3, <2>2, TypeChangeUser DEF SetRole
<1>4. ASSUME NEW t \in Tokens, RevokeToken(t) PROVE TypeOK'
  BY <1>4 DEF RevokeToken, TypeOK
<1>5. ASSUME NEW r \in Requests, Deny(r) \/ Unavailable(r) \/ Admit(r) \/ Refuse(r)
      PROVE  TypeOK'
  BY <1>5 DEF Deny, Unavailable, Admit, Refuse, Ends, TypeOK
<1> QED
  BY <1>1, <1>2, <1>3, <1>4, <1>5, TypeTick, TypePresent, TypeConfirm, TypeStore DEF Next

\* Tokens, cache, users and requests keep their types, and no call to Google is
\* ever under way for longer than its timeout.
THEOREM TypeCorrect == Spec => []TypeOK
BY TypeInit, TypeStep, PTL DEF Spec
-----------------------------------------------------------------------------
(* PassesOnTime and CacheBounded.                                          *)

\* What a token's answer says of it: it was good when Google was asked.
Told(t, since, h) ==
    /\ since <= h /\ h <= clock
    /\ revoked[t] # None => h <= revoked[t]

AnswersAreTrue ==
    \A r \in Requests : request[r] # None =>
        /\ request[r].at.stage = "asking" => request[r].at.since <= clock
        /\ request[r].at.stage = "answered" =>
               /\ Told(request[r].ask.token, request[r].at.since, request[r].at.heard)
               /\ request[r].at.left + request[r].at.heard = expiry[request[r].ask.token]

EntriesEnd ==
    \A t \in Tokens : cache[t] # None =>
        /\ heard[t] <= clock
        /\ revoked[t] # None => heard[t] <= revoked[t]
        /\ cache[t] <= expiry[t] + Timeout
        /\ cache[t] <= heard[t] + Timeout + MaxCacheTTL

CacheInv == TypeOK /\ AnswersAreTrue /\ EntriesEnd

\* The entry made of an answer.
LEMMA StoredEntry ==
    ASSUME CacheInv, NEW r \in Requests, Store(r)
    PROVE  LET t == request[r].ask.token
               u == clock + Ttl(request[r].at.left)
               h == request[r].at.heard
           IN /\ t \in Tokens /\ h \in Times /\ u \in Nat
              /\ h <= clock /\ clock <= h + Timeout /\ clock < expiry[t] + Timeout
              /\ revoked[t] # None => h <= revoked[t]
              /\ u <= expiry[t] + Timeout /\ u <= h + Timeout + MaxCacheTTL
<1> DEFINE t == request[r].ask.token
           h == request[r].at.heard
           since == request[r].at.since
           left == request[r].at.left
<1>1. request[r] # None /\ request[r].at.stage = "answered"
  BY DEF Store
<1>2. /\ t \in Tokens /\ h \in Times /\ left \in Nat \ {0}
      /\ since \in Times /\ clock <= since + Timeout
  BY <1>1, StageFields DEF CacheInv
<1>3. since <= h /\ h <= clock /\ left + h = expiry[t] /\ (revoked[t] # None => h <= revoked[t])
  BY <1>1 DEF CacheInv, AnswersAreTrue, Told
<1>4. Ttl(left) \in Nat \ {0} /\ Ttl(left) <= left /\ Ttl(left) <= MaxCacheTTL
  BY <1>2, TtlIsBounded
<1>5. /\ clock \in Nat /\ expiry[t] \in Nat /\ Timeout \in Nat /\ MaxCacheTTL \in Nat
      /\ h \in Nat /\ since \in Nat
  <2>1. Timeout \in Nat /\ MaxCacheTTL \in Nat /\ MaxTime \in Nat
    BY IdentityAssumption
  <2> QED
    BY <1>2, <2>1, TimesAreNumbers DEF CacheInv
<1> HIDE DEF t, h, since, left
<1>6. clock <= h + Timeout /\ clock < expiry[t] + Timeout
  BY <1>2, <1>3, <1>5
<1>7. clock + Ttl(left) <= expiry[t] + Timeout /\ clock + Ttl(left) <= h + Timeout + MaxCacheTTL
  BY <1>2, <1>3, <1>4, <1>5
<1> USE DEF t, h, left
<1> QED
  BY <1>2, <1>3, <1>4, <1>5, <1>6, <1>7

LEMMA CacheInit == Init => CacheInv
BY TypeInit DEF Init, CacheInv, AnswersAreTrue, EntriesEnd

LEMMA CacheMoves ==
    ASSUME CacheInv, NEW r \in Requests, request[r] # None, NEW at, Moves(r, at),
           UNCHANGED <<clock, expiry, revoked>>,
           at.stage = "asking" => at.since <= clock,
           at.stage = "answered" =>
               /\ Told(request[r].ask.token, at.since, at.heard)
               /\ at.left + at.heard = expiry[request[r].ask.token]
    PROVE  AnswersAreTrue'
<1>1. request'[r].ask = request[r].ask /\ request'[r].at = at
  BY DEF Moves, CacheInv, TypeOK
<1>2. \A q \in Requests \ {r} : request'[q] = request[q]
  BY DEF Moves, CacheInv, TypeOK
<1> QED
  BY <1>1, <1>2 DEF CacheInv, AnswersAreTrue, Told

LEMMA CacheStep == CacheInv /\ [Next]_vars => CacheInv'
<1> SUFFICES ASSUME CacheInv, [Next]_vars PROVE CacheInv'
  OBVIOUS
<1>0. TypeOK' /\ TypeOK
  BY TypeStep DEF CacheInv
<1>1. CASE UNCHANGED vars
  BY <1>0, <1>1 DEF vars, CacheInv, AnswersAreTrue, Told, EntriesEnd
<1>2. ASSUME NEW row, ChangeUser(row) PROVE CacheInv'
  <2>1. \A r \in Requests :
            /\ request'[r] # None => request[r] # None
            /\ request[r] # None => /\ request'[r].at = request[r].at
                                    /\ request'[r].ask.token = request[r].ask.token
    <3> TAKE r \in Requests
    <3>1. CASE request[r] = None
      BY <1>2, <3>1 DEF ChangeUser
    <3>2. CASE request[r] # None
      BY <1>0, <1>2, <3>2, StageFields DEF ChangeUser, Common
    <3> QED
      BY <3>1, <3>2
  <2> QED
    BY <1>0, <1>2, <2>1 DEF ChangeUser, CacheInv, AnswersAreTrue, Told, EntriesEnd
<1>3. ASSUME NEW t \in Tokens, RevokeToken(t) PROVE CacheInv'
  <2>1. \A u \in Tokens : revoked'[u] # None =>
            (revoked'[u] = revoked[u] /\ revoked[u] # None) \/ revoked'[u] = clock
    BY <1>0, <1>3 DEF RevokeToken, TypeOK
  <2>2. AnswersAreTrue'
    <3>1. ASSUME NEW r \in Requests, request[r] # None, request[r].at.stage = "answered"
          PROVE  request[r].ask.token \in Tokens
      BY <1>0, <3>1, StageFields
    <3> QED
      BY <1>3, <2>1, <3>1 DEF RevokeToken, CacheInv, AnswersAreTrue, Told
  <2>3. EntriesEnd'
    BY <1>3, <2>1 DEF RevokeToken, CacheInv, EntriesEnd
  <2> QED
    BY <1>0, <2>2, <2>3 DEF CacheInv
<1>4. CASE Tick
  <2>1. clock \in Nat /\ clock' = clock + 1
    BY <1>0, <1>4, IdentityAssumption DEF Tick, TypeOK
  <2>2. AnswersAreTrue'
    <3> SUFFICES ASSUME NEW r \in Requests, request[r] # None
                 PROVE  /\ request[r].at.stage = "asking" => request[r].at.since <= clock'
                        /\ request[r].at.stage = "answered" =>
                             request[r].at.heard <= clock'
      BY <1>4 DEF Tick, CacheInv, AnswersAreTrue, Told
    <3>1. /\ request[r].at.stage = "asking" => request[r].at.since \in Nat
          /\ request[r].at.stage = "answered" => request[r].at.heard \in Nat
      BY <1>0, StageFields, IdentityAssumption
    <3> QED
      BY <2>1, <3>1 DEF CacheInv, AnswersAreTrue, Told
  <2>3. EntriesEnd'
    <3>1. \A t \in Tokens : heard[t] \in Nat
      BY <1>0, IdentityAssumption DEF TypeOK
    <3> QED
      BY <1>4, <2>1, <3>1 DEF Tick, CacheInv, EntriesEnd
  <2> QED
    BY <1>0, <2>2, <2>3 DEF CacheInv
<1>5. ASSUME NEW r \in Requests, NEW t \in Tokens, NEW minRole \in Roles, Present(r, t, minRole)
      PROVE  CacheInv'
  <2>1. \A q \in Requests \ {r} : request'[q] = request[q]
    BY <1>0, <1>5 DEF Present, TypeOK
  <2>2. /\ request'[r].at.stage # "answered"
        /\ request'[r].at.stage = "asking" => request'[r].at.since = clock
    BY <1>0, <1>5 DEF Present, TypeOK, Verified
  <2>3. clock <= clock
    BY <1>0, IdentityAssumption DEF TypeOK
  <2> QED
    BY <1>0, <1>5, <2>1, <2>2, <2>3 DEF Present, CacheInv, AnswersAreTrue, Told, EntriesEnd
<1>6. ASSUME NEW r \in Requests, Confirm(r) PROVE CacheInv'
  <2> DEFINE t == request[r].ask.token
             at == [stage |-> "answered", since |-> request[r].at.since,
                    left |-> expiry[t] - clock, heard |-> clock]
  <2>1. request[r] # None /\ request[r].at.stage = "asking" /\ Good(t) /\ Moves(r, at)
    BY <1>6 DEF Confirm, Asking
  <2>2. t \in Tokens /\ request[r].at.since <= clock
    BY <1>0, <2>1, StageFields DEF CacheInv, AnswersAreTrue
  <2>3. expiry[t] \in Nat /\ clock \in Nat
    BY <1>0, <2>2, TimesAreNumbers
  <2>4. Told(t, at.since, at.heard) /\ at.left + at.heard = expiry[t]
    BY <2>1, <2>2, <2>3 DEF Told, Good
  <2>5. AnswersAreTrue'
    <3> HIDE DEF at
    <3>1. at.stage = "answered"
      BY DEF at
    <3> QED
      BY <1>6, <2>1, <2>4, <3>1, CacheMoves DEF Confirm
  <2> QED
    BY <1>0, <1>6, <2>5 DEF Confirm, CacheInv, EntriesEnd
<1>7. ASSUME NEW r \in Requests, Store(r) PROVE CacheInv'
  <2>1. AnswersAreTrue'
    <3>1. Verified.stage = "verified"
      BY DEF Verified
    <3> QED
      BY <1>7, <3>1, CacheMoves DEF Store
  <2>2. EntriesEnd'
    <3> SUFFICES ASSUME NEW u \in Tokens, cache'[u] # None
                 PROVE  /\ heard'[u] <= clock
                        /\ revoked[u] # None => heard'[u] <= revoked[u]
                        /\ cache'[u] <= expiry[u] + Timeout
                        /\ cache'[u] <= heard'[u] + Timeout + MaxCacheTTL
      BY <1>7 DEF Store, EntriesEnd
    <3>1. CASE u = request[r].ask.token
      BY <1>7, <3>1, StoredEntry DEF Store
    <3>2. CASE u # request[r].ask.token
      <4>1. cache'[u] = cache[u] /\ heard'[u] = heard[u]
        BY <1>7, <3>2 DEF Store
      <4> QED
        BY <4>1 DEF CacheInv, EntriesEnd
    <3> QED
      BY <3>1, <3>2
  <2> QED
    BY <1>0, <2>1, <2>2 DEF CacheInv
<1>8. ASSUME NEW r \in Requests, Deny(r) \/ Unavailable(r) \/ Admit(r) \/ Refuse(r)
      PROVE  CacheInv'
  BY <1>0, <1>8 DEF Deny, Unavailable, Admit, Refuse, Ends, CacheInv, AnswersAreTrue, Told,
                    EntriesEnd, TypeOK
<1> QED
  BY <1>1, <1>2, <1>3, <1>4, <1>5, <1>6, <1>7, <1>8 DEF Next, Grant, SetRole

LEMMA PassesInTime ==
    ASSUME CacheInv, [Next]_vars, NEW r \in Requests, Passes(r)
    PROVE  LET t == request'[r].ask.token
           IN /\ clock < expiry[t] + Timeout
              /\ revoked[t] # None => clock < revoked[t] + MaxCacheTTL + Timeout
<1> DEFINE t == request'[r].ask.token
           Goal == /\ clock < expiry[t] + Timeout
                   /\ revoked[t] # None => clock < revoked[t] + MaxCacheTTL + Timeout
<1>0. /\ TypeOK /\ clock \in Nat /\ Timeout \in Nat \ {0} /\ MaxCacheTTL \in Nat \ {0}
  BY TimesAreNumbers, IdentityAssumption DEF CacheInv
<1>1. \A u \in Tokens : expiry[u] \in Nat /\ heard[u] \in Nat
          /\ (revoked[u] # None => revoked[u] \in Nat) /\ (cache[u] # None => cache[u] \in Nat)
  BY <1>0, TimesAreNumbers, IdentityAssumption DEF TypeOK
<1>2. request'[r] # None /\ request'[r].at = Verified
      /\ (request[r] = None \/ request[r].at # Verified)
  BY DEF Passes
<1>3. ASSUME NEW u \in Tokens, NEW m \in Roles, Present(r, u, m) PROVE Goal
  <2>1. /\ request'[r].at = (IF Hit(u) THEN Verified ELSE [stage |-> "asking", since |-> clock])
        /\ t = u
    BY <1>0, <1>3 DEF Present, TypeOK
  <2>2. cache[u] # None /\ clock < cache[u]
    BY <1>2, <2>1 DEF Hit, Verified
  <2>3. /\ cache[u] <= expiry[u] + Timeout
        /\ cache[u] <= heard[u] + Timeout + MaxCacheTTL
        /\ revoked[u] # None => heard[u] <= revoked[u]
    BY <2>2 DEF CacheInv, EntriesEnd
  <2> QED
    BY <1>0, <1>1, <2>1, <2>2, <2>3
<1>4. ASSUME Store(r) PROVE Goal
  <2> DEFINE u == request[r].ask.token
             h == request[r].at.heard
  <2>1. /\ u \in Tokens /\ h \in Times /\ clock <= h + Timeout /\ clock < expiry[u] + Timeout
        /\ revoked[u] # None => h <= revoked[u]
    BY <1>4, StoredEntry
  <2>2. t = u
    BY <1>0, <1>4 DEF Store, Moves, TypeOK
  <2>3. h \in Nat
    BY <2>1, IdentityAssumption
  <2> HIDE DEF u, h, t
  <2> QED
    BY <1>0, <1>1, <2>1, <2>2, <2>3
<1>5. CASE UNCHANGED request
  BY <1>2, <1>5
<1>7. ASSUME NEW row, ChangeUser(row) PROVE FALSE
  <2>1. request[r] # None /\ request'[r].at = request[r].at
    <3>1. request[r] # None
      BY <1>2, <1>7 DEF ChangeUser
    <3> QED
      BY <1>0, <1>7, <3>1, StageFields DEF ChangeUser
  <2> QED
    BY <1>2, <2>1
<1>6. ASSUME NEW q \in Requests, NEW at, request' = [request EXCEPT ![q] = at],
             q = r => at = None
      PROVE  FALSE
  BY <1>0, <1>2, <1>6 DEF TypeOK
<1>8. ASSUME Confirm(r) PROVE FALSE
  BY <1>0, <1>2, <1>8 DEF Confirm, Moves, Verified, TypeOK
<1>9. Goal
  <2>1. ASSUME NEW q \in Requests \ {r},
               \/ Confirm(q) \/ Store(q)
               \/ \E u \in Tokens, m \in Roles : Present(q, u, m)
        PROVE  FALSE
    BY <1>0, <1>2, <2>1 DEF Confirm, Store, Moves, Present, TypeOK
  <2>2. ASSUME NEW q \in Requests, Deny(q) \/ Unavailable(q) \/ Admit(q) \/ Refuse(q)
        PROVE  FALSE
    BY <1>6, <2>2 DEF Deny, Unavailable, Admit, Refuse, Ends
  <2>3. CASE UNCHANGED vars \/ Tick \/ \E u \in Tokens : RevokeToken(u)
    BY <1>5, <2>3 DEF vars, Tick, RevokeToken
  <2>4. CASE (\E row \in Rows : Grant(row)) \/ (\E role \in Roles : SetRole(role))
    BY <1>7, <2>4 DEF Grant, SetRole
  <2> HIDE DEF Goal
  <2>5. ASSUME NEW q \in Requests,
               \/ \E u \in Tokens, m \in Roles : Present(q, u, m)
               \/ Confirm(q) \/ Store(q)
               \/ Deny(q) \/ Unavailable(q) \/ Admit(q) \/ Refuse(q)
        PROVE  Goal
    <3>1. CASE q = r
      <4>1. ASSUME NEW u \in Tokens, NEW m \in Roles, Present(q, u, m) PROVE Goal
        BY <1>3, <3>1, <4>1
      <4>2. CASE Store(q)
        BY <1>4, <3>1, <4>2
      <4>3. CASE Confirm(q)
        BY <1>8, <3>1, <4>3
      <4> QED
        BY <2>2, <2>5, <4>1, <4>2, <4>3
    <3>2. CASE q # r
      BY <2>1, <2>2, <2>5, <3>2
    <3> QED
      BY <3>1, <3>2
  <2>6. CASE Next
    BY <2>3, <2>4, <2>5, <2>6 DEF Next
  <2>7. CASE UNCHANGED vars
    BY <2>3, <2>7
  <2> QED
    BY <2>6, <2>7
<1> QED
  BY <1>9

\* A cached verification ends with its token, and soon after a revocation, but for
\* the time that the cached answer took.
THEOREM VerificationsEnd == Spec => PassesOnTime
<1>1. CacheInv /\ [Next]_vars =>
          [\A r \in Requests : Passes(r) =>
              LET t == request'[r].ask.token
              IN /\ clock < expiry[t] + Timeout
                 /\ revoked[t] # None => clock < revoked[t] + MaxCacheTTL + Timeout]_vars
  BY PassesInTime
<1> QED
  BY <1>1, CacheInit, CacheStep, PTL DEF Spec, PassesOnTime
-----------------------------------------------------------------------------
(* CacheBounded.                                                           *)

SweptInv == CacheInv /\ IsFiniteSet(Cached) /\ CacheBounded

LEMMA SweptStore ==
    ASSUME SweptInv, NEW r \in Requests, Store(r)
    PROVE  IsFiniteSet(Cached)' /\ CacheBounded'
<1> DEFINE t == request[r].ask.token
<1>0. TypeOK /\ t \in Tokens /\ stored' = clock
  BY StoredEntry DEF Store, SweptInv, CacheInv
<1>1. \A u \in Tokens \ {t} :
          /\ u \in Swept => cache'[u] = None
          /\ u \notin Swept => cache'[u] = cache[u] /\ heard'[u] = heard[u]
  BY <1>0 DEF Store
<1>2. Cached' \subseteq Cached \cup {t}
  BY <1>1 DEF Cached
<1>3. /\ IsFiniteSet(Cached) /\ Cardinality(Cached) \in Nat
      /\ IsFiniteSet(Cached \cup {t}) /\ Cardinality(Cached \cup {t}) <= Cardinality(Cached) + 1
  <2>1. IsFiniteSet(Cached) /\ Cardinality(Cached) \in Nat
    BY FS_CardinalityType DEF SweptInv
  <2>2. IsFiniteSet(Cached \cup {t})
        /\ (Cardinality(Cached \cup {t}) = Cardinality(Cached)
            \/ Cardinality(Cached \cup {t}) = Cardinality(Cached) + 1)
    BY <2>1, FS_AddElement
  <2> QED
    BY <2>1, <2>2
<1>4. IsFiniteSet(Cached') /\ Cardinality(Cached') \in Nat
      /\ Cardinality(Cached') <= Cardinality(Cached) + 1
  <2>1. IsFiniteSet(Cached') /\ Cardinality(Cached') <= Cardinality(Cached \cup {t})
    BY <1>2, <1>3, FS_Subset
  <2>2. Cardinality(Cached') \in Nat /\ Cardinality(Cached \cup {t}) \in Nat
    BY <1>3, <2>1, FS_CardinalityType
  <2> QED
    BY <1>3, <2>1, <2>2
<1>5. ASSUME Cardinality(Cached') > PruneAt, NEW u \in Cached'
      PROVE  clock < heard'[u] + Timeout + MaxCacheTTL
  <2>0. /\ clock \in Nat /\ Timeout \in Nat \ {0} /\ MaxCacheTTL \in Nat \ {0} /\ PruneAt \in Nat
        /\ u \in Tokens
    BY <1>0, TimesAreNumbers, IdentityAssumption DEF Cached
  <2>1. CASE u = t
    <3>1. /\ heard'[u] = request[r].at.heard /\ request[r].at.heard \in Nat
          /\ clock <= request[r].at.heard + Timeout
      BY <1>0, <2>1, StoredEntry, IdentityAssumption DEF Store, SweptInv
    <3> QED
      BY <2>0, <3>1
  <2>2. CASE u # t
    <3>1. Cardinality(Cached) >= PruneAt
      BY <1>3, <1>4, <1>5, <2>0
    <3>2. u \notin Swept /\ cache'[u] = cache[u] /\ heard'[u] = heard[u] /\ cache[u] # None
      BY <1>1, <1>5, <2>0, <2>2 DEF Cached
    <3>3. ~(cache[u] <= clock)
      BY <2>0, <3>1, <3>2 DEF Swept, Lapsed, Cached
    <3>4. cache[u] <= heard[u] + Timeout + MaxCacheTTL
      BY <2>0, <3>2 DEF SweptInv, CacheInv, EntriesEnd
    <3>5. cache[u] \in Nat /\ heard[u] \in Nat
      BY <1>0, <2>0, <3>2, TimesAreNumbers, IdentityAssumption DEF TypeOK
    <3> QED
      BY <2>0, <3>2, <3>3, <3>4, <3>5
  <2> QED
    BY <2>1, <2>2
<1> QED
  BY <1>0, <1>4, <1>5 DEF CacheBounded

LEMMA SweptStep == SweptInv /\ [Next]_vars => SweptInv'
<1> SUFFICES ASSUME SweptInv, [Next]_vars PROVE SweptInv'
  OBVIOUS
<1>0. CacheInv'
  BY CacheStep DEF SweptInv
<1>1. ASSUME UNCHANGED <<cache, heard, stored>> PROVE SweptInv'
  BY <1>0, <1>1 DEF SweptInv, CacheBounded, Cached
<1>2. ASSUME NEW r \in Requests, Store(r) PROVE SweptInv'
  BY <1>0, <1>2, SweptStore DEF SweptInv
<1>3. ASSUME NEW row, ChangeUser(row) PROVE SweptInv'
  BY <1>1, <1>3 DEF ChangeUser
<1>4. ASSUME NEW r \in Requests,
             \/ \E t \in Tokens, minRole \in Roles : Present(r, t, minRole)
             \/ Confirm(r) \/ Deny(r) \/ Unavailable(r) \/ Admit(r) \/ Refuse(r)
      PROVE  SweptInv'
  BY <1>1, <1>4 DEF Present, Confirm, Deny, Unavailable, Admit, Refuse
<1>5. CASE Tick \/ \E t \in Tokens : RevokeToken(t)
  BY <1>1, <1>5 DEF Tick, RevokeToken
<1>6. CASE UNCHANGED vars
  BY <1>1, <1>6 DEF vars
<1> QED
  BY <1>2, <1>3, <1>4, <1>5, <1>6 DEF Next, Grant, SetRole

LEMMA SweptInit == Init => SweptInv
<1> SUFFICES ASSUME Init PROVE SweptInv
  OBVIOUS
<1>1. Cached = {} /\ Cardinality({}) = 0 /\ IsFiniteSet({})
  BY FS_EmptySet DEF Init, Cached
<1> QED
  BY <1>1, CacheInit, IdentityAssumption DEF SweptInv, CacheBounded

\* The cache holds more than the threshold only of tokens that Google confirmed
\* shortly before the last store.
THEOREM CacheStaysSmall == Spec => []CacheBounded
<1>1. SweptInv => CacheBounded
  BY DEF SweptInv
<1> QED
  BY <1>1, SweptInit, SweptStep, PTL DEF Spec
-----------------------------------------------------------------------------
(* NoStaleAccount.                                                         *)

FitIsKept ==
    \A r \in Requests : request[r] # None =>
        (Satisfies(user, request[r].ask.minRole) => request[r].ask.fit)

LEMMA FitStep == TypeOK /\ FitIsKept /\ [Next]_vars => FitIsKept'
<1> SUFFICES ASSUME TypeOK, FitIsKept, [Next]_vars PROVE FitIsKept'
  OBVIOUS
<1>1. ASSUME NEW row, ChangeUser(row) PROVE FitIsKept'
  <2> SUFFICES ASSUME NEW r \in Requests, request'[r] # None,
                      Satisfies(row, request'[r].ask.minRole)
               PROVE  request'[r].ask.fit
    BY <1>1 DEF FitIsKept, ChangeUser, Satisfies
  <2>1. request[r] # None
    BY <1>1 DEF ChangeUser
  <2>2. request[r] \in [ask : Common, at : Stages]
    BY <2>1, StageFields
  <2>3. request'[r] = [request[r] EXCEPT !.ask.fit = @ \/ Satisfies(row, request[r].ask.minRole)]
    BY <1>1, <2>1 DEF ChangeUser
  <2>4. /\ request'[r].ask.minRole = request[r].ask.minRole
        /\ request'[r].ask.fit = (request[r].ask.fit \/ Satisfies(row, request[r].ask.minRole))
    BY <2>2, <2>3 DEF Common
  <2> QED
    BY <2>4
<1>2. ASSUME user' = user, NEW r \in Requests, NEW w, request' = [request EXCEPT ![r] = w],
             w # None => (Satisfies(user, w.ask.minRole) => w.ask.fit)
      PROVE  FitIsKept'
  BY <1>2 DEF FitIsKept, Satisfies, TypeOK
<1>3. ASSUME NEW r \in Requests, request[r] # None, NEW at, Moves(r, at), user' = user
      PROVE  FitIsKept'
  <2>1. request' = [request EXCEPT ![r] = [request[r] EXCEPT !.at = at]]
    BY <1>3 DEF Moves, TypeOK
  <2>2. [request[r] EXCEPT !.at = at].ask = request[r].ask
    BY <1>3, StageFields
  <2> QED
    BY <1>2, <1>3, <2>1, <2>2 DEF FitIsKept
<1>4. ASSUME NEW r \in Requests, NEW t \in Tokens, NEW minRole \in Roles, Present(r, t, minRole)
      PROVE  FitIsKept'
  BY <1>2, <1>4 DEF Present
<1>5. ASSUME NEW r \in Requests, Deny(r) \/ Unavailable(r) \/ Admit(r) \/ Refuse(r)
      PROVE  FitIsKept'
  BY <1>2, <1>5 DEF Deny, Unavailable, Admit, Refuse, Ends
<1>6. ASSUME NEW r \in Requests, Confirm(r) \/ Store(r) PROVE FitIsKept'
  BY <1>3, <1>6 DEF Confirm, Store, Asking
<1>7. CASE UNCHANGED vars \/ Tick \/ \E t \in Tokens : RevokeToken(t)
  BY <1>7 DEF vars, Tick, RevokeToken, FitIsKept, Satisfies
<1> QED
  BY <1>1, <1>4, <1>5, <1>6, <1>7 DEF Next, Grant, SetRole

\* A request that is admitted belongs to a user who was active and had the role at
\* some moment since the request arrived, however old the cached token is.
THEOREM AccountsAreCurrent == Spec => NoStaleAccount
<1>1. Init => FitIsKept
  BY DEF Init, FitIsKept
<1>2. TypeOK /\ FitIsKept /\ [Next]_vars =>
          [\A r \in Requests : Admit(r) => request[r].ask.fit]_vars
  BY DEF FitIsKept, Admit, AtTheRow, MayGoOn
<1> QED
  BY <1>1, <1>2, TypeInit, TypeStep, FitStep, PTL DEF Spec, NoStaleAccount
=============================================================================
