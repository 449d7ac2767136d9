------------------------------ MODULE RateLimit ------------------------------
(***************************************************************************)
(* The per-client token bucket in front of the API.                        *)
(*                                                                         *)
(* take reads the clock before it takes the lock, so requests reach the    *)
(* bucket in another order than they read the clock.  Time is counted in   *)
(* ticks and tokens in units, both fine enough for a refill to be a whole  *)
(* number of units; the rounding of the code's floating point is left out. *)
(***************************************************************************)
EXTENDS Middleware, Integers, Sequences, FiniteSets

CONSTANTS
    Clients,    \* public addresses
    Senders,    \* the clients that send requests, perhaps Unknown
    Second,     \* ticks in a second
    One,        \* units in a token
    Rate,       \* units refilled in a tick
    Burst,      \* tokens in a full bucket
    BucketPruneAt,  \* bucketPruneAt
    MaxForged,  \* bound of the header entries a client sends itself
    Private,    \* a header entry on private address space
    Garbage,    \* an entry or a socket address that does not parse
    Unknown     \* rateLimitUnknownClient

\* The configuration demands a positive rate and burst.
ASSUME RateLimitAssumption ==
    /\ {Second, One, Rate, Burst, BucketPruneAt} \subseteq Nat \ {0}
    /\ {MaxTime, MaxForged} \subseteq Nat
    /\ Senders \subseteq Clients \cup {Unknown}

\* Clients come from public addresses.
ASSUME AddressAssumption == Clients \cap {Private, Garbage, Unknown} = {}

\* None is no bucket, no request and no number.
ASSUME NoneAssumption ==
    /\ None \notin Int
    /\ None \notin [tokens : Int, last : Int]
    /\ None \notin [key : Clients \cup {Unknown}, peer : Clients \cup {Unknown}, read : Int]

VARIABLES
    buckets,    \* the bucket of each key, or None
    pending     \* requests that have read the clock and wait for the lock

VARIABLES       \* history
    granted,    \* granted[k][a][b]: admissions of k with a clock reading in a .. b
    promise,    \* when the last refusal told k to come back, or None
    created,    \* the reading at which the last bucket was created
    dropped,    \* the latest reading at which the bucket of k was pruned, or None
    outrun      \* keys whose bucket came back at a reading older than that

limiterVars == <<clock, buckets, pending, granted, promise, created, dropped, outrun>>

Keys == Clients \cup {Unknown}
Full == Burst * One

LimiterTypeOK ==
    /\ clock \in Times
    /\ DOMAIN buckets = Keys
    /\ \A k \in Keys : buckets[k] # None =>
           /\ buckets[k] \in [tokens : Int, last : 0 .. clock]
           /\ buckets[k].tokens < Full
    /\ pending \in [Requests -> [key : Keys, peer : Keys, read : 0 .. clock] \cup {None}]
    /\ granted \in [Keys -> [Times -> [Times -> Nat]]]
    /\ promise \in [Keys -> Int \cup {None}]
    /\ created \in Times
    /\ dropped \in [Keys -> Times \cup {None}]
    /\ outrun \subseteq Keys

LimiterInit ==
    /\ clock = 0
    /\ buckets = [k \in Keys |-> None]
    /\ pending = [r \in Requests |-> None]
    /\ granted = [k \in Keys |-> [a \in Times |-> [b \in Times |-> 0]]]
    /\ promise = [k \in Keys |-> None]
    /\ created = 0
    /\ dropped = [k \in Keys |-> None]
    /\ outrun = {}
-----------------------------------------------------------------------------
(* The key of a request.                                                   *)

\* The rightmost header entry that is not private, if it parses; otherwise the
\* address of the socket.
SocketKey(socket) == IF socket \in Clients THEN socket ELSE Unknown

LeftmostIP(header, socket) ==
    LET public == {i \in DOMAIN header : header[i] \in Clients}
    IN IF public = {} THEN SocketKey(socket)
       ELSE header[CHOOSE i \in public : \A j \in public : i <= j]

ClientIP(header, socket) ==
    LET outside == {i \in DOMAIN header : header[i] # Private}
        nearest == CHOOSE i \in outside : \A j \in outside : j <= i
    IN IF outside # {} /\ header[nearest] \in Clients
       THEN header[nearest]
       ELSE SocketKey(socket)

\* A request of k comes through the edge, which appends its address to whatever
\* k sent and hands it to a private hop, or over a socket of its own without
\* the header.
Forged == UNION {[1 .. n -> Clients \cup {Private, Garbage}] : n \in 0 .. MaxForged}

ThroughEdge(k) ==
    {f \o <<k>> : f \in Forged} \cup {f \o <<k, Private>> : f \in Forged}

Arrivals(k) ==
    IF k \in Clients
    THEN [header : ThroughEdge(k), socket : {Private}] \cup [header : {<<>>}, socket : {k}]
    ELSE [header : {<<>>}, socket : {Garbage}]

Arrive(r, k) ==
    /\ pending[r] = None
    /\ \E a \in Arrivals(k) : pending' = [pending EXCEPT ![r] =
           [key |-> ClientIP(a.header, a.socket), peer |-> k, read |-> clock]]
    /\ UNCHANGED <<clock, buckets, granted, promise, created, dropped, outrun>>
-----------------------------------------------------------------------------
(* take and prune, under the lock.                                         *)

Uncapped(b, now) == b.tokens + (now - b.last) * Rate
Refill(b, now) ==
    IF Uncapped(b, now) > Full THEN Full ELSE Uncapped(b, now)

Tracked == {k \in Keys : buckets[k] # None}

NeverRefilled(now) == {k \in Tracked : buckets[k].tokens >= Full}
Prunable(now) == {k \in Tracked : Refill(buckets[k], now) >= Full}

\* What a request of k at this reading sweeps away: a bucket is missing, and
\* there are many already.
SweptBuckets(k, now) ==
    IF buckets[k] = None /\ Cardinality(Tracked) >= BucketPruneAt THEN Prunable(now) ELSE {}

Found(k, now) ==
    IF buckets[k] = None THEN [tokens |-> Full, last |-> now] ELSE buckets[k]

\* Whole seconds until a token accrues.
RoundedDown(tokens) == (One - tokens) \div (Rate * Second)
RetryAfter(tokens) == (One - tokens + Rate * Second - 1) \div (Rate * Second)

Admitted(k, now) == Refill(Found(k, now), now) >= One

Left(k, now) ==
    Refill(Found(k, now), now) - (IF Admitted(k, now) THEN One ELSE 0)

Counted(G, now) ==
    [a \in Times |-> [b \in Times |->
        IF a <= now /\ now <= b THEN G[a][b] + 1 ELSE G[a][b]]]

Remember(k, peer, now) ==
    /\ granted' =
           IF Admitted(k, now) THEN [granted EXCEPT ![peer] = Counted(@, now)] ELSE granted
    /\ promise' = [promise EXCEPT ![peer] =
           IF Admitted(k, now) THEN None
           ELSE now + Second * RetryAfter(Left(k, now))]
    /\ created' = IF buckets[k] = None THEN now ELSE created
    /\ dropped' = [j \in Keys |->
           IF j \in SweptBuckets(k, now) /\ (dropped[j] = None \/ dropped[j] < now)
           THEN now ELSE dropped[j]]
    /\ outrun' =
           IF buckets[k] = None /\ dropped[k] # None /\ now < dropped[k]
           THEN outrun \cup {k} ELSE outrun

Take(r) ==
    /\ pending[r] # None
    /\ LET k == pending[r].key
           now == pending[r].read
       IN /\ buckets' = [j \in Keys |->
                 IF j = k THEN [tokens |-> Left(k, now), last |-> now]
                 ELSE IF j \in SweptBuckets(k, now) THEN None
                 ELSE buckets[j]]
          /\ Remember(k, pending[r].peer, now)
    /\ pending' = [pending EXCEPT ![r] = None]
    /\ UNCHANGED clock

LimiterTick ==
    /\ clock < MaxTime
    /\ clock' = clock + 1
    /\ UNCHANGED <<buckets, pending, granted, promise, created, dropped, outrun>>
-----------------------------------------------------------------------------
LimiterNext ==
    \/ \E r \in Requests, k \in Senders : Arrive(r, k)
    \/ \E r \in Requests : Take(r)
    \/ LimiterTick

LimiterSpec == LimiterInit /\ [][LimiterNext]_limiterVars
-----------------------------------------------------------------------------
(* Properties.                                                             *)

\* Of the requests a client made in a stretch of time, whatever it put into the
\* header and in whatever order they reached the lock, no more are admitted than
\* the burst and what that time refills.  The exception is a client whose bucket
\* was pruned and then made again for a request that read the clock before that.
WindowBounded ==
    \A k \in Keys \ outrun : \A a, b \in Times :
        a <= b => One * granted[k][a][b] <= Full + Rate * (b - a)

\* "Retry-After is the contract": who was refused and comes back no earlier than
\* it was told is admitted, if it was not admitted in between, even when requests
\* it sent before were served later.
PromiseKept ==
    [][\A r \in Requests :
          /\ Take(r) /\ promise[pending[r].peer] # None
          /\ pending[r].read >= promise[pending[r].peer]
          => granted' # granted]_limiterVars

\* When there are more buckets than the threshold, each of them was in use
\* within the time in which an empty bucket fills, counted back from the
\* reading at which the last of them was created.
MapBounded ==
    Cardinality(Tracked) > BucketPruneAt =>
        \A k \in Tracked : \E t \in Times :
            granted[k][t][t] > 0 /\ Rate * (created - t) < Full
=============================================================================
