------------------------------- MODULE Identity -------------------------------
(***************************************************************************)
(* Who an operator's request comes from, and whether it may go on.         *)
(*                                                                         *)
(* The bearer token is verified by Google, whose answers are cached, and   *)
(* the user it names is looked up in the database at every request.  The   *)
(* tokens of one operator are modelled; a token that Google does not know, *)
(* that carries no email, or that another OAuth client was issued is one   *)
(* that expired at time 0.                                                 *)
(***************************************************************************)
EXTENDS Middleware, Naturals, FiniteSets

CONSTANTS
    Tokens,
    TopRole,        \* the roles are 1 .. TopRole
    Lifetimes,      \* when a token may expire
    MaxCacheTTL,    \* maxCacheTTL
    Timeout,        \* of the HTTP client that asks Google
    PruneAt         \* pruneAt

ASSUME IdentityAssumption ==
    /\ {TopRole, MaxCacheTTL, Timeout, PruneAt} \subseteq Nat \ {0}
    /\ MaxTime \in Nat
    /\ Lifetimes \subseteq Nat

VARIABLES
    expiry,     \* when each token expires (Google)
    revoked,    \* when each token was revoked, or None (Google)
    cache,      \* until when each token is taken as verified, or None
    user,       \* the operator's row in users, or None
    request     \* requests under way

VARIABLES       \* history
    heard,      \* when Google gave the answer a cache entry is made from
    stored      \* the time of the last store

vars == <<clock, expiry, revoked, cache, user, request, heard, stored>>

Roles == 1 .. TopRole
Rows == [role : Roles, status : {"active", "disabled"}]

\* fit: at some moment since it arrived the request met what it is refused for.
Common == [token : Tokens, minRole : Roles, fit : BOOLEAN]
Stages ==
    [stage : {"asking"}, since : Times] \cup
    [stage : {"answered"}, since : Times, left : Nat \ {0}, heard : Times] \cup
    [stage : {"verified"}]

TypeOK ==
    /\ clock \in Times
    /\ expiry \in [Tokens -> Lifetimes]
    /\ revoked \in [Tokens -> Times \cup {None}]
    /\ cache \in [Tokens -> 1 .. MaxTime + MaxCacheTTL \cup {None}]
    /\ user \in Rows \cup {None}
    /\ request \in [Requests -> [ask : Common, at : Stages] \cup {None}]
    /\ \A r \in Requests : request[r] # None /\ request[r].at.stage # "verified" =>
           clock <= request[r].at.since + Timeout
    /\ heard \in [Tokens -> Times]
    /\ stored \in Times

Init ==
    /\ clock = 0
    /\ expiry \in [Tokens -> Lifetimes]
    /\ revoked = [t \in Tokens |-> None]
    /\ cache = [t \in Tokens |-> None]
    /\ user = None
    /\ request = [r \in Requests |-> None]
    /\ heard = [t \in Tokens |-> 0]
    /\ stored = 0
-----------------------------------------------------------------------------
(* The users table: Grant, which the command line calls, and SetRole.      *)

Satisfies(row, minRole) ==
    row # None /\ row.status = "active" /\ row.role >= minRole

ChangeUser(row) ==
    /\ user' = row
    /\ request' = [r \in Requests |->
           IF request[r] = None THEN None
           ELSE [request[r] EXCEPT !.ask.fit = @ \/ Satisfies(row, request[r].ask.minRole)]]
    /\ UNCHANGED <<clock, expiry, revoked, cache, heard, stored>>

Grant(row) == ChangeUser(row)

SetRole(role) == user # None /\ ChangeUser([user EXCEPT !.role = role])
-----------------------------------------------------------------------------
(* Google.                                                                 *)

Good(t) == clock < expiry[t] /\ revoked[t] = None

RevokeToken(t) ==
    /\ revoked[t] = None
    /\ revoked' = [revoked EXCEPT ![t] = clock]
    /\ UNCHANGED <<clock, expiry, cache, user, request, heard, stored>>

\* Time passes, but not past the timeout of a call that is under way.
NoTimeout(r) == FALSE
DueNow(r) ==
    /\ request[r] # None /\ request[r].at.stage # "verified"
    /\ clock = request[r].at.since + Timeout

Tick ==
    /\ clock < MaxTime
    /\ \A r \in Requests : ~DueNow(r)
    /\ clock' = clock + 1
    /\ UNCHANGED <<expiry, revoked, cache, user, request, heard, stored>>
-----------------------------------------------------------------------------
(* RequireIdentity and Verify.                                             *)

Moves(r, at) == request' = [request EXCEPT ![r].at = at]
Ends(r) == request' = [request EXCEPT ![r] = None]
Verified == [stage |-> "verified"]

Hit(t) == cache[t] # None /\ clock < cache[t]

Present(r, t, minRole) ==
    /\ request[r] = None
    /\ request' = [request EXCEPT ![r] =
           [ask |-> [token |-> t, minRole |-> minRole, fit |-> Satisfies(user, minRole)],
            at |-> IF Hit(t) THEN Verified ELSE [stage |-> "asking", since |-> clock]]]
    /\ UNCHANGED <<clock, expiry, revoked, cache, user, heard, stored>>

Asking(r) == request[r] # None /\ request[r].at.stage = "asking"

\* Google answers: the token is good for that much longer.
Confirm(r) ==
    LET t == request[r].ask.token
    IN /\ Asking(r)
       /\ Good(t)
       /\ Moves(r, [stage |-> "answered", since |-> request[r].at.since,
                    left |-> expiry[t] - clock, heard |-> clock])
       /\ UNCHANGED <<clock, expiry, revoked, cache, user, heard, stored>>

\* 401.
Deny(r) ==
    /\ Asking(r)
    /\ ~Good(request[r].ask.token)
    /\ Ends(r)
    /\ UNCHANGED <<clock, expiry, revoked, cache, user, heard, stored>>

\* 503: no answer, no usable answer, or no answer in time.
Unavailable(r) ==
    /\ request[r] # None /\ request[r].at.stage # "verified"
    /\ Ends(r)
    /\ UNCHANGED <<clock, expiry, revoked, cache, user, heard, stored>>

FullLife(left) == MaxCacheTTL
Ttl(left) == IF left > MaxCacheTTL THEN MaxCacheTTL ELSE left

Cached == {t \in Tokens : cache[t] # None}

LongLapsed == {t \in Cached : cache[t] + MaxCacheTTL <= clock}
Lapsed == {t \in Cached : cache[t] <= clock}

Swept == IF Cardinality(Cached) >= PruneAt THEN Lapsed ELSE {}

\* The response is read to its end and stored.
Store(r) ==
    /\ request[r] # None /\ request[r].at.stage = "answered"
    /\ LET t == request[r].ask.token
       IN /\ cache' = [u \in Tokens |->
                 IF u = t THEN clock + Ttl(request[r].at.left)
                 ELSE IF u \in Swept THEN None ELSE cache[u]]
          /\ heard' = [u \in Tokens |->
                 IF u = t THEN request[r].at.heard ELSE IF u \in Swept THEN 0 ELSE heard[u]]
    /\ stored' = clock
    /\ Moves(r, Verified)
    /\ UNCHANGED <<clock, expiry, revoked, user>>

\* ByEmail, and what the row says.
RoleOnly(row, minRole) == row # None /\ row.role >= minRole
MayGoOn(row, minRole) == Satisfies(row, minRole)

AtTheRow(r) == request[r] # None /\ request[r].at.stage = "verified"

Admit(r) ==
    /\ AtTheRow(r)
    /\ MayGoOn(user, request[r].ask.minRole)
    /\ Ends(r)
    /\ UNCHANGED <<clock, expiry, revoked, cache, user, heard, stored>>

\* 403, or 500 when the row cannot be read.
Refuse(r) ==
    /\ AtTheRow(r)
    /\ Ends(r)
    /\ UNCHANGED <<clock, expiry, revoked, cache, user, heard, stored>>
-----------------------------------------------------------------------------
Next ==
    \/ \E row \in Rows : Grant(row)
    \/ \E role \in Roles : SetRole(role)
    \/ \E t \in Tokens : RevokeToken(t)
    \/ Tick
    \/ \E r \in Requests :
           \/ \E t \in Tokens, minRole \in Roles : Present(r, t, minRole)
           \/ Confirm(r)
           \/ Deny(r)
           \/ Unavailable(r)
           \/ Store(r)
           \/ Admit(r)
           \/ Refuse(r)

Spec == Init /\ [][Next]_vars
-----------------------------------------------------------------------------
(* Properties.                                                             *)

Passes(r) ==
    /\ request'[r] # None /\ request'[r].at = Verified
    /\ request[r] = None \/ request[r].at # Verified

\* The cache does not extend a token's life and bounds a revocation's delay: a
\* request that passes does so before its token expired, and no later than
\* maxCacheTTL after the token was revoked, but for the time the answer that was
\* cached took to arrive.
PassesOnTime ==
    [][\A r \in Requests : Passes(r) =>
          LET t == request'[r].ask.token
          IN /\ clock < expiry[t] + Timeout
             /\ revoked[t] # None => clock < revoked[t] + MaxCacheTTL + Timeout]_vars

\* However long a token stays cached, a request goes on only if at some moment
\* since it arrived its user was active and had the role.
NoStaleAccount ==
    [][\A r \in Requests : Admit(r) => request[r].ask.fit]_vars

\* The cache does not grow with every token ever seen: beyond the threshold it
\* holds only tokens that Google confirmed within the time an answer can take
\* and be kept, counted back from the last store.
CacheBounded ==
    Cardinality(Cached) > PruneAt =>
        \A t \in Cached : stored < heard[t] + Timeout + MaxCacheTTL
=============================================================================
