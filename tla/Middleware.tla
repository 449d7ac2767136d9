------------------------------ MODULE Middleware ------------------------------
(***************************************************************************)
(* What the handlers in front of an operation have in common: the rate     *)
(* limiter (RateLimit) and the check of the caller (Identity) each serve   *)
(* several requests at a time, and decide by the clock.                    *)
(***************************************************************************)
EXTENDS Naturals

CONSTANTS
    Requests,   \* requests under way at a time
    MaxTime,    \* bound of the clock
    None        \* no bucket, no cache entry, no user, no request, no answer

VARIABLE clock  \* what now() returns

Times == 0 .. MaxTime
=============================================================================
