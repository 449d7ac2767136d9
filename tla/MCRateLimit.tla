----------------------------- MODULE MCRateLimit -----------------------------
(* An instance of RateLimit: requests are interchangeable.                 *)
EXTENDS RateLimit, TLC

CONSTANTS c1, c2, r1, r2

Symmetry == Permutations({r1, r2})
=============================================================================
