------------------------------ MODULE MCIdentity ------------------------------
(* An instance of Identity: tokens and requests are interchangeable.       *)
EXTENDS Identity, TLC

CONSTANTS t1, t2, r1, r2

Symmetry == Permutations({t1, t2}) \cup Permutations({r1, r2})
=============================================================================
