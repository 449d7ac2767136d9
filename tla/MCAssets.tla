------------------------------- MODULE MCAssets -------------------------------
(* An instance of Assets: two files and one too large.                    *)
EXTENDS Assets, TLC

CONSTANTS f1, f2, f3, k1, r1, r2

MCSize(f) == IF f = f3 THEN 2 ELSE 1

Symmetry == Permutations({f1, f2}) \cup Permutations({r1, r2})
=============================================================================
