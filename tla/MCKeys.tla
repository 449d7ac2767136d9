------------------------------- MODULE MCKeys -------------------------------
(* An instance of Keys: interchangeable keys and names.                    *)
EXTENDS Keys, TLC

CONSTANTS k1, k2, b1, n1, n2

Symmetry == Permutations({k1, k2}) \cup Permutations({n1, n2})
=============================================================================
