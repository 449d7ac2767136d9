------------------------------- MODULE MCTags -------------------------------
(* An instance of Tags: everything is interchangeable.                     *)
EXTENDS Tags, TLC

CONSTANTS k1, k2, t1, t2, s1, s2, n1, n2

Symmetry ==
    Permutations({k1, k2}) \cup Permutations({t1, t2}) \cup
    Permutations({s1, s2}) \cup Permutations({n1, n2})
=============================================================================
