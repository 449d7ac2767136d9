------------------------------- MODULE MCImport -------------------------------
(* An instance of Import: the names are interchangeable.                   *)
EXTENDS Import

CONSTANTS n1, n2, d1, x

Symmetry == Permutations({n1, n2})
=============================================================================
