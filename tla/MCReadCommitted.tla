-------------------------- MODULE MCReadCommitted --------------------------
(* An instance of ReadCommitted: two connections.                          *)
EXTENDS ReadCommitted

CONSTANTS s1, s2

TwoSessions == {s1, s2}
=============================================================================
