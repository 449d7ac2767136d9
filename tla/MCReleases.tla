----------------------------- MODULE MCReleases -----------------------------
(* An instance of Releases: one locale and one app, which the floor 1      *)
(* keeps out and the floor 0 lets in.                                      *)
EXTENDS Releases

CONSTANTS s1, s2, locale, app

OneHome == [c \in {app} |-> locale]
OldVersion == [c \in {app} |-> 0]
=============================================================================
