------------------------------ MODULE Overlay ------------------------------
(***************************************************************************)
(* What the translation workspace promises, without the mechanism.         *)
(*                                                                         *)
(* There is one corpus of texts.  A branch lays an overlay over it, which  *)
(* grows while the branch is open and never changes otherwise.  Landing a  *)
(* branch replaces the corpus by its overlay in one step, except at a      *)
(* chosen set of cells, and those may only be cells that the corpus        *)
(* changed under the branch.  A release is the corpus at one moment, and   *)
(* landing cuts one.                                                       *)
(*                                                                         *)
(* There are no versions, no requests, no resolutions and no history here: *)
(* they are how Workspace keeps this promise.                              *)
(***************************************************************************)
CONSTANTS Cells, Texts, Branches, Absent, Removed, Untouched

VARIABLES
    corpus,     \* the text of each cell, or Absent
    overlay,    \* what each branch would put there, or Untouched
    contested,  \* per branch: overlaid cells that the corpus changed since
    status,     \* per branch: none, open, closed or merged
    released    \* the corpus as last released

vars == <<corpus, overlay, contested, status, released>>

Overlaid(b) == {c \in Cells : overlay[b][c] # Untouched}

Init ==
    /\ corpus = [c \in Cells |-> Absent]
    /\ overlay = [b \in Branches |-> [c \in Cells |-> Untouched]]
    /\ contested = [b \in Branches |-> {}]
    /\ status = [b \in Branches |-> "none"]
    /\ released = corpus

\* The corpus is written at W, under every branch that overlays it there.
Rewrite(W) ==
    contested' = [b \in Branches |-> contested[b] \cup (W \cap Overlaid(b))]

Edit(c, t) ==
    /\ corpus' = [corpus EXCEPT ![c] = t]
    /\ Rewrite({c})
    /\ UNCHANGED <<overlay, status, released>>

Draft(b, c, d) ==
    /\ status[b] = "open"
    /\ overlay' = [overlay EXCEPT ![b][c] = d]
    /\ UNCHANGED <<corpus, contested, status, released>>

Move(b) ==
    /\ \E s \in {"open", "closed"} :
           /\ status[b] \notin {"merged", s}
           /\ status' = [status EXCEPT ![b] = s]
    /\ UNCHANGED <<corpus, overlay, contested, released>>

Release ==
    /\ released' = corpus
    /\ UNCHANGED <<corpus, overlay, contested, status>>

\* A branch may land more than once: a request on it can be reopened later.
Land(b, kept) ==
    /\ kept \subseteq contested[b]
    /\ corpus' = [c \in Cells |->
           IF c \notin Overlaid(b) \ kept THEN corpus[c]
           ELSE IF overlay[b][c] = Removed THEN Absent ELSE overlay[b][c]]
    /\ Rewrite({c \in Overlaid(b) \ kept : ~(corpus[c] = Absent /\ corpus'[c] = Absent)})
    /\ released' = corpus'
    /\ status' = [status EXCEPT ![b] = "merged"]
    /\ UNCHANGED overlay

Next ==
    \/ \E c \in Cells, t \in Texts \cup {Absent} : Edit(c, t)
    \/ \E b \in Branches, c \in Cells, d \in Texts \cup {Removed} : Draft(b, c, d)
    \/ \E b \in Branches : Move(b)
    \/ Release
    \/ \E b \in Branches : \E kept \in SUBSET contested[b] : Land(b, kept)

Spec == Init /\ [][Next]_vars
=============================================================================
