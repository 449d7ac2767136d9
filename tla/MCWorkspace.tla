---------------------------- MODULE MCWorkspace ----------------------------
(* Instances of Workspace: the cfg files choose the sets.                  *)
EXTENDS Workspace, TLC

CONSTANTS c1, b1, b2, r1, r2, x, y

OneCell == {c1}
OneText == {x}
TwoTexts == {x, y}
OneBranch == {b1}
TwoBranches == {b1, b2}
OneRequest == {r1}
TwoRequests == {r1, r2}

OnlyRequest == [r \in OneRequest |-> b1]
\* A request on each of two branches.
OwnBranch == (r1 :> b1) @@ (r2 :> b2)

\* Two branches are interchangeable together with their requests.
OwnBranchSymmetry == {(b1 :> b2) @@ (b2 :> b1) @@ (r1 :> r2) @@ (r2 :> r1)}
=============================================================================
