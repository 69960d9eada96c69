------------------------------ MODULE MCApprovals ------------------------------
(***************************************************************************)
(* A tool call two nodes ask for (one id), an approval node (another id),  *)
(* and two reviewers.                                                      *)
(***************************************************************************)
EXTENDS Approvals, TLC

CONSTANTS tool, node, c1, c2, c3, v1, v2

MCRequest == {tool, node}
MCCaller == {c1, c2, c3}
MCReviewer == {v1, v2}
MCAsks == (c1 :> tool) @@ (c2 :> tool) @@ (c3 :> node)

\* Callers of one request are alike, reviewers are alike.
MCSymmetry == Permutations({c1, c2}) \cup Permutations({v1, v2})
===============================================================================
