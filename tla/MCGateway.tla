------------------------------ MODULE MCGateway ------------------------------
(* A provider that needs a key and one that needs none; two requests of    *)
(* operators at a time; one run.                                           *)
EXTENDS Gateway, TLC

CONSTANTS p1, p2, h1, h2, r1, k1

\* Nothing stored, or a key and a model for the first.
MCStoredRows ==
  {[p \in Provider |-> None],
   [p \in Provider |-> IF p = p1 THEN [key |-> k1, chosen |-> TRUE] ELSE None]}

Symmetry == Permutations({h1, h2})
=============================================================================
