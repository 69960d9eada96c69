--------------------------- MODULE MCPersistence ---------------------------
(* Two runs of one execution in two processes, each of which may leave and *)
(* resume; one content to go back to and one that ends the execution.      *)
EXTENDS Persistence, TLC

CONSTANTS p1, p2, w1, w2, running, ended

MCProcessOf == (w1 :> p1) @@ (w2 :> p2)
=============================================================================
