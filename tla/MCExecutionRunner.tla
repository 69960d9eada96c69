--------------------------- MODULE MCExecutionRunner ---------------------------
(***************************************************************************)
(* Two requests at a time against one execution.                           *)
(***************************************************************************)
EXTENDS ExecutionRunner

CONSTANTS h1, h2

MCHandler == {h1, h2}
===============================================================================
