--------------------------- MODULE ExecutionStates ---------------------------
(***************************************************************************)
(* The status vocabularies of an execution and of its nodes                *)
(* (domain/enums.py) and the table of legal execution transitions          *)
(* (domain/execution.py).  Every other module speaks in these terms.       *)
(***************************************************************************)

\* ExecutionStatus: the lifecycle of one execution.
ExecutionStatus ==
    {"pending", "running", "waiting_for_approval", "succeeded", "failed",
     "cancelled", "budget_exceeded", "timed_out"}

\* is_terminal: no further work occurs for this execution.
TerminalExecutionStatus ==
    {"succeeded", "failed", "cancelled", "budget_exceeded", "timed_out"}

\* NodeStatus: the lifecycle of one node.  READY exists in the enum and no
\* code ever assigns it, so no model value stands for it.
NodeStatus ==
    {"pending", "running", "succeeded", "failed", "skipped", "cancelled",
     "waiting_for_approval"}

TerminalNodeStatus == {"succeeded", "failed", "skipped", "cancelled"}

\* is_complete: terminal, and downstream nodes need not block on it.
CompleteNodeStatus == {"succeeded", "skipped"}

\* Mutant of RunnableNodeStatus: a paused node is not scheduled again.
RunnableOnlyFresh == {"pending"}

\* Statuses from which a node may (re-)enter the ready set.
RunnableNodeStatus == {"pending", "waiting_for_approval"}

\* EXECUTION_TRANSITIONS, and can_transition over it.
ExecutionTransitions(source) ==
    CASE source = "pending" -> {"running", "cancelled", "failed"}
      [] source = "running" ->
            {"running", "waiting_for_approval", "succeeded", "failed",
             "cancelled", "budget_exceeded", "timed_out"}
      [] source = "waiting_for_approval" ->
            {"running", "failed", "cancelled", "timed_out"}
      [] OTHER -> {}

CanTransition(source, target) == target \in ExecutionTransitions(source)
==============================================================================
