--------------------------- MODULE DurableExecution ---------------------------
(***************************************************************************)
(* What the durable row of an execution promises its readers (the API, the *)
(* CLI, a process that resumes): the status moves from pending over        *)
(* running and waiting_for_approval to one terminal status, a settled node *)
(* stays as it settled, and a terminal row never changes.  No crash, no    *)
(* resume and no race of node tasks shows here: WorkflowExecutor is shown  *)
(* to implement this specification through its row db.                     *)
(***************************************************************************)
EXTENDS ExecutionStates

CONSTANT Node

VARIABLES status, node

Init ==
    /\ status = "pending"
    /\ node = [n \in Node |-> "pending"]

\* Any set of unsettled nodes may move; a settled one may not.
Progress ==
    /\ node' \in [Node -> NodeStatus]
    /\ \A n \in Node : node[n] \in TerminalNodeStatus => node'[n] = node[n]

\* The execution starts, advances, or comes back from a pause.
Work ==
    /\ status \notin TerminalExecutionStatus
    /\ status' = "running"
    /\ Progress

\* It waits for a human, and a node shows at which gate.
Pause ==
    /\ status \in {"running", "waiting_for_approval"}
    /\ status' = "waiting_for_approval"
    /\ Progress
    /\ \E n \in Node : node'[n] = "waiting_for_approval"

\* It ends; a success is only ever recorded of a running execution.
End ==
    /\ status \notin TerminalExecutionStatus
    /\ status' \in TerminalExecutionStatus
    /\ status' = "succeeded" => status = "running"
    /\ Progress

Next == Work \/ Pause \/ End

Spec == Init /\ [][Next]_<<status, node>>
===============================================================================
