--------------------------- MODULE WorkflowExecutor ---------------------------
(***************************************************************************)
(* One execution of a workflow: the scheduling loop of                     *)
(* workflow/executor.py with its asyncio node tasks, the durable state row *)
(* its checkpoints write (checkpoint/manager.py), the human decisions its  *)
(* gates read (policies/approvals.py), cancellation, the agent-step budget *)
(* and process crashes.                                                    *)
(*                                                                         *)
(* Everything the loop holds in memory (status, node, attempts, used) is   *)
(* lost by a crash; db and approval survive it.  An action is what happens *)
(* between two awaits that matter: a status change and the checkpoint that *)
(* follows it are one action, since a crash between them leaves what a     *)
(* crash before both would.                                                *)
(***************************************************************************)
EXTENDS WorkflowGraph

CONSTANTS
    Node,           \* node ids: naturals, in the alphabetical order of the code
    Workflows,      \* the workflows an execution may run
    MaxAttempts,    \* RetryPolicy.max_attempts
    MaxConcurrent,  \* max_concurrent_nodes, the permits of the semaphore
    MaxAgentSteps,  \* Budget.max_agent_steps
    MaxSteps,       \* max_steps of the scheduling loop
    MaxCrashes,     \* bound: process crashes
    MaxResumes      \* bound: times the execution is resumed

ASSUME ConstantsAssumption ==
    /\ Node \subseteq Nat /\ IsFiniteSet(Node)
    /\ \A w \in Workflows : IsWorkflow(w, Node) /\ IsAcyclic(w)
    /\ MaxAttempts \in Nat \ {0}
    /\ MaxConcurrent \in Nat \ {0}
    /\ MaxAgentSteps \in Nat
    /\ MaxSteps \in Nat \ {0}
    /\ MaxCrashes \in Nat
    /\ MaxResumes \in Nat

VARIABLES
    wf,         \* the workflow, fixed when the execution is created
    holds,      \* the edges whose condition evaluates true, a prophecy
    status,     \* ExecutionState.status in memory
    node,       \* node_states[n].status in memory
    attempts,   \* node_states[n].attempts in memory
    used,       \* budget_usage.agent_steps in memory
    pc,         \* where run() is
    steps,      \* scheduling steps this run has taken
    task,       \* the asyncio task of each node of the current ready set
    cancelled,  \* this run's CancelToken
    db,         \* the durable state row
    approval,   \* the durable approval request of each gate
    calls,      \* history: dispatches of each node over all runs
    crashes, resumes

memory == <<status, node, attempts, used>>
run == <<pc, steps, task, cancelled>>
vars == <<wf, holds, memory, run, db, approval, calls, crashes, resumes>>

Snapshot == [status : ExecutionStatus, node : [Node -> NodeStatus],
             attempts : [Node -> Nat], used : Nat]

\* queued: created, waiting for a permit.  marked: mark_running done, handler
\* not yet past its budget check.  working: an agent or tool call in flight.
\* backoff: asleep before the next attempt.  The rest are results.
LiveTask == {"marked", "working", "backoff"}
StopTask == {"cancelled", "over_budget"}
OutcomeTask == {"succeeded", "failed", "waiting"}
TaskState == {"none", "queued"} \cup LiveTask \cup StopTask \cup OutcomeTask

TypeOK ==
    /\ wf \in Workflows
    /\ holds \subseteq wf.edges
    /\ status \in ExecutionStatus
    /\ node \in [Node -> NodeStatus]
    /\ attempts \in [Node -> Nat]
    /\ used \in Nat
    /\ pc \in {"idle", "loop", "gather", "apply", "finish"}
    /\ steps \in Nat
    /\ task \in [Node -> TaskState]
    /\ cancelled \in BOOLEAN
    /\ db \in Snapshot
    /\ approval \in [Node -> {"absent", "pending", "granted", "rejected"}]
    /\ calls \in [Node -> Nat]
    /\ crashes \in Nat
    /\ resumes \in Nat

NoTasks == [n \in Node |-> "none"]

Init ==
    /\ wf \in Workflows
    /\ holds \in SUBSET wf.edges
    /\ \A e \in wf.edges : ~e.cond => e \in holds
    /\ status = "pending"
    /\ node = [n \in Node |-> "pending"]
    /\ attempts = [n \in Node |-> 0]
    /\ used = 0
    /\ pc = "idle"
    /\ steps = 0
    /\ task = NoTasks
    /\ cancelled = FALSE
    /\ db = [status |-> status, node |-> node, attempts |-> attempts, used |-> used]
    /\ approval = [n \in Node |-> "absent"]
    /\ calls = [n \in Node |-> 0]
    /\ crashes = 0
    /\ resumes = 0

------------------------------------------------------------------------------
(* Helpers of the actions.                                                  *)

\* Mutant of Save: the node statuses stay as they were first saved.
SaveStaleNodes == db' = [status |-> status', node |-> db.node,
                         attempts |-> attempts', used |-> used']

\* CheckpointManager.write: checkpoint and state row in one transaction.
Save == db' = [status |-> status', node |-> node', attempts |-> attempts',
               used |-> used']

\* The run is over and this process keeps nothing of it: what an idle
\* execution is, is what a load of the state row returns.
Unload ==
    /\ pc' = "idle"
    /\ status' = db'.status
    /\ node' = db'.node
    /\ attempts' = db'.attempts
    /\ used' = db'.used
    /\ task' = NoTasks
    /\ cancelled' = FALSE
    /\ steps' = 0

\* transition_to(target), the save that follows it, and the end of the run.
EndRun(target, nodes) ==
    /\ CanTransition(status, target)
    /\ db' = [status |-> target, node |-> nodes, attempts |-> attempts,
              used |-> used]
    /\ Unload

ReadySet == {n \in wf.nodes : task[n] # "none"}
Live == {n \in wf.nodes : task[n] \in LiveTask}
IsWork(n) == wf.kind[n] \in {"agent", "tool"}

\* Mutant of OverBudget: one step too late.
OverBudgetLater == used > MaxAgentSteps + 1

\* meter.check: a limit is exceeded once usage is past it, not at it.
OverBudget == used > MaxAgentSteps

\* _handle_cancellation: running nodes become cancelled.
CancelRunning ==
    [n \in Node |-> IF node[n] = "running" THEN "cancelled" ELSE node[n]]

HandleCancellation == EndRun("cancelled", CancelRunning)

\* _handle_budget_exhaustion: node statuses stay as they are.
HandleBudgetExhaustion == EndRun("budget_exceeded", node)

------------------------------------------------------------------------------
(* Entering run().                                                          *)

EnterLoop ==
    /\ pc' = "loop"
    /\ steps' = 0
    /\ status' = "running"
    /\ UNCHANGED <<node, attempts, used, task, cancelled>>

\* ExecutionRunner.start on a new execution: EXECUTION_STARTED is saved.
Start ==
    /\ pc = "idle"
    /\ db.status = "pending"
    /\ resumes = 0
    /\ EnterLoop
    /\ Save
    /\ UNCHANGED <<wf, holds, approval, calls, crashes, resumes>>

\* Mutant of Resumable: only a success counts as finished.
ResumableUnlessSucceeded == db.status # "succeeded"

\* CheckpointManager.resume refuses a terminal state row.
Resumable == db.status \notin TerminalExecutionStatus

\* ExecutionRunner.resume: restore_status_for_resume makes the status
\* running, and nothing is saved before the first scheduling step.
Resume ==
    /\ pc = "idle"
    /\ Resumable
    /\ resumes < MaxResumes
    /\ resumes' = resumes + 1
    /\ EnterLoop
    /\ UNCHANGED <<wf, holds, db, approval, calls, crashes>>

------------------------------------------------------------------------------
(* The scheduling loop.                                                     *)

\* Leaving the loop: _finish begins with the BEFORE_FINALIZATION checkpoint.
BeginFinish ==
    /\ pc' = "finish"
    /\ UNCHANGED <<status, attempts, used, steps, cancelled>>
    /\ Save

\* One iteration that finds work: a BEFORE_NODE checkpoint for every ready
\* node, then a task for each.
Launch ==
    /\ pc = "loop"
    /\ steps < MaxSteps
    /\ ~cancelled /\ ~OverBudget
    /\ LET ready == ReadyNodes(wf, node, holds)
       IN  /\ ready # {}
           /\ task' = [n \in Node |-> IF n \in ready THEN "queued" ELSE "none"]
    /\ steps' = steps + 1
    /\ pc' = "gather"
    /\ UNCHANGED <<memory, cancelled>>
    /\ Save
    /\ UNCHANGED <<wf, holds, approval, calls, crashes, resumes>>

\* An iteration that stops: the token, then the meter, are consulted first.
StopInLoop ==
    /\ pc = "loop"
    /\ steps < MaxSteps
    /\ \/ cancelled /\ HandleCancellation
       \/ ~cancelled /\ OverBudget /\ HandleBudgetExhaustion
    /\ UNCHANGED <<wf, holds, approval, calls, crashes, resumes>>

\* No node is ready, or max_steps iterations have run.
LeaveLoop ==
    /\ pc = "loop"
    /\ \/ steps = MaxSteps
       \/ ~cancelled /\ ~OverBudget /\ ReadyNodes(wf, node, holds) = {}
    /\ UNCHANGED <<node, task>>
    /\ BeginFinish
    /\ UNCHANGED <<wf, holds, approval, calls, crashes, resumes>>

------------------------------------------------------------------------------
(* The node tasks: _run_node and the handlers.                              *)

\* What every step of a task leaves alone.
TaskFrame ==
    UNCHANGED <<wf, holds, status, pc, steps, cancelled, db, crashes, resumes>>

Settle(n, result) == task' = [task EXCEPT ![n] = result]

\* node_state.mark_running() at the head of an attempt.
MarkRunning(n) ==
    /\ node' = [node EXCEPT ![n] = "running"]
    /\ attempts' = [attempts EXCEPT ![n] = @ + 1]
    /\ calls' = [calls EXCEPT ![n] = @ + 1]
    /\ Settle(n, "marked")

\* An attempt begins unless the token is set by then.
BeginAttempt(n) ==
    \/ ~cancelled /\ MarkRunning(n)
    \/ cancelled /\ Settle(n, "cancelled") /\ UNCHANGED <<node, attempts, calls>>

\* Mutant of PermitFree: a result keeps its permit.
PermitNeverReleased ==
    Cardinality({n \in ReadySet : task[n] # "queued"}) < MaxConcurrent

\* A permit is free: a task holds one from its start to its result, its
\* backoff sleeps included.
PermitFree == Cardinality(Live) < MaxConcurrent

\* The semaphore is fair and the tasks were created in id order.
TaskStart(n) ==
    /\ pc = "gather" /\ task[n] = "queued"
    /\ \A m \in ReadySet : m < n => task[m] # "queued"
    /\ PermitFree
    /\ BeginAttempt(n)
    /\ UNCHANGED <<used, approval>>
    /\ TaskFrame

\* The meter.check at the head of an agent or tool handler.
BudgetCheck(n) ==
    /\ pc = "gather" /\ task[n] = "marked" /\ IsWork(n)
    /\ Settle(n, IF OverBudget THEN "over_budget" ELSE "working")
    /\ UNCHANGED <<node, attempts, used, approval, calls>>
    /\ TaskFrame

\* record_agent_step: an agent that returned is charged, whatever it returned.
Charge(n) == used' = IF wf.kind[n] = "agent" THEN used + 1 ELSE used

WorkSucceeds(n) ==
    /\ pc = "gather" /\ task[n] = "working"
    /\ Charge(n)
    /\ Settle(n, "succeeded")
    /\ UNCHANGED <<node, attempts, approval, calls>>
    /\ TaskFrame

\* Mutant of ShouldRetry: off by one.
ShouldRetryOnceMore(n, retryable) == retryable /\ attempts[n] <= MaxAttempts

\* RetryPolicy.should_retry for an error the taxonomy calls retryable.
ShouldRetry(n, retryable) == retryable /\ attempts[n] < MaxAttempts

\* The handler raised: a timeout charges nothing, an agent that returned no
\* output has been charged.
WorkFails(n) ==
    /\ pc = "gather" /\ task[n] = "working"
    /\ Charge(n) \/ used' = used
    /\ \E retryable \in BOOLEAN :
          Settle(n, IF ShouldRetry(n, retryable) THEN "backoff" ELSE "failed")
    /\ UNCHANGED <<node, attempts, approval, calls>>
    /\ TaskFrame

\* ApprovalService.resolve: the request of this node is found or created.
Request(n) == approval' = [approval EXCEPT ![n] = "pending"]

\* An agent asked for a gated tool call that nobody has decided yet:
\* pending_approval is raised before any charge.
WorkNeedsApproval(n) ==
    /\ pc = "gather" /\ task[n] = "working"
    /\ n \in wf.gated /\ wf.kind[n] = "agent"
    /\ approval[n] \in {"absent", "pending"}
    /\ Request(n)
    /\ Settle(n, "waiting")
    /\ UNCHANGED <<node, attempts, used, calls>>
    /\ TaskFrame

\* The backoff sleep ends.
TaskRetry(n) ==
    /\ pc = "gather" /\ task[n] = "backoff"
    /\ BeginAttempt(n)
    /\ UNCHANGED <<used, approval>>
    /\ TaskFrame

\* Mutant of GateVerdict: a refusal counts as an answer.
GateVerdictAnyAnswer(n) ==
    IF approval[n] \in {"granted", "rejected"} THEN "succeeded" ELSE "waiting"

\* What a gate makes of the state of its request.
GateVerdict(n) ==
    CASE approval[n] = "granted" -> "succeeded"
      [] approval[n] = "rejected" -> "failed"
      [] OTHER -> "waiting"

\* _run_approval_node: never awaits a decision, only reads it.
ConsultGate(n) ==
    /\ pc = "gather" /\ task[n] = "marked" /\ wf.kind[n] = "approval"
    /\ Settle(n, GateVerdict(n))
    /\ IF GateVerdict(n) = "waiting" THEN Request(n) ELSE UNCHANGED approval
    /\ UNCHANGED <<node, attempts, used, calls>>
    /\ TaskFrame

\* resolve() raised; the request may have been stored by then.
GateFails(n) ==
    /\ pc = "gather" /\ task[n] = "marked" /\ wf.kind[n] = "approval"
    /\ approval' = approval \/ (approval[n] = "absent" /\ Request(n))
    /\ \E retryable \in BOOLEAN :
          Settle(n, IF ShouldRetry(n, retryable) THEN "backoff" ELSE "failed")
    /\ UNCHANGED <<node, attempts, used, calls>>
    /\ TaskFrame

\* _run_join_node: an ANY join cancels the predecessors still pending.
Losers(n) ==
    {m \in wf.nodes : /\ wf.policy[n] = "any"
                      /\ node[m] = "pending"
                      /\ \E e \in Inbound(wf, n) : e.src = m}

RunJoin(n) ==
    /\ pc = "gather" /\ task[n] = "marked" /\ wf.kind[n] = "join"
    /\ node' = [m \in Node |-> IF m \in Losers(n) THEN "cancelled" ELSE node[m]]
    /\ Settle(n, "succeeded")
    /\ UNCHANGED <<attempts, used, approval, calls>>
    /\ TaskFrame

\* Branch, terminal and supervisor nodes only compute an output.
PassThrough(n) ==
    /\ pc = "gather" /\ task[n] = "marked"
    /\ wf.kind[n] \in {"branch", "terminal", "supervisor"}
    /\ Settle(n, "succeeded")
    /\ UNCHANGED <<node, attempts, used, approval, calls>>
    /\ TaskFrame

------------------------------------------------------------------------------
(* gather() returns: _run_ready_set and _apply_outcomes.                    *)

AllSettled == \A n \in ReadySet : task[n] \in StopTask \cup OutcomeTask

\* The first stop in id order is re-raised and every outcome is dropped.
Gather ==
    /\ pc = "gather" /\ AllSettled
    /\ LET stops == {n \in ReadySet : task[n] \in StopTask}
           First(n) == n \in stops /\ \A m \in stops : n <= m
       IN  \/ /\ \E n \in stops : First(n) /\ task[n] = "cancelled"
              /\ HandleCancellation
           \/ /\ \E n \in stops : First(n) /\ task[n] = "over_budget"
              /\ HandleBudgetExhaustion
           \/ /\ stops = {}
              /\ pc' = "apply"
              /\ UNCHANGED <<memory, steps, task, cancelled, db>>
    /\ UNCHANGED <<wf, holds, approval, calls, crashes, resumes>>

\* Folding in one outcome, in id order, with its checkpoint.
ApplyFrame(n) ==
    /\ task' = [task EXCEPT ![n] = "none"]
    /\ UNCHANGED <<attempts, used, pc, steps, cancelled>>
    /\ Save

IsNext(n) == task[n] # "none" /\ \A m \in ReadySet : n <= m

\* A second pause in one ready set: the transition from waiting_for_approval
\* to itself is illegal, the exception leaves run(), and _execute records the
\* execution as failed.
FailRun(n) ==
    EndRun("failed", [node EXCEPT ![n] = "waiting_for_approval"])

ApplyWaiting(n) ==
    /\ pc = "apply" /\ IsNext(n) /\ task[n] = "waiting"
    /\ \/ /\ CanTransition(status, "waiting_for_approval")
          /\ node' = [node EXCEPT ![n] = "waiting_for_approval"]
          /\ status' = "waiting_for_approval"
          /\ ApplyFrame(n)
       \/ /\ ~CanTransition(status, "waiting_for_approval")
          /\ FailRun(n)
    /\ UNCHANGED <<wf, holds, approval, calls, crashes, resumes>>

ApplyResult(n) ==
    /\ pc = "apply" /\ IsNext(n) /\ task[n] \in {"succeeded", "failed"}
    /\ node' = [node EXCEPT ![n] = task[n]]
    /\ UNCHANGED status
    /\ ApplyFrame(n)
    /\ UNCHANGED <<wf, holds, approval, calls, crashes, resumes>>

BlockingFailures(st) ==
    {n \in wf.nodes : st[n] = "failed" /\ IsBlockingFailure(wf, n)}

\* After the last outcome: unreachable nodes are skipped, in memory only, then
\* the run pauses, stops on a blocking failure, or iterates.
EndApply ==
    /\ pc = "apply" /\ ReadySet = {}
    /\ LET skipped == SkipUnreachable(wf, node, holds)
       IN  \/ /\ status = "waiting_for_approval"
              /\ UNCHANGED db
              /\ Unload
           \/ /\ status # "waiting_for_approval"
              /\ BlockingFailures(skipped) # {}
              /\ node' = skipped
              /\ UNCHANGED task
              /\ BeginFinish
           \/ /\ status # "waiting_for_approval"
              /\ BlockingFailures(skipped) = {}
              /\ node' = skipped
              /\ pc' = "loop"
              /\ UNCHANGED <<status, attempts, used, steps, task, cancelled, db>>
    /\ UNCHANGED <<wf, holds, approval, calls, crashes, resumes>>

\* _finish: the verdict, made durable by the EXECUTION_FINALIZED checkpoint.
Finish ==
    /\ pc = "finish"
    /\ EndRun(IF BlockingFailures(node) # {} THEN "failed" ELSE "succeeded", node)
    /\ UNCHANGED <<wf, holds, approval, calls, crashes, resumes>>

------------------------------------------------------------------------------
(* The environment.                                                         *)

\* ExecutionRunner.cancel sets the token of the run in this process.
Cancel ==
    /\ pc # "idle" /\ ~cancelled
    /\ cancelled' = TRUE
    /\ UNCHANGED <<wf, holds, memory, pc, steps, task, db, approval, calls,
                   crashes, resumes>>

\* A reviewer decides a pending request.
Decide(n) ==
    /\ approval[n] = "pending"
    /\ \E decision \in {"granted", "rejected"} :
          approval' = [approval EXCEPT ![n] = decision]
    /\ UNCHANGED <<wf, holds, memory, run, db, calls, crashes, resumes>>

\* The process dies and its memory with it.
Crash ==
    /\ pc # "idle"
    /\ crashes < MaxCrashes
    /\ crashes' = crashes + 1
    /\ UNCHANGED db
    /\ Unload
    /\ UNCHANGED <<wf, holds, approval, calls, resumes>>

------------------------------------------------------------------------------
TaskStep(n) ==
    \/ TaskStart(n) \/ BudgetCheck(n) \/ WorkSucceeds(n) \/ WorkFails(n)
    \/ WorkNeedsApproval(n) \/ TaskRetry(n) \/ ConsultGate(n) \/ GateFails(n)
    \/ RunJoin(n) \/ PassThrough(n)

\* The steps the event loop takes by itself while a run is on.
RunStep ==
    \/ Launch \/ StopInLoop \/ LeaveLoop \/ Gather \/ EndApply \/ Finish
    \/ \E n \in wf.nodes : TaskStep(n) \/ ApplyWaiting(n) \/ ApplyResult(n)

Next ==
    \/ RunStep
    \/ Start \/ Resume \/ Cancel \/ Crash
    \/ \E n \in wf.nodes : Decide(n)

Spec == Init /\ [][Next]_vars

\* asyncio runs every ready task, and every handler has a deadline.
FairSpec == Spec /\ WF_vars(RunStep)
==============================================================================
