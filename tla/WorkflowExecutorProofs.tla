------------------------ MODULE WorkflowExecutorProofs ------------------------
(***************************************************************************)
(* Proofs that every behaviour of WorkflowExecutor has the properties of   *)
(* WorkflowExecutorProperties that do not need fairness, for every set of  *)
(* workflows and every bound.                                              *)
(***************************************************************************)
EXTENDS WorkflowExecutorProperties, FiniteSetTheorems, TLAPS

\* A workflow speaks of nodes of Node only.
LEMMA WorkflowNodes ==
    ASSUME wf \in Workflows
    PROVE  /\ wf.nodes \subseteq Node
           /\ wf.nodes \subseteq Nat
           /\ \A e \in wf.edges : e.src \in wf.nodes /\ e.dst \in wf.nodes
<1>1. IsWorkflow(wf, Node)
  BY ConstantsAssumption DEF ConstantsAssumption
<1>2. wf.nodes \subseteq Node /\ Node \subseteq Nat
  BY <1>1, ConstantsAssumption DEF ConstantsAssumption, IsWorkflow
<1>3. wf.edges \subseteq [src : wf.nodes, dst : wf.nodes, cond : BOOLEAN]
  BY <1>1 DEF IsWorkflow
<1> QED
  BY <1>2, <1>3

\* A pass of skips turns pending nodes into skipped ones and nothing else.
LEMMA SkipsArePending ==
    ASSUME NEW w, NEW st \in [Node -> NodeStatus], NEW h
    PROVE  /\ SkipUnreachable(w, st, h) \in [Node -> NodeStatus]
           /\ \A n \in Node :
                 \/ SkipUnreachable(w, st, h)[n] = st[n]
                 \/ /\ st[n] = "pending"
                    /\ SkipUnreachable(w, st, h)[n] = "skipped"
<1> DEFINE skipped == SkippedByPass(w, st, h)
<1>1. \A n \in skipped : st[n] = "pending"
  BY DEF SkippedByPass
<1>2. SkipUnreachable(w, st, h) =
        [n \in Node |-> IF n \in skipped THEN "skipped" ELSE st[n]]
  BY DEF SkipUnreachable
<1> HIDE DEF skipped
<1> QED
  BY <1>1, <1>2 DEF NodeStatus

------------------------------------------------------------------------------
(* Type correctness.                                                        *)

\* What an idle execution holds in memory is as typed as its row.
LEMMA UnloadType ==
    ASSUME db' \in Snapshot, Unload
    PROVE  /\ status' \in ExecutionStatus /\ node' \in [Node -> NodeStatus]
           /\ attempts' \in [Node -> Nat] /\ used' \in Nat
           /\ pc' \in {"idle", "loop", "gather", "apply", "finish"}
           /\ steps' \in Nat /\ task' \in [Node -> TaskState]
           /\ cancelled' \in BOOLEAN
<1>1. NoTasks \in [Node -> TaskState]
  BY DEF NoTasks, TaskState
<1>2. /\ db'.status \in ExecutionStatus /\ db'.node \in [Node -> NodeStatus]
      /\ db'.attempts \in [Node -> Nat] /\ db'.used \in Nat
  BY DEF Snapshot
<1> QED
  BY <1>1, <1>2 DEF Unload

\* Every way a run ends leaves a typed state.
LEMMA EndRunType ==
    ASSUME TypeOK, NEW target \in ExecutionStatus,
           NEW nodes \in [Node -> NodeStatus], EndRun(target, nodes),
           UNCHANGED <<wf, holds, approval, calls, crashes, resumes>>
    PROVE  TypeOK'
<1>1. db' \in Snapshot
  BY DEF EndRun, TypeOK, Snapshot
<1>2. Unload
  BY DEF EndRun
<1> QED
  BY <1>1, <1>2, UnloadType DEF TypeOK

LEMMA CancelRunningType ==
    ASSUME TypeOK PROVE CancelRunning \in [Node -> NodeStatus]
  BY DEF CancelRunning, TypeOK, NodeStatus

LEMMA TypeStep == TypeOK /\ [Next]_vars => TypeOK'
<1> SUFFICES ASSUME TypeOK, [Next]_vars PROVE TypeOK'
  OBVIOUS
<1> USE ConstantsAssumption DEF ConstantsAssumption
<1>w. wf.nodes \subseteq Node
  BY WorkflowNodes DEF TypeOK
<1>1. CASE Start
  BY <1>1 DEF Start, EnterLoop, Save, TypeOK, Snapshot, ExecutionStatus
<1>2. CASE Resume
  BY <1>2 DEF Resume, EnterLoop, TypeOK, ExecutionStatus
<1>3. CASE Launch
  <2>1. task' \in [Node -> TaskState]
    BY <1>3 DEF Launch, TaskState
  <2> QED
    BY <1>3, <2>1 DEF Launch, Save, memory, TypeOK, Snapshot
<1>4. CASE StopInLoop
  <2>0. "cancelled" \in ExecutionStatus /\ "budget_exceeded" \in ExecutionStatus
    BY DEF ExecutionStatus
  <2>1. CASE HandleCancellation
    BY <1>4, <2>0, <2>1, CancelRunningType, EndRunType
    DEF StopInLoop, HandleCancellation
  <2>2. CASE HandleBudgetExhaustion
    <3>1. node \in [Node -> NodeStatus]
      BY DEF TypeOK
    <3> QED
      BY <1>4, <2>0, <2>2, <3>1, EndRunType DEF StopInLoop, HandleBudgetExhaustion
  <2> QED
    BY <1>4, <2>1, <2>2 DEF StopInLoop
<1>5. CASE LeaveLoop
  BY <1>5 DEF LeaveLoop, BeginFinish, Save, TypeOK, Snapshot
<1>6. CASE Gather
  <2>0. "cancelled" \in ExecutionStatus /\ "budget_exceeded" \in ExecutionStatus
    BY DEF ExecutionStatus
  <2>1. CASE HandleCancellation
    BY <1>6, <2>0, <2>1, CancelRunningType, EndRunType
    DEF Gather, HandleCancellation
  <2>2. CASE HandleBudgetExhaustion
    <3>1. node \in [Node -> NodeStatus]
      BY DEF TypeOK
    <3> QED
      BY <1>6, <2>0, <2>2, <3>1, EndRunType DEF Gather, HandleBudgetExhaustion
  <2>3. CASE pc' = "apply" /\ UNCHANGED <<memory, steps, task, cancelled, db>>
    BY <1>6, <2>3 DEF Gather, memory, TypeOK
  <2> QED
    BY <1>6, <2>1, <2>2, <2>3 DEF Gather
<1>7. CASE EndApply
  <2> DEFINE skipped == SkipUnreachable(wf, node, holds)
  <2>1. skipped \in [Node -> NodeStatus]
    BY SkipsArePending DEF TypeOK
  <2> HIDE DEF skipped
  <2>2. CASE UNCHANGED db /\ Unload
    BY <1>7, <2>2, UnloadType DEF EndApply, TypeOK
  <2>3. CASE node' = skipped /\ UNCHANGED task /\ BeginFinish
    BY <1>7, <2>1, <2>3 DEF EndApply, BeginFinish, Save, TypeOK, Snapshot
  <2>4. CASE /\ node' = skipped /\ pc' = "loop"
             /\ UNCHANGED <<status, attempts, used, steps, task, cancelled, db>>
    BY <1>7, <2>1, <2>4 DEF EndApply, TypeOK
  <2> QED
    BY <1>7, <2>2, <2>3, <2>4 DEF EndApply, skipped
<1>8. CASE Finish
  <2> DEFINE verdict == IF BlockingFailures(node) # {} THEN "failed" ELSE "succeeded"
  <2>1. verdict \in ExecutionStatus
    BY DEF ExecutionStatus
  <2>2. EndRun(verdict, node)
    BY <1>8 DEF Finish
  <2>3. node \in [Node -> NodeStatus]
    BY DEF TypeOK
  <2> HIDE DEF verdict
  <2> QED
    BY <1>8, <2>1, <2>2, <2>3, EndRunType DEF Finish
<1>9. ASSUME NEW n \in wf.nodes, TaskStep(n) PROVE TypeOK'
  <2>0. n \in Node
    BY <1>w
  <2>1. CASE TaskStart(n)
    BY <1>9, <2>0, <2>1
    DEF TaskStart, BeginAttempt, MarkRunning, Settle, TaskFrame, TypeOK,
        TaskState, LiveTask, StopTask, NodeStatus
  <2>2. CASE BudgetCheck(n)
    BY <1>9, <2>0, <2>2
    DEF BudgetCheck, Settle, TaskFrame, TypeOK, TaskState, LiveTask, StopTask
  <2>3. CASE WorkSucceeds(n)
    BY <1>9, <2>0, <2>3
    DEF WorkSucceeds, Charge, Settle, TaskFrame, TypeOK, TaskState, OutcomeTask
  <2>4. CASE WorkFails(n)
    BY <1>9, <2>0, <2>4
    DEF WorkFails, Charge, Settle, TaskFrame, TypeOK, TaskState, LiveTask,
        OutcomeTask
  <2>5. CASE WorkNeedsApproval(n)
    BY <1>9, <2>0, <2>5
    DEF WorkNeedsApproval, Request, Settle, TaskFrame, TypeOK, TaskState,
        OutcomeTask
  <2>6. CASE TaskRetry(n)
    BY <1>9, <2>0, <2>6
    DEF TaskRetry, BeginAttempt, MarkRunning, Settle, TaskFrame, TypeOK,
        TaskState, LiveTask, StopTask, NodeStatus
  <2>7. CASE ConsultGate(n)
    BY <1>9, <2>0, <2>7
    DEF ConsultGate, GateVerdict, Request, Settle, TaskFrame, TypeOK, TaskState,
        OutcomeTask
  <2>g. CASE GateFails(n)
    BY <1>9, <2>0, <2>g
    DEF GateFails, Request, Settle, TaskFrame, TypeOK, TaskState, LiveTask, OutcomeTask
  <2>8. CASE RunJoin(n)
    BY <1>9, <2>0, <2>8
    DEF RunJoin, Settle, TaskFrame, TypeOK, TaskState, OutcomeTask, NodeStatus
  <2>9. CASE PassThrough(n)
    BY <1>9, <2>0, <2>9
    DEF PassThrough, Settle, TaskFrame, TypeOK, TaskState, OutcomeTask
  <2> QED
    BY <1>9, <2>1, <2>2, <2>3, <2>4, <2>5, <2>6, <2>7, <2>g, <2>8, <2>9 DEF TaskStep
<1>10. ASSUME NEW n \in wf.nodes, ApplyWaiting(n) PROVE TypeOK'
  <2>0. n \in Node
    BY <1>w
  <2>1. CASE FailRun(n)
    <3>1. [node EXCEPT ![n] = "waiting_for_approval"] \in [Node -> NodeStatus]
      BY <2>0 DEF TypeOK, NodeStatus
    <3>2. "failed" \in ExecutionStatus
      BY DEF ExecutionStatus
    <3> QED
      BY <1>10, <2>1, <3>1, <3>2, EndRunType DEF ApplyWaiting, FailRun
  <2>2. CASE /\ node' = [node EXCEPT ![n] = "waiting_for_approval"]
             /\ status' = "waiting_for_approval"
             /\ ApplyFrame(n)
    BY <1>10, <2>0, <2>2
    DEF ApplyWaiting, ApplyFrame, Save, TypeOK, Snapshot, NodeStatus,
        ExecutionStatus, TaskState
  <2> QED
    BY <1>10, <2>1, <2>2 DEF ApplyWaiting
<1>11. ASSUME NEW n \in wf.nodes, ApplyResult(n) PROVE TypeOK'
  <2>0. n \in Node
    BY <1>w
  <2> QED
    BY <1>11, <2>0
    DEF ApplyResult, ApplyFrame, Save, TypeOK, Snapshot, NodeStatus, TaskState
<1>12. CASE Cancel
  BY <1>12 DEF Cancel, memory, TypeOK
<1>13. ASSUME NEW n \in wf.nodes, Decide(n) PROVE TypeOK'
  BY <1>13 DEF Decide, memory, run, TypeOK
<1>14. CASE Crash
  <2>1. db' \in Snapshot /\ Unload
    BY <1>14 DEF Crash, TypeOK
  <2> QED
    BY <1>14, <2>1, UnloadType DEF Crash, TypeOK
<1>15. CASE UNCHANGED vars
  BY <1>15 DEF vars, memory, run, TypeOK
<1> QED
  BY <1>1, <1>2, <1>3, <1>4, <1>5, <1>6, <1>7, <1>8, <1>9, <1>10, <1>11,
     <1>12, <1>13, <1>14, <1>15
  DEF Next, RunStep

\* Every reachable state is typed, whatever the workflows and the bounds.
THEOREM TypeCorrect == Spec => []TypeOK
<1>1. ASSUME Init PROVE TypeOK
  <2>1. /\ node \in [Node -> NodeStatus] /\ attempts \in [Node -> Nat]
        /\ status \in ExecutionStatus /\ used \in Nat
    BY <1>1 DEF Init, ExecutionStatus, NodeStatus
  <2>2. db \in Snapshot
    BY <1>1, <2>1 DEF Init, Snapshot
  <2>3. task \in [Node -> TaskState]
    BY <1>1 DEF Init, NoTasks, TaskState
  <2> QED
    BY <1>1, <2>1, <2>2, <2>3 DEF Init, TypeOK
<1> QED
  BY <1>1, TypeStep, PTL DEF Spec
------------------------------------------------------------------------------
(* The state row, the memory of the run and its tasks agree.                *)

Agreement == RowIsInMemory /\ StatusFollowsRun /\ TasksAreOpen

\* An execution that is unloaded agrees with its row, whatever the row says.
LEMMA UnloadAgrees ==
    ASSUME Unload PROVE Agreement'
<1>1. \A n \in Node : task'[n] = "none"
  BY DEF Unload, NoTasks
<1>2. RowIsInMemory'
  BY DEF Unload, RowIsInMemory
<1>3. StatusFollowsRun'
  BY DEF Unload, StatusFollowsRun
<1>4. TasksAreOpen'
  BY <1>1 DEF Unload, TasksAreOpen, LiveTask, OutcomeTask
<1> QED
  BY <1>2, <1>3, <1>4 DEF Agreement

\* What a step of a node task has to keep: tasks and memory move for nodes
\* that have a task, or settle pending ones without a row.
LEMMA TaskStepAgrees ==
    ASSUME TypeOK, Agreement, NEW n \in wf.nodes, TaskStep(n)
    PROVE  Agreement'
<1>0. n \in Node
  BY WorkflowNodes DEF TypeOK
<1>1. /\ pc = "gather" /\ task[n] # "none"
      /\ UNCHANGED <<wf, status, pc, db>>
  BY DEF TaskStep, TaskFrame, TaskStart, BudgetCheck, WorkSucceeds, WorkFails,
         WorkNeedsApproval, TaskRetry, ConsultGate, GateFails, RunJoin, PassThrough
<1>2. db.node[n] \notin TerminalNodeStatus
  BY <1>0, <1>1 DEF Agreement, TasksAreOpen
<1>3. \/ node' = node
      \/ node' = [node EXCEPT ![n] = "running"]
      \/ /\ RunJoin(n)
         /\ node' = [m \in Node |-> IF m \in Losers(n) THEN "cancelled" ELSE node[m]]
  BY DEF TaskStep, TaskStart, BudgetCheck, WorkSucceeds, WorkFails,
         WorkNeedsApproval, TaskRetry, ConsultGate, GateFails, RunJoin, PassThrough,
         BeginAttempt, MarkRunning
<1>4. \A m \in Losers(n) : node[m] = "pending"
  BY DEF Losers
<1>5. \A m \in Node : db.node[m] \in TerminalNodeStatus => node'[m] = node[m]
  <2> SUFFICES ASSUME NEW m \in Node, db.node[m] \in TerminalNodeStatus
               PROVE  node'[m] = node[m]
    OBVIOUS
  <2>1. node[m] = db.node[m] /\ m # n
    BY <1>2 DEF Agreement, RowIsInMemory
  <2>2. node[m] # "pending"
    BY <2>1 DEF TerminalNodeStatus
  <2> QED
    BY <1>0, <1>3, <1>4, <2>1, <2>2 DEF TypeOK
<1>6. RowIsInMemory'
  BY <1>1, <1>5 DEF Agreement, RowIsInMemory
<1>7. StatusFollowsRun'
  BY <1>1 DEF Agreement, StatusFollowsRun
<1>8. TasksAreOpen'
  <2>1. \E r \in TaskState \ {"none"} : task' = [task EXCEPT ![n] = r]
    BY DEF TaskStep, TaskStart, BudgetCheck, WorkSucceeds, WorkFails,
           WorkNeedsApproval, TaskRetry, ConsultGate, GateFails, RunJoin, PassThrough,
           BeginAttempt, MarkRunning, GateVerdict, Settle, TaskState, LiveTask,
           StopTask, OutcomeTask
  <2>2. \A m \in Node : task'[m] # "none" =>
          m \in wf'.nodes /\ pc' \in {"gather", "apply"} /\ db'.node[m] \notin TerminalNodeStatus
    BY <1>0, <1>1, <1>2, <2>1 DEF Agreement, TasksAreOpen, TypeOK
  <2>3. task'[n] \in LiveTask \cup OutcomeTask => node'[n] = "running"
    <3>1. CASE TaskStart(n) \/ TaskRetry(n)
      BY <1>0, <3>1
      DEF TaskStart, TaskRetry, BeginAttempt, MarkRunning, Settle, LiveTask,
          OutcomeTask, TypeOK
    <3>2. CASE BudgetCheck(n) \/ WorkSucceeds(n) \/ WorkFails(n) \/ WorkNeedsApproval(n)
               \/ ConsultGate(n) \/ GateFails(n) \/ PassThrough(n)
      <4>1. task[n] \in LiveTask /\ node' = node
        BY <3>2 DEF BudgetCheck, WorkSucceeds, WorkFails, WorkNeedsApproval,
                    ConsultGate, GateFails, PassThrough, LiveTask
      <4> QED
        BY <1>0, <4>1 DEF Agreement, TasksAreOpen
    <3>3. CASE RunJoin(n)
      <4>1. node[n] = "running"
        BY <1>0, <3>3 DEF RunJoin, LiveTask, Agreement, TasksAreOpen
      <4> QED
        BY <1>0, <1>4, <3>3, <4>1 DEF RunJoin
    <3> QED
      BY <3>1, <3>2, <3>3 DEF TaskStep
  <2>4. \A m \in Node : task'[m] \in LiveTask \cup OutcomeTask => node'[m] = "running"
    <3> SUFFICES ASSUME NEW m \in Node, m # n, task'[m] \in LiveTask \cup OutcomeTask
                 PROVE  node'[m] = "running"
      BY <2>3
    <3>1. task[m] = task'[m]
      BY <2>1 DEF TypeOK
    <3>2. node[m] = "running"
      BY <3>1 DEF Agreement, TasksAreOpen
    <3> QED
      BY <1>0, <1>3, <1>4, <3>2 DEF TypeOK
  <2> QED
    BY <1>1, <2>2, <2>4 DEF TasksAreOpen
<1> QED
  BY <1>6, <1>7, <1>8 DEF Agreement

LEMMA AgreementStep == TypeOK /\ Agreement /\ [Next]_vars => Agreement'
<1> SUFFICES ASSUME TypeOK, Agreement, [Next]_vars PROVE Agreement'
  OBVIOUS
<1>w. wf.nodes \subseteq Node
  BY WorkflowNodes DEF TypeOK
<1>e. ASSUME NEW target, NEW nodes, EndRun(target, nodes) PROVE Agreement'
  BY <1>e, UnloadAgrees DEF EndRun
<1>1. CASE Start
  <2>1. RowIsInMemory'
    BY <1>1 DEF Start, EnterLoop, Save, RowIsInMemory, TerminalExecutionStatus
  <2>2. StatusFollowsRun' /\ TasksAreOpen'
    <3>1. \A n \in Node : task'[n] = "none" /\ task' = task
      BY <1>1 DEF Start, EnterLoop, Agreement, TasksAreOpen
    <3> QED
      BY <1>1, <3>1 DEF Start, EnterLoop, StatusFollowsRun, TasksAreOpen,
                        LiveTask, OutcomeTask
  <2> QED
    BY <2>1, <2>2 DEF Agreement
<1>2. CASE Resume
  <2>1. RowIsInMemory'
    BY <1>2 DEF Resume, Resumable, EnterLoop, RowIsInMemory, Agreement
  <2>2. StatusFollowsRun' /\ TasksAreOpen'
    <3>1. \A n \in Node : task'[n] = "none" /\ task' = task
      BY <1>2 DEF Resume, EnterLoop, Agreement, TasksAreOpen
    <3> QED
      BY <1>2, <3>1 DEF Resume, EnterLoop, StatusFollowsRun, TasksAreOpen,
                        LiveTask, OutcomeTask
  <2> QED
    BY <2>1, <2>2 DEF Agreement
<1>3. CASE Launch
  <2>1. /\ pc' = "gather" /\ status = "running" /\ UNCHANGED <<wf, memory>> /\ Save
    BY <1>3 DEF Launch, Agreement, StatusFollowsRun
  <2>2. \A n \in Node : /\ task'[n] \in {"none", "queued"}
                        /\ task'[n] # "none" => n \in ReadyNodes(wf, node, holds)
    BY <1>3 DEF Launch
  <2>3. \A n \in ReadyNodes(wf, node, holds) :
            n \in wf.nodes /\ node[n] \notin TerminalNodeStatus
    BY DEF ReadyNodes, RunnableNodeStatus, TerminalNodeStatus
  <2>4. RowIsInMemory'
    BY <2>1 DEF Save, memory, RowIsInMemory, TerminalExecutionStatus
  <2>5. StatusFollowsRun'
    BY <2>1 DEF Save, memory, StatusFollowsRun
  <2>6. TasksAreOpen'
    BY <2>1, <2>2, <2>3 DEF Save, memory, TasksAreOpen, LiveTask, OutcomeTask
  <2> QED
    BY <2>4, <2>5, <2>6 DEF Agreement
<1>4. CASE StopInLoop
  BY <1>4, <1>e DEF StopInLoop, HandleCancellation, HandleBudgetExhaustion
<1>5. CASE LeaveLoop
  <2>1. /\ pc' = "finish" /\ status = "running" /\ Save
        /\ UNCHANGED <<wf, status, node, task>>
        /\ \A n \in Node : task[n] = "none"
    BY <1>5 DEF LeaveLoop, BeginFinish, Agreement, StatusFollowsRun, TasksAreOpen
  <2>2. RowIsInMemory'
    BY <2>1 DEF Save, RowIsInMemory, TerminalExecutionStatus
  <2>3. StatusFollowsRun' /\ TasksAreOpen'
    BY <2>1 DEF Save, StatusFollowsRun, TasksAreOpen, LiveTask, OutcomeTask
  <2> QED
    BY <2>2, <2>3 DEF Agreement
<1>6. CASE Gather
  <2>1. CASE HandleCancellation \/ HandleBudgetExhaustion
    BY <1>e, <2>1 DEF HandleCancellation, HandleBudgetExhaustion
  <2>2. CASE /\ {n \in ReadySet : task[n] \in StopTask} = {}
             /\ pc' = "apply" /\ UNCHANGED <<memory, steps, task, cancelled, db>>
    <3>1. \A n \in Node : task[n] \in {"none"} \cup OutcomeTask
      <4> SUFFICES ASSUME NEW n \in Node, task[n] # "none"
                   PROVE  task[n] \in OutcomeTask
        OBVIOUS
      <4>1. n \in ReadySet
        BY DEF Agreement, TasksAreOpen, ReadySet
      <4> QED
        BY <1>6, <2>2, <4>1 DEF Gather, AllSettled
    <3>2. pc = "gather" /\ wf' = wf
      BY <1>6 DEF Gather
    <3>3. RowIsInMemory'
      BY <2>2, <3>2 DEF memory, Agreement, RowIsInMemory
    <3>4. StatusFollowsRun'
      BY <2>2, <3>2 DEF memory, Agreement, StatusFollowsRun
    <3>5. TasksAreOpen'
      BY <2>2, <3>1, <3>2 DEF memory, Agreement, TasksAreOpen
    <3> QED
      BY <3>3, <3>4, <3>5 DEF Agreement
  <2> QED
    BY <1>6, <2>1, <2>2 DEF Gather
<1>7. CASE EndApply
  <2> DEFINE skipped == SkipUnreachable(wf, node, holds)
  <2>1. \A n \in Node : skipped[n] = node[n] \/ node[n] = "pending"
    BY SkipsArePending DEF TypeOK
  <2>2. \A n \in Node : task[n] = "none"
    BY <1>7 DEF EndApply, ReadySet, Agreement, TasksAreOpen
  <2>3. wf' = wf /\ pc = "apply" /\ status \in {"running", "waiting_for_approval"}
        /\ status = db.status
    BY <1>7 DEF EndApply, Agreement, StatusFollowsRun
  <2>4. CASE Unload
    BY <2>4, UnloadAgrees
  <2>5. CASE /\ status # "waiting_for_approval" /\ node' = skipped
             /\ UNCHANGED task /\ BeginFinish
    <3>1. pc' = "finish" /\ status' = "running" /\ db'.status = "running"
          /\ db'.node = node'
      BY <2>3, <2>5 DEF BeginFinish, Save
    <3> QED
      BY <2>2, <2>3, <2>5, <3>1
      DEF Agreement, RowIsInMemory, StatusFollowsRun, TasksAreOpen,
          TerminalExecutionStatus, LiveTask, OutcomeTask
  <2>6. CASE /\ status # "waiting_for_approval" /\ node' = skipped /\ pc' = "loop"
             /\ UNCHANGED <<status, attempts, used, steps, task, cancelled, db>>
    <3>1. \A n \in Node : db.node[n] \in TerminalNodeStatus => node'[n] = db.node[n]
      BY <2>1, <2>6 DEF Agreement, RowIsInMemory, TerminalNodeStatus
    <3>2. RowIsInMemory'
      BY <2>3, <2>6, <3>1 DEF Agreement, RowIsInMemory
    <3>3. StatusFollowsRun' /\ TasksAreOpen'
      BY <2>2, <2>3, <2>6
      DEF StatusFollowsRun, TasksAreOpen, LiveTask, OutcomeTask
    <3> QED
      BY <3>2, <3>3 DEF Agreement
  <2> HIDE DEF skipped
  <2> QED
    BY <1>7, <2>4, <2>5, <2>6 DEF EndApply, skipped
<1>8. CASE Finish
  BY <1>8, <1>e DEF Finish
<1>9. ASSUME NEW n \in wf.nodes, TaskStep(n) PROVE Agreement'
  BY <1>9, TaskStepAgrees
<1>10. ASSUME NEW n \in wf.nodes, ApplyWaiting(n) PROVE Agreement'
  <2>1. CASE FailRun(n)
    BY <1>e, <2>1 DEF FailRun
  <2>2. CASE /\ node' = [node EXCEPT ![n] = "waiting_for_approval"]
             /\ status' = "waiting_for_approval"
             /\ ApplyFrame(n)
    <3>0. n \in Node /\ pc = "apply" /\ wf' = wf
      BY <1>w, <1>10 DEF ApplyWaiting
    <3>1. pc' = "apply" /\ db'.status = status' /\ db'.node = node'
          /\ task' = [task EXCEPT ![n] = "none"]
      BY <2>2, <3>0 DEF ApplyFrame, Save
    <3>2. RowIsInMemory'
      BY <2>2, <3>1 DEF RowIsInMemory, TerminalExecutionStatus
    <3>3. StatusFollowsRun'
      <4>1. node'[n] = "waiting_for_approval" /\ task'[n] = "none"
        BY <2>2, <3>0, <3>1 DEF TypeOK
      <4> QED
        BY <2>2, <3>0, <3>1, <4>1 DEF StatusFollowsRun
    <3>4. TasksAreOpen'
      <4>1. \A m \in Node : task'[m] # "none" =>
                m # n /\ task'[m] = task[m] /\ node'[m] = node[m]
        BY <2>2, <3>0, <3>1 DEF TypeOK
      <4>2. \A m \in Node : task[m] # "none" => task[m] \in OutcomeTask /\ node[m] = "running"
        BY <3>0 DEF Agreement, TasksAreOpen
      <4>3. "running" \notin TerminalNodeStatus
        BY DEF TerminalNodeStatus
      <4>4. \A m \in Node : task[m] # "none" => m \in wf.nodes
        BY DEF Agreement, TasksAreOpen
      <4>5. "none" \notin LiveTask \cup OutcomeTask
        BY DEF LiveTask, OutcomeTask
      <4> QED
        BY <3>0, <3>1, <4>1, <4>2, <4>3, <4>4, <4>5 DEF TasksAreOpen
    <3> QED
      BY <3>2, <3>3, <3>4 DEF Agreement
  <2> QED
    BY <1>10, <2>1, <2>2 DEF ApplyWaiting
<1>11. ASSUME NEW n \in wf.nodes, ApplyResult(n) PROVE Agreement'
  <2>0. n \in Node /\ pc = "apply" /\ wf' = wf /\ status' = status /\ task[n] # "none"
        /\ node' = [node EXCEPT ![n] = task[n]]
    BY <1>w, <1>11 DEF ApplyResult
  <2>1. pc' = "apply" /\ db'.status = status' /\ db'.node = node'
        /\ task' = [task EXCEPT ![n] = "none"]
    BY <1>11, <2>0 DEF ApplyResult, ApplyFrame, Save
  <2>2. status \in {"running", "waiting_for_approval"}
    BY <2>0 DEF Agreement, StatusFollowsRun
  <2>3. RowIsInMemory'
    BY <2>0, <2>1, <2>2 DEF RowIsInMemory, TerminalExecutionStatus
  <2>4. StatusFollowsRun'
    <3>1. ASSUME status = "waiting_for_approval"
          PROVE  \E m \in wf.nodes : node'[m] = "waiting_for_approval" /\ task'[m] = "none"
      <4>1. PICK m \in wf.nodes : node[m] = "waiting_for_approval" /\ task[m] = "none"
        BY <2>0, <3>1 DEF Agreement, StatusFollowsRun
      <4>2. m \in Node /\ m # n
        BY <1>w, <2>0, <4>1
      <4> QED
        BY <2>0, <2>1, <4>1, <4>2 DEF TypeOK
    <3> QED
      BY <2>0, <2>1, <2>2, <3>1 DEF StatusFollowsRun
  <2>5. TasksAreOpen'
    <3>1. \A m \in Node : task'[m] # "none" =>
              m # n /\ task'[m] = task[m] /\ node'[m] = node[m]
      BY <2>0, <2>1 DEF TypeOK
    <3>2. \A m \in Node : task[m] # "none" =>
              task[m] \in OutcomeTask /\ node[m] = "running" /\ m \in wf.nodes
      BY <2>0 DEF Agreement, TasksAreOpen
    <3>3. "running" \notin TerminalNodeStatus
      BY DEF TerminalNodeStatus
    <3>4. "none" \notin LiveTask \cup OutcomeTask
      BY DEF LiveTask, OutcomeTask
    <3> QED
      BY <2>0, <2>1, <3>1, <3>2, <3>3, <3>4 DEF TasksAreOpen
  <2> QED
    BY <2>3, <2>4, <2>5 DEF Agreement
<1>12. CASE Cancel
  BY <1>12 DEF Cancel, memory, Agreement, RowIsInMemory, StatusFollowsRun, TasksAreOpen
<1>13. ASSUME NEW n \in wf.nodes, Decide(n) PROVE Agreement'
  BY <1>13 DEF Decide, memory, run, Agreement, RowIsInMemory, StatusFollowsRun, TasksAreOpen
<1>14. CASE Crash
  BY <1>14, UnloadAgrees DEF Crash
<1>15. CASE UNCHANGED vars
  BY <1>15 DEF vars, memory, run, Agreement, RowIsInMemory, StatusFollowsRun, TasksAreOpen
<1> QED
  BY <1>1, <1>2, <1>3, <1>4, <1>5, <1>6, <1>7, <1>8, <1>9, <1>10, <1>11,
     <1>12, <1>13, <1>14, <1>15
  DEF Next, RunStep

\* In every reachable state the row, the memory and the tasks agree.
THEOREM AlwaysAgrees == Spec => []Agreement
<1>1. Init => Agreement
  <2> SUFFICES ASSUME Init PROVE Agreement
    OBVIOUS
  <2>1. \A n \in Node : task[n] = "none"
    BY DEF Init, NoTasks
  <2> QED
    BY <2>1 DEF Init, Agreement, RowIsInMemory, StatusFollowsRun, TasksAreOpen,
                LiveTask, OutcomeTask
<1> QED
  BY <1>1, TypeCorrect, AgreementStep, PTL DEF Spec
------------------------------------------------------------------------------
(* The state row implements DurableExecution.                               *)

\* Both modules speak of the same statuses.
LEMMA SameStatuses ==
    /\ Durable!TerminalExecutionStatus = TerminalExecutionStatus
    /\ Durable!TerminalNodeStatus = TerminalNodeStatus
    /\ Durable!NodeStatus = NodeStatus
  BY DEF Durable!TerminalExecutionStatus, TerminalExecutionStatus,
         Durable!TerminalNodeStatus, TerminalNodeStatus, Durable!NodeStatus, NodeStatus

\* A run that ends takes the row from an unfinished status to a final one.
LEMMA EndRunImplementsEnd ==
    ASSUME TypeOK, Agreement, pc # "idle",
           NEW target \in TerminalExecutionStatus,
           target = "succeeded" => db.status = "running",
           NEW nodes \in [Node -> NodeStatus],
           \A n \in Node : db.node[n] \in TerminalNodeStatus => nodes[n] = db.node[n],
           EndRun(target, nodes)
    PROVE  Durable!End
<1>1. db'.status = target /\ db'.node = nodes
  BY DEF EndRun
<1>2. db.status \notin TerminalExecutionStatus
  BY DEF Agreement, RowIsInMemory
<1> QED
  BY <1>1, <1>2, SameStatuses DEF Durable!End, Durable!Progress

\* Every step of the executor is a step of DurableExecution or a stutter.
LEMMA DurableStep ==
    TypeOK /\ Agreement /\ [Next]_vars => [Durable!Next]_<<db.status, db.node>>
<1> SUFFICES ASSUME TypeOK, Agreement, [Next]_vars
             PROVE  Durable!Next \/ UNCHANGED <<db.status, db.node>>
  BY DEF Durable!Next
<1>w. wf.nodes \subseteq Node
  BY WorkflowNodes DEF TypeOK
<1>r. \A n \in Node : db.node[n] \in TerminalNodeStatus => node[n] = db.node[n]
  BY DEF Agreement, RowIsInMemory
<1>t. TypeOK'
  BY TypeStep
<1>p. db'.node \in [Node -> NodeStatus]
  BY <1>t DEF TypeOK, Snapshot
<1>c. ASSUME pc # "idle", HandleCancellation PROVE Durable!End
  <2>1. CancelRunning \in [Node -> NodeStatus]
    BY CancelRunningType
  <2>2. \A n \in Node : db.node[n] \in TerminalNodeStatus => CancelRunning[n] = db.node[n]
    BY <1>r DEF CancelRunning, TerminalNodeStatus
  <2>3. "cancelled" \in TerminalExecutionStatus /\ "cancelled" # "succeeded"
    BY DEF TerminalExecutionStatus
  <2> QED
    BY <1>c, <2>1, <2>2, <2>3, EndRunImplementsEnd DEF HandleCancellation
<1>b. ASSUME pc # "idle", HandleBudgetExhaustion PROVE Durable!End
  <2>1. node \in [Node -> NodeStatus]
    BY DEF TypeOK
  <2>2. "budget_exceeded" \in TerminalExecutionStatus /\ "budget_exceeded" # "succeeded"
    BY DEF TerminalExecutionStatus
  <2> QED
    BY <1>b, <1>r, <2>1, <2>2, EndRunImplementsEnd DEF HandleBudgetExhaustion
<1>s. ASSUME db.status \notin TerminalExecutionStatus, Save, status' = "running",
             \A n \in Node : db.node[n] \in TerminalNodeStatus => node'[n] = node[n]
      PROVE  Durable!Work
  <2>1. db'.status = "running" /\ db'.node = node'
    BY <1>s DEF Save
  <2> QED
    BY <1>s, <1>r, <1>p, <2>1, SameStatuses DEF Durable!Work, Durable!Progress
<1>1. CASE Start
  <2>1. db.status \notin TerminalExecutionStatus
    BY <1>1 DEF Start, TerminalExecutionStatus
  <2> QED
    BY <1>1, <1>s, <2>1 DEF Start, EnterLoop, Durable!Next
<1>3. CASE Launch
  BY <1>3, <1>s DEF Launch, memory, Agreement, RowIsInMemory, StatusFollowsRun, Durable!Next
<1>4. CASE StopInLoop
  BY <1>4, <1>c, <1>b DEF StopInLoop, Durable!Next
<1>5. CASE LeaveLoop
  BY <1>5, <1>s DEF LeaveLoop, BeginFinish, Agreement, RowIsInMemory, StatusFollowsRun, Durable!Next
<1>6. CASE Gather
  BY <1>6, <1>c, <1>b DEF Gather, Durable!Next
<1>7. CASE EndApply
  <2> DEFINE skipped == SkipUnreachable(wf, node, holds)
  <2>1. \A n \in Node : skipped[n] = node[n] \/ node[n] = "pending"
    BY SkipsArePending DEF TypeOK
  <2>2. CASE /\ status # "waiting_for_approval" /\ node' = skipped /\ BeginFinish
    <3>1. \A n \in Node : db.node[n] \in TerminalNodeStatus => node'[n] = node[n]
      BY <1>r, <2>1, <2>2 DEF TerminalNodeStatus
    <3>2. /\ db.status \notin TerminalExecutionStatus /\ status' = "running" /\ Save
      BY <1>7, <2>2
      DEF EndApply, BeginFinish, Agreement, RowIsInMemory, StatusFollowsRun
    <3> QED
      BY <1>s, <3>1, <3>2 DEF Durable!Next
  <2>3. CASE db' = db
    BY <2>3
  <2> HIDE DEF skipped
  <2> QED
    BY <1>7, <2>2, <2>3 DEF EndApply, skipped
<1>8. CASE Finish
  <2> DEFINE verdict == IF BlockingFailures(node) # {} THEN "failed" ELSE "succeeded"
  <2>1. verdict \in TerminalExecutionStatus
    BY DEF TerminalExecutionStatus
  <2>2. EndRun(verdict, node) /\ pc = "finish"
    BY <1>8 DEF Finish
  <2>3. db.status = "running"
    BY <2>2 DEF Agreement, StatusFollowsRun
  <2>4. node \in [Node -> NodeStatus]
    BY DEF TypeOK
  <2> HIDE DEF verdict
  <2> QED
    BY <1>r, <2>1, <2>2, <2>3, <2>4, EndRunImplementsEnd DEF Durable!Next
<1>9. ASSUME NEW n \in wf.nodes, TaskStep(n) PROVE UNCHANGED db
  BY <1>9
  DEF TaskStep, TaskFrame, TaskStart, BudgetCheck, WorkSucceeds, WorkFails,
      WorkNeedsApproval, TaskRetry, ConsultGate, GateFails, RunJoin, PassThrough
<1>o. ASSUME NEW n \in wf.nodes, pc = "apply", task[n] # "none"
      PROVE  /\ n \in Node
             /\ node[n] = "running" /\ db.node[n] \notin TerminalNodeStatus
             /\ status = db.status /\ status \in {"running", "waiting_for_approval"}
             /\ db.status \notin TerminalExecutionStatus
  <2>1. n \in Node
    BY <1>w
  <2>2. task[n] \in OutcomeTask
    BY <1>o, <2>1 DEF Agreement, TasksAreOpen
  <2> QED
    BY <1>o, <2>1, <2>2 DEF Agreement, TasksAreOpen, StatusFollowsRun, RowIsInMemory
<1>10. ASSUME NEW n \in wf.nodes, ApplyWaiting(n) PROVE Durable!Next
  <2>0. pc = "apply" /\ task[n] # "none"
    BY <1>10 DEF ApplyWaiting
  <2>1. CASE FailRun(n)
    <3>1. [node EXCEPT ![n] = "waiting_for_approval"] \in [Node -> NodeStatus]
      BY DEF TypeOK, NodeStatus
    <3>2. \A m \in Node : db.node[m] \in TerminalNodeStatus =>
             [node EXCEPT ![n] = "waiting_for_approval"][m] = db.node[m]
      BY <1>r, <1>o, <2>0 DEF TypeOK
    <3>3. "failed" \in TerminalExecutionStatus /\ "failed" # "succeeded"
      BY DEF TerminalExecutionStatus
    <3> QED
      BY <2>0, <2>1, <3>1, <3>2, <3>3, EndRunImplementsEnd DEF FailRun, Durable!Next
  <2>2. CASE /\ node' = [node EXCEPT ![n] = "waiting_for_approval"]
             /\ status' = "waiting_for_approval"
             /\ ApplyFrame(n)
    <3>1. db'.status = "waiting_for_approval" /\ db'.node = node'
      BY <2>2 DEF ApplyFrame, Save
    <3>2. node'[n] = "waiting_for_approval"
      BY <1>o, <2>0, <2>2 DEF TypeOK
    <3>3. \A m \in Node : db.node[m] \in TerminalNodeStatus => db'.node[m] = db.node[m]
      BY <1>r, <1>o, <2>0, <2>2, <3>1 DEF TypeOK
    <3> QED
      BY <1>o, <1>p, <2>0, <3>1, <3>2, <3>3, SameStatuses
      DEF Durable!Pause, Durable!Progress, Durable!Next
  <2> QED
    BY <1>10, <2>1, <2>2 DEF ApplyWaiting
<1>11. ASSUME NEW n \in wf.nodes, ApplyResult(n) PROVE Durable!Next
  <2>0. /\ pc = "apply" /\ task[n] # "none" /\ status' = status
        /\ node' = [node EXCEPT ![n] = task[n]]
    BY <1>11 DEF ApplyResult
  <2>1. db'.status = status /\ db'.node = node'
    BY <1>11, <2>0 DEF ApplyResult, ApplyFrame, Save
  <2>2. \A m \in Node : db.node[m] \in TerminalNodeStatus => db'.node[m] = db.node[m]
    BY <1>r, <1>o, <2>0, <2>1 DEF TypeOK
  <2>3. CASE status = "running"
    BY <1>o, <1>p, <2>0, <2>1, <2>2, <2>3, SameStatuses
    DEF Durable!Work, Durable!Progress, Durable!Next
  <2>4. CASE status = "waiting_for_approval"
    <3>1. PICK m \in wf.nodes : node[m] = "waiting_for_approval" /\ task[m] = "none"
      BY <2>0, <2>4 DEF Agreement, StatusFollowsRun
    <3>2. m \in Node /\ db'.node[m] = "waiting_for_approval"
      BY <1>w, <2>0, <2>1, <3>1 DEF TypeOK
    <3> QED
      BY <1>o, <1>p, <2>0, <2>1, <2>2, <2>4, <3>2, SameStatuses
      DEF Durable!Pause, Durable!Progress, Durable!Next
  <2> QED
    BY <1>o, <2>0, <2>3, <2>4
<1>12. CASE Resume \/ Cancel \/ Crash \/ \E n \in wf.nodes : Decide(n)
  BY <1>12 DEF Resume, Cancel, Crash, Decide
<1>13. CASE UNCHANGED vars
  BY <1>13 DEF vars
<1> QED
  BY <1>1, <1>3, <1>4, <1>5, <1>6, <1>7, <1>8, <1>9, <1>10, <1>11, <1>12, <1>13
  DEF Next, RunStep

\* The executor, whatever it runs and however often it crashes, keeps through
\* its state row what DurableExecution promises.
THEOREM Refinement == Spec => ImplementsDurableExecution
<1>1. Init => Durable!Init
  BY DEF Init, Durable!Init
<1> QED
  BY <1>1, TypeCorrect, AlwaysAgrees, DurableStep, PTL
  DEF Spec, ImplementsDurableExecution, Durable!Spec
------------------------------------------------------------------------------
(* What a dispatch presupposes.                                             *)

\* Only an attempt that begins counts a dispatch: its node has a task, and the
\* token is not set.
LEMMA DispatchStep ==
    ASSUME TypeOK, [Next]_vars
    PROVE  \/ calls' = calls
           \/ /\ ~cancelled
              /\ \E n \in wf.nodes : /\ task[n] # "none"
                                     /\ UNCHANGED <<wf, db>>
                                     /\ calls' = [calls EXCEPT ![n] = @ + 1]
<1>1. ASSUME NEW n \in wf.nodes, TaskStep(n)
      PROVE  \/ calls' = calls
             \/ /\ ~cancelled /\ task[n] # "none" /\ UNCHANGED <<wf, db>>
                /\ calls' = [calls EXCEPT ![n] = @ + 1]
  BY <1>1
  DEF TaskStep, TaskFrame, TaskStart, BudgetCheck, WorkSucceeds, WorkFails,
      WorkNeedsApproval, TaskRetry, ConsultGate, GateFails, RunJoin, PassThrough,
      BeginAttempt, MarkRunning
<1>2. CASE Launch \/ StopInLoop \/ LeaveLoop \/ Gather \/ EndApply \/ Finish
           \/ Start \/ Resume \/ Cancel \/ Crash
  BY <1>2 DEF Launch, StopInLoop, LeaveLoop, Gather, EndApply, Finish, Start,
              Resume, Cancel, Crash
<1>3. CASE \E n \in wf.nodes : ApplyWaiting(n) \/ ApplyResult(n) \/ Decide(n)
  BY <1>3 DEF ApplyWaiting, ApplyResult, Decide
<1>4. CASE UNCHANGED vars
  BY <1>4 DEF vars
<1> QED
  BY <1>1, <1>2, <1>3, <1>4 DEF Next, RunStep

\* No run, resumed or not, dispatches a node whose result is durable.
THEOREM NothingIsRepeated == Spec => SettledIsNotRepeated
<1>1. TypeOK /\ Agreement /\ [Next]_vars =>
        [\A n \in Node : db.node[n] \in TerminalNodeStatus => calls'[n] = calls[n]]_vars
  <2> SUFFICES ASSUME TypeOK, Agreement, [Next]_vars,
                      NEW n \in Node, db.node[n] \in TerminalNodeStatus
               PROVE  calls'[n] = calls[n]
    OBVIOUS
  <2>1. task[n] = "none"
    BY DEF Agreement, TasksAreOpen
  <2>2. \A m \in wf.nodes : task[m] # "none" => m # n
    BY <2>1
  <2> QED
    BY <2>2, DispatchStep DEF TypeOK
<1> QED
  BY <1>1, TypeCorrect, AlwaysAgrees, PTL DEF Spec, SettledIsNotRepeated

\* Once cancelled, a run begins no attempt.
THEOREM CancelIsRespected == Spec => CancelStopsDispatch
<1>1. TypeOK /\ [Next]_vars => [cancelled => calls' = calls]_vars
  BY DispatchStep
<1> QED
  BY <1>1, TypeCorrect, PTL DEF Spec, CancelStopsDispatch

\* A ready node that is not a join has all its unconditional sources complete.
LEMMA ReadyHasInputs ==
    ASSUME NEW w, NEW st, NEW h, NEW n \in ReadyNodes(w, st, h),
           w.kind[n] # "join", NEW e \in Inbound(w, n), ~e.cond
    PROVE  st[e.src] \in CompleteNodeStatus
<1> DEFINE active == ActiveEdges(w, st, h)
<1>1. DependenciesSatisfied(w, n, st, active)
  BY DEF ReadyNodes
<1>2. e \in RelevantEdges(w, n, active)
  BY DEF RelevantEdges
<1> HIDE DEF active
<1> QED
  BY <1>1, <1>2 DEF DependenciesSatisfied

\* What the row has completed it keeps.
LEMMA CompletionIsKept ==
    ASSUME TypeOK, Agreement, [Next]_vars,
           NEW n \in Node, db.node[n] \in CompleteNodeStatus
    PROVE  db'.node[n] \in CompleteNodeStatus
<1>1. CompleteNodeStatus \subseteq TerminalNodeStatus
  BY DEF CompleteNodeStatus, TerminalNodeStatus
<1>2. Durable!Progress \/ db'.node = db.node
  BY DurableStep DEF Durable!Next, Durable!Work, Durable!Pause, Durable!End
<1> QED
  BY <1>1, <1>2, SameStatuses DEF Durable!Progress

\* Tasks appear at Launch only, and disappear or stay otherwise.
LEMMA TasksComeFromLaunch ==
    ASSUME TypeOK, [Next]_vars, NEW n \in Node, task'[n] # "none"
    PROVE  task[n] # "none" \/ (Launch /\ n \in ReadyNodes(wf, node, holds))
<1>w. wf.nodes \subseteq Node
  BY WorkflowNodes DEF TypeOK
<1>u. ~Unload
  BY DEF Unload, NoTasks
<1>1. CASE Launch
  BY <1>1 DEF Launch
<1>2. CASE StopInLoop \/ Gather \/ EndApply \/ Finish \/ Crash
  BY <1>u, <1>2
  DEF StopInLoop, Gather, EndApply, Finish, Crash, HandleCancellation,
      HandleBudgetExhaustion, EndRun
<1>3. CASE LeaveLoop \/ Start \/ Resume \/ Cancel
  BY <1>3 DEF LeaveLoop, Start, Resume, Cancel, EnterLoop
<1>4. ASSUME NEW m \in wf.nodes, TaskStep(m) PROVE task[n] # "none"
  <2>1. task[m] # "none" /\ \E r \in TaskState : task' = [task EXCEPT ![m] = r]
    BY <1>4 DEF TaskStep, TaskStart, BudgetCheck, WorkSucceeds, WorkFails,
           WorkNeedsApproval, TaskRetry, ConsultGate, GateFails, RunJoin, PassThrough,
           BeginAttempt, MarkRunning, GateVerdict, Settle, TaskState, LiveTask,
           StopTask, OutcomeTask
  <2> QED
    BY <1>w, <2>1 DEF TypeOK
<1>5. ASSUME NEW m \in wf.nodes, ApplyWaiting(m) \/ ApplyResult(m) PROVE task[n] # "none"
  <2>1. task' = [task EXCEPT ![m] = "none"]
    BY <1>u, <1>5 DEF ApplyWaiting, ApplyResult, ApplyFrame, FailRun, EndRun
  <2> QED
    BY <1>w, <2>1 DEF TypeOK
<1>6. CASE (\E m \in wf.nodes : Decide(m)) \/ UNCHANGED vars
  BY <1>6 DEF Decide, vars, run
<1> QED
  BY <1>1, <1>2, <1>3, <1>4, <1>5, <1>6 DEF Next, RunStep

LEMMA WorkflowIsFixed == [Next]_vars => wf' = wf
  BY DEF Next, RunStep, Launch, StopInLoop, LeaveLoop, Gather, EndApply, Finish,
         Start, Resume, Cancel, Crash, Decide, ApplyWaiting, ApplyResult, TaskStep,
         TaskFrame, TaskStart, BudgetCheck, WorkSucceeds, WorkFails,
         WorkNeedsApproval, TaskRetry, ConsultGate, GateFails, RunJoin, PassThrough, vars

LEMMA InputsStep ==
    TypeOK /\ Agreement /\ TaskInputsAreDurable /\ [Next]_vars => TaskInputsAreDurable'
<1> SUFFICES ASSUME TypeOK, Agreement, TaskInputsAreDurable, [Next]_vars,
                    NEW n \in wf.nodes, task'[n] # "none" \/ calls'[n] > 0,
                    wf.kind[n] # "join", NEW e \in Inbound(wf, n), ~e.cond
             PROVE  db'.node[e.src] \in CompleteNodeStatus
  BY WorkflowIsFixed DEF TaskInputsAreDurable, InputsOf
<1>1. n \in Node /\ e.src \in Node
  BY WorkflowNodes DEF TypeOK, Inbound
<1>2. CASE task[n] # "none" \/ calls[n] > 0
  <2>1. db.node[e.src] \in CompleteNodeStatus
    BY <1>2 DEF TaskInputsAreDurable, InputsOf
  <2> QED
    BY <1>1, <2>1, CompletionIsKept
<1>3. CASE task[n] = "none" /\ ~(calls[n] > 0)
  <2>1. calls'[n] = calls[n]
    BY <1>1, <1>3, DispatchStep DEF TypeOK
  <2>2. Launch /\ n \in ReadyNodes(wf, node, holds)
    BY <1>1, <1>3, <2>1, TasksComeFromLaunch
  <2>3. node[e.src] \in CompleteNodeStatus
    BY <2>2, ReadyHasInputs
  <2> QED
    BY <2>2, <2>3 DEF Launch, Save, memory
<1> QED
  BY <1>2, <1>3

\* The inputs of what has a task or has run are in the row.
LEMMA InputsAreKept == Spec => []TaskInputsAreDurable
<1>1. Init => TaskInputsAreDurable
  BY WorkflowNodes DEF Init, NoTasks, TaskInputsAreDurable
<1> QED
  BY <1>1, InputsStep, TypeCorrect, AlwaysAgrees, PTL DEF Spec

\* Whatever was dispatched had its unconditional inputs in the state row, and
\* they are still there.
THEOREM InputsAreAlwaysDurable == Spec => []InputsAreDurable
<1>1. TaskInputsAreDurable => InputsAreDurable
  BY DEF TaskInputsAreDurable, InputsOf, InputsAreDurable
<1> QED
  BY <1>1, InputsAreKept, PTL
------------------------------------------------------------------------------
(* Pauses have requests.                                                    *)

\* A request, once there, stays.
LEMMA RequestsAreKept ==
    ASSUME TypeOK, [Next]_vars, NEW n \in Node, approval[n] # "absent"
    PROVE  approval'[n] # "absent"
<1>1. ASSUME NEW m \in wf.nodes, TaskStep(m) \/ Decide(m) PROVE approval'[n] # "absent"
  <2>1. approval' = approval \/ \E d \in {"pending", "granted", "rejected"} :
                                    approval' = [approval EXCEPT ![m] = d]
    BY <1>1 DEF TaskStep, TaskStart, BudgetCheck, WorkSucceeds, WorkFails,
                WorkNeedsApproval, TaskRetry, ConsultGate, GateFails, RunJoin, PassThrough,
                Request, Decide
  <2> QED
    BY <2>1 DEF TypeOK
<1>2. CASE \E m \in wf.nodes : ApplyWaiting(m) \/ ApplyResult(m)
  BY <1>2 DEF ApplyWaiting, ApplyResult
<1>3. CASE Launch \/ StopInLoop \/ LeaveLoop \/ Gather \/ EndApply \/ Finish
           \/ Start \/ Resume \/ Cancel \/ Crash \/ UNCHANGED vars
  BY <1>3 DEF Launch, StopInLoop, LeaveLoop, Gather, EndApply, Finish, Start,
              Resume, Cancel, Crash, vars
<1> QED
  BY <1>1, <1>2, <1>3 DEF Next, RunStep

\* A node comes to wait, in memory or in the row, only if it has a request.
LEMMA WaitersStep ==
    ASSUME TypeOK, Agreement, WaitersHaveRequests, [Next]_vars, NEW n \in Node,
           \/ node'[n] = "waiting_for_approval"
           \/ db'.node[n] = "waiting_for_approval"
           \/ task'[n] = "waiting"
    PROVE  approval'[n] # "absent"
<1>w. wf.nodes \subseteq Node
  BY WorkflowNodes DEF TypeOK
<1>old. ASSUME \/ node[n] = "waiting_for_approval"
               \/ db.node[n] = "waiting_for_approval"
               \/ task[n] = "waiting"
        PROVE  approval'[n] # "absent"
  BY <1>old, RequestsAreKept DEF WaitersHaveRequests
<1>un. ASSUME Unload, \/ db' = db
                      \/ db'.node[n] = "waiting_for_approval" =>
                            node[n] = "waiting_for_approval" \/ task[n] = "waiting"
       PROVE  approval'[n] # "absent"
  BY <1>un, <1>old DEF Unload, NoTasks
<1>save. ASSUME Save, node'[n] = "waiting_for_approval" =>
                          node[n] = "waiting_for_approval" \/ task[n] = "waiting",
                task'[n] = "waiting" => task[n] = "waiting"
         PROVE  approval'[n] # "absent"
  BY <1>save, <1>old DEF Save
<1>1. CASE Start \/ Resume
  BY <1>1, <1>save, <1>old DEF Start, Resume, EnterLoop
<1>2. CASE Launch
  BY <1>2, <1>save DEF Launch, memory
<1>3. CASE HandleCancellation \/ HandleBudgetExhaustion \/ Finish
  BY <1>3, <1>un DEF HandleCancellation, HandleBudgetExhaustion, Finish, EndRun, CancelRunning
<1>4. CASE LeaveLoop
  BY <1>4, <1>save DEF LeaveLoop, BeginFinish
<1>5. CASE Gather /\ UNCHANGED <<memory, task, db>>
  BY <1>5, <1>old DEF memory
<1>6. CASE EndApply
  <2> DEFINE skipped == SkipUnreachable(wf, node, holds)
  <2>1. skipped[n] = node[n] \/ skipped[n] = "skipped"
    BY SkipsArePending DEF TypeOK
  <2>2. CASE Unload /\ UNCHANGED db
    BY <1>un, <2>2
  <2>3. CASE node' = skipped /\ UNCHANGED task /\ BeginFinish
    BY <1>save, <2>1, <2>3 DEF BeginFinish
  <2>4. CASE node' = skipped /\ UNCHANGED <<task, db>>
    BY <1>old, <2>1, <2>4
  <2> HIDE DEF skipped
  <2> QED
    BY <1>6, <2>2, <2>3, <2>4 DEF EndApply, skipped
<1>7. ASSUME NEW m \in wf.nodes, TaskStep(m) PROVE approval'[n] # "absent"
  <2>1. db' = db /\ (node'[n] = "waiting_for_approval" => node[n] = "waiting_for_approval")
    BY <1>7, <1>w
    DEF TaskStep, TaskStart, BudgetCheck, WorkSucceeds, WorkFails, WorkNeedsApproval,
        TaskRetry, ConsultGate, GateFails, RunJoin, PassThrough, BeginAttempt, MarkRunning,
        TaskFrame, TypeOK
  <2>2. ASSUME task'[n] = "waiting", task[n] # "waiting"
        PROVE  approval'[n] # "absent"
    <3>1. CASE WorkNeedsApproval(m) \/ (ConsultGate(m) /\ GateVerdict(m) = "waiting")
      <4>1. m = n
        BY <1>7, <1>w, <2>2, <3>1 DEF WorkNeedsApproval, ConsultGate, Settle, TypeOK
      <4> QED
        BY <3>1, <4>1 DEF WorkNeedsApproval, ConsultGate, Request, TypeOK
    <3>2. CASE ~WorkNeedsApproval(m) /\ ~(ConsultGate(m) /\ GateVerdict(m) = "waiting")
      <4>1. \E r \in TaskState \ {"waiting"} : task' = [task EXCEPT ![m] = r]
        BY <1>7, <3>2
        DEF TaskStep, TaskStart, BudgetCheck, WorkSucceeds, WorkFails,
            TaskRetry, ConsultGate, GateFails, RunJoin, PassThrough, BeginAttempt,
            MarkRunning, GateVerdict, Settle, TaskState, LiveTask, StopTask,
            OutcomeTask
      <4> QED
        BY <1>w, <2>2, <4>1 DEF TypeOK
    <3> QED
      BY <3>1, <3>2
  <2> QED
    BY <1>old, <2>1, <2>2
<1>8. ASSUME NEW m \in wf.nodes, ApplyWaiting(m) PROVE approval'[n] # "absent"
  <2>1. m \in Node /\ task[m] = "waiting"
    BY <1>8, <1>w DEF ApplyWaiting
  <2>2. CASE FailRun(m)
    <3>1. [node EXCEPT ![m] = "waiting_for_approval"][n] = "waiting_for_approval" =>
             node[n] = "waiting_for_approval" \/ task[n] = "waiting"
      BY <2>1 DEF TypeOK
    <3> QED
      BY <1>un, <2>2, <3>1 DEF FailRun, EndRun
  <2>3. CASE node' = [node EXCEPT ![m] = "waiting_for_approval"] /\ ApplyFrame(m)
    BY <1>save, <2>1, <2>3 DEF ApplyFrame, TypeOK
  <2> QED
    BY <1>8, <2>2, <2>3 DEF ApplyWaiting
<1>9. ASSUME NEW m \in wf.nodes, ApplyResult(m) PROVE approval'[n] # "absent"
  BY <1>9, <1>w, <1>save DEF ApplyResult, ApplyFrame, TypeOK
<1>10. CASE Cancel \/ (\E m \in wf.nodes : Decide(m)) \/ UNCHANGED vars
  BY <1>10, <1>old DEF Cancel, Decide, vars, memory, run
<1>11. CASE Crash
  BY <1>11, <1>un DEF Crash
<1> QED
  BY <1>1, <1>2, <1>3, <1>4, <1>5, <1>6, <1>7, <1>8, <1>9, <1>10, <1>11
  DEF Next, RunStep, StopInLoop, Gather

\* Where the row says the execution waits, it shows a node that does.
LEMMA PauseStep ==
    ASSUME TypeOK, Agreement, WaitersHaveRequests, [Next]_vars,
           db'.status = "waiting_for_approval"
    PROVE  \E n \in wf.nodes : db'.node[n] = "waiting_for_approval"
<1>w. wf.nodes \subseteq Node
  BY WorkflowNodes DEF TypeOK
<1>1. CASE db' = db
  BY <1>1 DEF WaitersHaveRequests
<1>e. ~(\E target \in TerminalExecutionStatus : \E nodes : EndRun(target, nodes))
  BY DEF EndRun, TerminalExecutionStatus
<1>2. CASE Start
  BY <1>2 DEF Start, EnterLoop, Save
<1>3. CASE Launch \/ LeaveLoop
  BY <1>3 DEF Launch, LeaveLoop, BeginFinish, Save, memory, Agreement, StatusFollowsRun
<1>4. CASE HandleCancellation \/ HandleBudgetExhaustion \/ Finish
  <2>1. {"cancelled", "budget_exceeded", "failed", "succeeded"} \subseteq TerminalExecutionStatus
    BY DEF TerminalExecutionStatus
  <2> QED
    BY <1>4, <1>e, <2>1 DEF HandleCancellation, HandleBudgetExhaustion, Finish
<1>5. CASE EndApply
  BY <1>1, <1>5 DEF EndApply, BeginFinish, Save
<1>6. ASSUME NEW m \in wf.nodes, ApplyWaiting(m)
      PROVE  \E n \in wf.nodes : db'.node[n] = "waiting_for_approval"
  <2>1. ~FailRun(m)
    <3>1. "failed" \in TerminalExecutionStatus
      BY DEF TerminalExecutionStatus
    <3> QED
      BY <1>e, <3>1 DEF FailRun
  <2>2. db'.node = [node EXCEPT ![m] = "waiting_for_approval"]
    BY <1>6, <2>1 DEF ApplyWaiting, ApplyFrame, Save
  <2> QED
    BY <1>w, <2>2 DEF TypeOK
<1>7. ASSUME NEW m \in wf.nodes, ApplyResult(m)
      PROVE  \E n \in wf.nodes : db'.node[n] = "waiting_for_approval"
  <2>1. /\ pc = "apply" /\ task[m] # "none" /\ db'.status = status
        /\ db'.node = [node EXCEPT ![m] = task[m]]
    BY <1>7 DEF ApplyResult, ApplyFrame, Save
  <2>2. PICK k \in wf.nodes : node[k] = "waiting_for_approval" /\ task[k] = "none"
    BY <2>1 DEF Agreement, StatusFollowsRun
  <2> QED
    BY <1>w, <2>1, <2>2 DEF TypeOK
<1>8. CASE \E m \in wf.nodes : TaskStep(m)
  BY <1>1, <1>8
  DEF TaskStep, TaskFrame, TaskStart, BudgetCheck, WorkSucceeds, WorkFails,
      WorkNeedsApproval, TaskRetry, ConsultGate, GateFails, RunJoin, PassThrough
<1>9. CASE Resume \/ Cancel \/ Crash \/ (\E m \in wf.nodes : Decide(m)) \/ UNCHANGED vars
  BY <1>1, <1>9 DEF Resume, Cancel, Crash, Decide, vars
<1>10. CASE Gather
  BY <1>1, <1>4, <1>10 DEF Gather
<1>11. CASE StopInLoop
  BY <1>4, <1>11 DEF StopInLoop
<1> QED
  BY <1>2, <1>3, <1>4, <1>5, <1>6, <1>7, <1>8, <1>9, <1>10, <1>11 DEF Next, RunStep

\* What waits has its request.
LEMMA WaitersAreKept == Spec => []WaitersHaveRequests
<1>1. Init => WaitersHaveRequests
  BY DEF Init, NoTasks, WaitersHaveRequests
<1>2. TypeOK /\ Agreement /\ WaitersHaveRequests /\ [Next]_vars => WaitersHaveRequests'
  <2> SUFFICES ASSUME TypeOK, Agreement, WaitersHaveRequests, [Next]_vars
               PROVE  WaitersHaveRequests'
    OBVIOUS
  <2>1. wf' = wf
    BY WorkflowIsFixed
  <2> QED
    BY <2>1, WaitersStep, PauseStep DEF WaitersHaveRequests
<1> QED
  BY <1>1, <1>2, TypeCorrect, AlwaysAgrees, PTL DEF Spec

\* A paused execution always shows a human what to decide.
THEOREM PausesCanBeAnswered == Spec => []PauseHasRequest
<1>1. TypeOK /\ WaitersHaveRequests => PauseHasRequest
  BY WorkflowNodes DEF TypeOK, WaitersHaveRequests, PauseHasRequest
<1> QED
  BY <1>1, TypeCorrect, WaitersAreKept, PTL
------------------------------------------------------------------------------
(* Permits and agent steps.                                                 *)

LEMMA LiveIsFinite ==
    ASSUME TypeOK
    PROVE  /\ IsFiniteSet(Live) /\ IsFiniteSet(Working) /\ Working \subseteq Live
           /\ Cardinality(Live) \in Nat /\ Cardinality(Working) \in Nat
<1>1. IsFiniteSet(wf.nodes)
  BY WorkflowNodes, ConstantsAssumption, FS_Subset DEF TypeOK, ConstantsAssumption
<1>2. Live \subseteq wf.nodes /\ Working \subseteq Live
  BY DEF Live, Working, LiveTask
<1>3. IsFiniteSet(Live) /\ IsFiniteSet(Working)
  BY <1>1, <1>2, FS_Subset
<1> QED
  BY <1>2, <1>3, FS_CardinalityType

\* Adding nothing to a count.
LEMMA NothingAdded ==
    ASSUME NEW a \in Nat, NEW b, b = 0
    PROVE  a + b = a
OBVIOUS

\* A step that lets no task begin or work keeps the bounds.
LEMMA FewerTasks ==
    ASSUME TypeOK, TypeOK', PermitsAndStepsAreBounded, wf' = wf,
           \A n \in wf.nodes : task'[n] \notin LiveTask \/ task'[n] = task[n],
           used' = used \/ used' = db'.used,
           db'.used = used \/ db'.used = db.used,
           used' = used \/ \A n \in wf.nodes : task'[n] \notin LiveTask
    PROVE  PermitsAndStepsAreBounded'
<1>1. Live' \subseteq Live
  BY DEF Live
<1>2. Working' \subseteq Working
  BY DEF Working, LiveTask
<1>3. /\ Cardinality(Live') <= Cardinality(Live) /\ Cardinality(Live') \in Nat
      /\ Cardinality(Working') <= Cardinality(Working) /\ Cardinality(Working') \in Nat
      /\ Cardinality(Live) \in Nat /\ Cardinality(Working) \in Nat
  <2>1. IsFiniteSet(Live') /\ IsFiniteSet(Working')
    BY <1>1, <1>2, LiveIsFinite, FS_Subset
  <2> QED
    BY <1>1, <1>2, <2>1, LiveIsFinite, FS_Subset, FS_CardinalityType
<1>4. used \in Nat /\ used' \in Nat /\ db.used \in Nat /\ db'.used \in Nat
      /\ MaxAgentSteps \in Nat /\ MaxConcurrent \in Nat
  BY ConstantsAssumption DEF ConstantsAssumption, TypeOK, Snapshot
<1>5. used <= MaxAgentSteps + MaxConcurrent
  BY <1>3, <1>4 DEF PermitsAndStepsAreBounded
<1>6. db'.used <= MaxAgentSteps + MaxConcurrent
  BY <1>5 DEF PermitsAndStepsAreBounded
<1>7. CASE used' = used
  BY <1>3, <1>4, <1>6, <1>7 DEF PermitsAndStepsAreBounded
<1>8. CASE used' # used
  <2>1. Working' = {}
    BY <1>8 DEF Working, LiveTask
  <2>2. Cardinality(Working') = 0
    BY <2>1, FS_EmptySet
  <2>3. used' <= MaxAgentSteps + MaxConcurrent
    BY <1>6, <1>8
  <2>4. Cardinality(Live) <= MaxConcurrent
    BY DEF PermitsAndStepsAreBounded
  <2>5. used' + Cardinality(Working') = used'
    <3>1. used' \in Nat
      BY <1>4
    <3> QED
      BY <2>2, <3>1, NothingAdded
  <2>6. Cardinality(Live') <= MaxConcurrent
    BY <1>3, <1>4, <2>4
  <2> QED
    BY <1>6, <2>3, <2>5, <2>6 DEF PermitsAndStepsAreBounded
<1> QED
  BY <1>7, <1>8

\* The steps of a node task.
LEMMA TaskStepIsBounded ==
    ASSUME TypeOK, TypeOK', PermitsAndStepsAreBounded, NEW n \in wf.nodes, TaskStep(n)
    PROVE  PermitsAndStepsAreBounded'
<1>0. n \in Node /\ wf' = wf /\ db' = db
  BY WorkflowNodes
  DEF TypeOK, TaskStep, TaskFrame, TaskStart, BudgetCheck, WorkSucceeds, WorkFails,
      WorkNeedsApproval, TaskRetry, ConsultGate, GateFails, RunJoin, PassThrough
<1>n. used \in Nat /\ used' \in Nat /\ MaxAgentSteps \in Nat /\ MaxConcurrent \in Nat
  BY ConstantsAssumption DEF ConstantsAssumption, TypeOK
<1>f. /\ IsFiniteSet(Live) /\ IsFiniteSet(Working) /\ Working \subseteq Live
      /\ Cardinality(Live) \in Nat /\ Cardinality(Working) \in Nat
  BY LiveIsFinite
<1>s. ASSUME NEW r, Settle(n, r), r \notin LiveTask, used' = used
      PROVE  PermitsAndStepsAreBounded'
  <2>1. \A m \in wf.nodes : task'[m] \notin LiveTask \/ task'[m] = task[m]
    BY <1>s, <1>0 DEF Settle, TypeOK
  <2> QED
    BY <1>0, <1>s, <2>1, FewerTasks
<1>1. ASSUME Settle(n, "marked"), task[n] # "working", used' = used,
             task[n] \in LiveTask \/ PermitFree
      PROVE  PermitsAndStepsAreBounded'
  <2>1. Live' = Live \cup {n}
    BY <1>0, <1>1 DEF Settle, Live, LiveTask, TypeOK
  <2>2. Working' = Working
    BY <1>0, <1>1 DEF Settle, Working, TypeOK
  <2>3. Cardinality(Live \cup {n}) <= MaxConcurrent
    <3>1. CASE task[n] \in LiveTask
      <4>1. Live \cup {n} = Live
        BY <3>1 DEF Live
      <4> QED
        BY <4>1 DEF PermitsAndStepsAreBounded
    <3>2. CASE task[n] \notin LiveTask
      <4>1. n \notin Live /\ Cardinality(Live) < MaxConcurrent
        BY <1>1, <3>2 DEF Live, PermitFree
      <4>2. Cardinality(Live \cup {n}) = Cardinality(Live) + 1
        BY <1>f, <4>1, FS_AddElement
      <4> QED
        BY <1>f, <1>n, <4>1, <4>2
    <3> QED
      BY <3>1, <3>2
  <2> QED
    BY <1>0, <1>1, <2>1, <2>2, <2>3 DEF PermitsAndStepsAreBounded
<1>2. CASE TaskStart(n)
  BY <1>2, <1>1, <1>s DEF TaskStart, BeginAttempt, MarkRunning, LiveTask
<1>3. CASE TaskRetry(n)
  BY <1>3, <1>1, <1>s DEF TaskRetry, BeginAttempt, MarkRunning, LiveTask
<1>4. CASE BudgetCheck(n)
  <2>1. CASE OverBudget
    BY <1>4, <1>s, <2>1 DEF BudgetCheck, LiveTask
  <2>2. CASE ~OverBudget
    <3>1. Live' = Live
      BY <1>0, <1>4, <2>2 DEF BudgetCheck, Settle, Live, LiveTask, TypeOK
    <3>2. Working' \subseteq Live'
      BY DEF Working, Live, LiveTask
    <3>3. Cardinality(Working') <= Cardinality(Live) /\ Cardinality(Working') \in Nat
      BY <1>f, <3>1, <3>2, FS_Subset, FS_CardinalityType
    <3>4. used' = used /\ used <= MaxAgentSteps
      BY <1>4, <1>n, <2>2 DEF BudgetCheck, OverBudget
    <3> QED
      BY <1>0, <1>f, <1>n, <3>1, <3>3, <3>4 DEF PermitsAndStepsAreBounded
  <2> QED
    BY <2>1, <2>2
<1>5. ASSUME task[n] = "working", NEW r, Settle(n, r), r # "working",
             used' = used \/ used' = used + 1
      PROVE  PermitsAndStepsAreBounded'
  <2>1. Live' \subseteq Live
    BY <1>0, <1>5 DEF Settle, Live, LiveTask, TypeOK
  <2>2. Working' = Working \ {n} /\ n \in Working
    BY <1>0, <1>5 DEF Settle, Working, TypeOK
  <2>3. Cardinality(Live') <= Cardinality(Live) /\ Cardinality(Live') \in Nat
    BY <1>f, <2>1, FS_Subset, FS_CardinalityType
  <2>4. Cardinality(Working') = Cardinality(Working) - 1
    BY <1>f, <2>2, FS_RemoveElement
  <2> QED
    BY <1>0, <1>5, <1>f, <1>n, <2>3, <2>4 DEF PermitsAndStepsAreBounded
<1>6. CASE WorkSucceeds(n)
  BY <1>6, <1>5 DEF WorkSucceeds, Charge
<1>7. CASE WorkFails(n)
  <2>1. \E r \in {"backoff", "failed"} : Settle(n, r)
    BY <1>7 DEF WorkFails
  <2> QED
    BY <1>7, <1>5, <2>1 DEF WorkFails, Charge
<1>8. CASE WorkNeedsApproval(n)
  BY <1>8, <1>5 DEF WorkNeedsApproval
<1>9. CASE ConsultGate(n)
  <2>1. GateVerdict(n) \notin LiveTask
    BY DEF GateVerdict, LiveTask
  <2> QED
    BY <1>9, <1>s, <2>1 DEF ConsultGate
<1>g. CASE GateFails(n)
  <2>1. PICK r \in {"backoff", "failed"} : Settle(n, r)
    BY <1>g DEF GateFails
  <2>2. Live' \subseteq Live /\ Working' = Working
    BY <1>0, <1>g, <2>1 DEF GateFails, Settle, Live, LiveTask, Working, TypeOK
  <2>3. Cardinality(Live') <= Cardinality(Live) /\ Cardinality(Live') \in Nat
    BY <1>f, <2>2, FS_Subset, FS_CardinalityType
  <2> QED
    BY <1>0, <1>f, <1>g, <1>n, <2>2, <2>3 DEF GateFails, PermitsAndStepsAreBounded
<1>10. CASE RunJoin(n) \/ PassThrough(n)
  BY <1>10, <1>s DEF RunJoin, PassThrough, LiveTask
<1> QED
  BY <1>2, <1>3, <1>4, <1>6, <1>7, <1>8, <1>9, <1>g, <1>10 DEF TaskStep

LEMMA BoundsStep ==
    TypeOK /\ PermitsAndStepsAreBounded /\ [Next]_vars => PermitsAndStepsAreBounded'
<1> SUFFICES ASSUME TypeOK, PermitsAndStepsAreBounded, [Next]_vars
             PROVE  PermitsAndStepsAreBounded'
  OBVIOUS
<1>t. TypeOK' /\ wf' = wf
  BY TypeStep, WorkflowIsFixed
<1>w. wf.nodes \subseteq Node
  BY WorkflowNodes DEF TypeOK
<1>u. ASSUME Unload, db'.used = used \/ db'.used = db.used
      PROVE  PermitsAndStepsAreBounded'
  <2>1. used' = db'.used /\ \A n \in wf.nodes : task'[n] \notin LiveTask
    BY <1>u, <1>w DEF Unload, NoTasks, LiveTask
  <2> QED
    BY <1>t, <1>u, <2>1, FewerTasks
<1>s. ASSUME used' = used, db' = db \/ Save,
             \A n \in wf.nodes : task'[n] \notin LiveTask \/ task'[n] = task[n]
      PROVE  PermitsAndStepsAreBounded'
  BY <1>t, <1>s, FewerTasks DEF Save
<1>1. CASE Start \/ Resume
  BY <1>1, <1>s DEF Start, Resume, EnterLoop
<1>2. CASE Launch
  BY <1>2, <1>s, <1>w DEF Launch, memory, LiveTask
<1>3. CASE HandleCancellation \/ HandleBudgetExhaustion \/ Finish
  BY <1>3, <1>u DEF HandleCancellation, HandleBudgetExhaustion, Finish, EndRun
<1>4. CASE LeaveLoop
  BY <1>4, <1>s DEF LeaveLoop, BeginFinish
<1>5. CASE Gather /\ UNCHANGED <<memory, task, db>>
  BY <1>5, <1>s DEF memory
<1>6. CASE EndApply
  BY <1>6, <1>s, <1>u DEF EndApply, BeginFinish
<1>7. ASSUME NEW n \in wf.nodes, ApplyWaiting(n) \/ ApplyResult(n)
      PROVE  PermitsAndStepsAreBounded'
  <2>1. CASE FailRun(n)
    BY <1>u, <2>1 DEF FailRun, EndRun
  <2>2. CASE ApplyFrame(n)
    BY <1>s, <1>w, <2>2 DEF ApplyFrame, LiveTask, TypeOK
  <2> QED
    BY <1>7, <2>1, <2>2 DEF ApplyWaiting, ApplyResult
<1>8. CASE Cancel \/ (\E m \in wf.nodes : Decide(m)) \/ UNCHANGED vars
  BY <1>8, <1>s DEF Cancel, Decide, vars, memory, run
<1>9. CASE Crash
  BY <1>9, <1>u DEF Crash
<1>10. CASE \E n \in wf.nodes : TaskStep(n)
  BY <1>10, <1>t, TaskStepIsBounded
<1> QED
  BY <1>1, <1>2, <1>3, <1>4, <1>5, <1>6, <1>7, <1>8, <1>9, <1>10
  DEF Next, RunStep, StopInLoop, Gather

\* Concurrent agents overshoot the step limit by at most one step each.
THEOREM OvershootIsAlwaysBounded == Spec => []OvershootIsBounded
<1>1. Init => PermitsAndStepsAreBounded
  <2> SUFFICES ASSUME Init PROVE PermitsAndStepsAreBounded
    OBVIOUS
  <2>1. wf.nodes \subseteq Node
    BY WorkflowNodes DEF Init
  <2>2. Live = {} /\ Working = {}
    BY <2>1 DEF Init, NoTasks, Live, Working, LiveTask
  <2>3. Cardinality(Live) = 0 /\ Cardinality(Working) = 0
    BY <2>2, FS_EmptySet
  <2> QED
    BY <2>3, ConstantsAssumption
    DEF Init, ConstantsAssumption, PermitsAndStepsAreBounded
<1>2. TypeOK /\ PermitsAndStepsAreBounded => OvershootIsBounded
  BY LiveIsFinite, ConstantsAssumption
  DEF TypeOK, ConstantsAssumption, PermitsAndStepsAreBounded, OvershootIsBounded
<1> QED
  BY <1>1, <1>2, BoundsStep, TypeCorrect, PTL DEF Spec
------------------------------------------------------------------------------
(* Dispatches are accounted for.                                            *)

\* Whatever a step saves it saves from memory, and it is no longer new.
LEMMA SavesAreOfMemory ==
    ASSUME TypeOK, Agreement, [Next]_vars
    PROVE  \/ db' = db
           \/ /\ db'.node = node' /\ db'.attempts = attempts'
              /\ db'.status # "pending"
<1>e. ASSUME NEW target, NEW nodes, target # "pending", EndRun(target, nodes)
      PROVE  /\ db'.node = node' /\ db'.attempts = attempts' /\ db'.status # "pending"
  BY <1>e DEF EndRun, Unload
<1>1. CASE Start
  BY <1>1 DEF Start, EnterLoop, Save
<1>2. CASE Launch
  BY <1>2 DEF Launch, Save, memory, Agreement, StatusFollowsRun
<1>3. CASE StopInLoop
  BY <1>3, <1>e DEF StopInLoop, HandleCancellation, HandleBudgetExhaustion
<1>4. CASE LeaveLoop
  BY <1>4 DEF LeaveLoop, BeginFinish, Save, Agreement, StatusFollowsRun
<1>5. CASE Gather
  BY <1>5, <1>e DEF Gather, HandleCancellation, HandleBudgetExhaustion
<1>6. CASE EndApply
  <2>1. db' = db \/ BeginFinish
    BY <1>6 DEF EndApply
  <2> QED
    BY <1>6, <2>1 DEF EndApply, BeginFinish, Save, Agreement, StatusFollowsRun
<1>7. CASE Finish
  BY <1>7, <1>e DEF Finish
<1>8. ASSUME NEW n \in wf.nodes, TaskStep(n) PROVE db' = db
  BY <1>8 DEF TaskStep, TaskFrame, TaskStart, BudgetCheck, WorkSucceeds, WorkFails,
              WorkNeedsApproval, TaskRetry, ConsultGate, GateFails, RunJoin, PassThrough
<1>9. ASSUME NEW n \in wf.nodes, ApplyWaiting(n) \/ ApplyResult(n)
      PROVE  /\ db'.node = node' /\ db'.attempts = attempts' /\ db'.status # "pending"
  BY <1>9, <1>e DEF ApplyWaiting, ApplyResult, FailRun, ApplyFrame, Save, Agreement,
                    StatusFollowsRun
<1>10. CASE Resume \/ Cancel \/ Crash \/ (\E n \in wf.nodes : Decide(n)) \/ UNCHANGED vars
  BY <1>10 DEF Resume, Cancel, Crash, Decide, vars
<1> QED
  BY <1>1, <1>2, <1>3, <1>4, <1>5, <1>6, <1>7, <1>8, <1>9, <1>10 DEF Next, RunStep

\* A row that is still new belongs to a run that has launched nothing.
LEMMA FreshStep ==
    ASSUME TypeOK, Agreement, NewRowIsFresh, [Next]_vars
    PROVE  NewRowIsFresh'
<1> SUFFICES ASSUME db'.status = "pending"
             PROVE  /\ pc' \in {"idle", "loop"}
                    /\ \A n \in Node : node'[n] = "pending" /\ db'.node[n] = "pending"
  BY DEF NewRowIsFresh
<1>1. db' = db
  BY SavesAreOfMemory
<1>2. /\ pc \in {"idle", "loop"}
      /\ \A n \in Node : node[n] = "pending" /\ db.node[n] = "pending"
  BY <1>1 DEF NewRowIsFresh
<1>3. \/ Unload
      \/ pc' \in {pc, "loop"} /\ node' = node
  <2>1. CASE Start \/ Resume \/ Crash \/ Cancel \/ UNCHANGED vars
    BY <2>1 DEF Start, Resume, Crash, Cancel, EnterLoop, memory, run, vars
  <2>2. ASSUME NEW n \in wf.nodes, Decide(n) PROVE pc' = pc /\ node' = node
    BY <2>2 DEF Decide, memory, run
  <2>3. CASE StopInLoop
    BY <2>3 DEF StopInLoop, HandleCancellation, HandleBudgetExhaustion, EndRun
  <2>4. CASE Launch \/ LeaveLoop
    <3>1. db'.status = status
      BY <2>4 DEF Launch, LeaveLoop, BeginFinish, Save, memory
    <3>2. status = "running"
      BY <2>4 DEF Launch, LeaveLoop, Agreement, StatusFollowsRun
    <3> QED
      BY <3>1, <3>2
  <2>5. ASSUME NEW n \in wf.nodes, TaskStep(n) \/ ApplyWaiting(n) \/ ApplyResult(n)
        PROVE  FALSE
    BY <1>2, <2>5
    DEF TaskStep, TaskStart, BudgetCheck, WorkSucceeds, WorkFails, WorkNeedsApproval,
        TaskRetry, ConsultGate, GateFails, RunJoin, PassThrough, ApplyWaiting, ApplyResult
  <2>6. ~Gather /\ ~EndApply /\ ~Finish
    BY <1>2 DEF Gather, EndApply, Finish
  <2> QED
    BY <2>1, <2>2, <2>3, <2>4, <2>5, <2>6 DEF Next, RunStep
<1> QED
  BY <1>1, <1>2, <1>3 DEF Unload

\* What may start has run at most as often as the resumes so far allow.
LEMMA RunnableHasRoom ==
    ASSUME TypeOK, NEW n \in Node, NodeIsCounted(n),
           node[n] \in RunnableNodeStatus, status = "running", pc # "idle"
    PROVE  attempts[n] < MaxAttempts + resumes
  BY ConstantsAssumption
  DEF ConstantsAssumption, TypeOK, NodeIsCounted, RunnableNodeStatus

\* An unloaded execution is counted if its row is, whatever is lost with it.
LEMMA UnloadIsCounted ==
    ASSUME TypeOK, NEW n \in Node, Unload, resumes' = resumes,
           db' \in Snapshot,
           db'.node[n] = "pending" => db'.attempts[n] = 0,
           db'.attempts[n] <= MaxAttempts + resumes,
           calls'[n] <= db'.attempts[n] + MaxAttempts * crashes'
    PROVE  NodeIsCounted(n)'
<1>1. task'[n] = "none" /\ pc' = "idle"
  BY DEF Unload, NoTasks
<1>2. db'.attempts[n] \in Nat
  BY DEF Snapshot
<1>3. MaxAttempts \in Nat
  BY ConstantsAssumption DEF ConstantsAssumption
<1> QED
  BY <1>1, <1>2, <1>3 DEF Unload, NodeIsCounted

\* A run that ends saves its memory first and loses nothing.
LEMMA EndRunIsCounted ==
    ASSUME TypeOK, NEW n \in Node, NodeIsCounted(n),
           NEW target \in ExecutionStatus, NEW nodes \in [Node -> NodeStatus],
           EndRun(target, nodes), nodes[n] = "pending" => node[n] = "pending",
           UNCHANGED <<calls, crashes, resumes>>
    PROVE  NodeIsCounted(n)'
<1>1. /\ db'.attempts = attempts /\ db'.node = nodes /\ Unload
      /\ db' \in Snapshot
  BY DEF EndRun, TypeOK, Snapshot
<1>2. /\ db'.node[n] = "pending" => db'.attempts[n] = 0
      /\ db'.attempts[n] <= MaxAttempts + resumes
      /\ calls'[n] <= db'.attempts[n] + MaxAttempts * crashes'
  BY <1>1 DEF NodeIsCounted
<1> QED
  BY <1>1, <1>2, UnloadIsCounted

LEMMA CancelRunningPending ==
    ASSUME NEW n \in Node, CancelRunning[n] = "pending"
    PROVE  node[n] = "pending"
  BY DEF CancelRunning

LEMMA TaskStepIsCounted ==
    ASSUME TypeOK, Agreement, NEW n \in Node, NodeIsCounted(n),
           NEW m \in wf.nodes, TaskStep(m)
    PROVE  NodeIsCounted(n)'
<1>0. m \in Node
  BY WorkflowNodes DEF TypeOK
<1>1. /\ pc = "gather" /\ pc' = pc /\ status' = status
      /\ UNCHANGED <<db, crashes, resumes>>
  BY DEF TaskStep, TaskFrame, TaskStart, BudgetCheck, WorkSucceeds, WorkFails,
         WorkNeedsApproval, TaskRetry, ConsultGate, GateFails, RunJoin, PassThrough
<1>2. /\ MaxAttempts \in Nat \ {0} /\ resumes \in Nat /\ crashes \in Nat
      /\ attempts[n] \in Nat /\ db.attempts[n] \in Nat /\ calls[n] \in Nat
      /\ MaxAttempts * crashes \in Nat
  BY ConstantsAssumption DEF ConstantsAssumption, TypeOK, Snapshot
<1> DEFINE lost == MaxAttempts * crashes
<1>3. lost' = lost /\ lost \in Nat
  BY <1>1, <1>2
<1> HIDE DEF lost
<1>k. NodeIsCounted(n) <=>
        /\ node[n] = "pending" => attempts[n] = 0
        /\ db.node[n] = "pending" => db.attempts[n] = 0
        /\ attempts[n] <= MaxAttempts + resumes
        /\ db.attempts[n] <= MaxAttempts + resumes
        /\ node[n] = "waiting_for_approval" /\ status = "running" /\ pc # "idle" =>
              attempts[n] < MaxAttempts + resumes
        /\ task[n] = "queued" => attempts[n] < MaxAttempts + resumes
        /\ task[n] = "backoff" => attempts[n] < MaxAttempts
        /\ attempts[n] <= db.attempts[n] + MaxAttempts
        /\ \/ pc = "gather" /\ task[n] \in {"none", "queued"}
           \/ pc = "apply" /\ status = "waiting_for_approval"
           => attempts[n] = db.attempts[n]
        /\ calls[n] <= attempts[n] + lost
  BY DEF NodeIsCounted, lost
<1>4. CASE attempts' = attempts /\ calls' = calls /\ m # n
  <2>1. task'[n] = task[n]
    BY <1>0, <1>4 DEF TaskStep, Settle, TaskStart, BudgetCheck, WorkSucceeds, WorkFails,
         WorkNeedsApproval, TaskRetry, ConsultGate, GateFails, RunJoin, PassThrough, BeginAttempt,
         MarkRunning, TypeOK
  <2>2. node'[n] = node[n] \/ node'[n] = "cancelled"
    BY <1>0, <1>4 DEF TaskStep, TaskStart, BudgetCheck, WorkSucceeds, WorkFails,
         WorkNeedsApproval, TaskRetry, ConsultGate, GateFails, RunJoin, PassThrough, BeginAttempt,
         MarkRunning, TypeOK
  <2> QED
    BY <1>1, <1>2, <1>3, <1>4, <2>1, <2>2, <1>k DEF NodeIsCounted, lost
<1>5. CASE attempts' = attempts /\ calls' = calls /\ m = n
  <2>1. task'[n] \notin {"none", "queued"}
    BY <1>0, <1>5 DEF TaskStep, Settle, TaskStart, BudgetCheck, WorkSucceeds, WorkFails,
         WorkNeedsApproval, TaskRetry, ConsultGate, GateFails, RunJoin, PassThrough, BeginAttempt,
         MarkRunning, TypeOK, GateVerdict
  <2>2. task'[n] = "backoff" => attempts[n] < MaxAttempts
    BY <1>0, <1>5 DEF TaskStep, Settle, TaskStart, BudgetCheck, WorkSucceeds, WorkFails,
         WorkNeedsApproval, TaskRetry, ConsultGate, GateFails, RunJoin, PassThrough, BeginAttempt,
         MarkRunning, TypeOK, GateVerdict, ShouldRetry
  <2>3. node'[n] = node[n] \/ node'[n] = "cancelled" \/ MarkRunning(n)
    BY <1>0, <1>5 DEF TaskStep, TaskStart, BudgetCheck, WorkSucceeds, WorkFails,
         WorkNeedsApproval, TaskRetry, ConsultGate, GateFails, RunJoin, PassThrough, BeginAttempt
  <2>4. ~MarkRunning(n)
    BY <1>2, <1>5 DEF MarkRunning, TypeOK
  <2> QED
    BY <1>1, <1>2, <1>3, <1>5, <2>1, <2>2, <2>3, <2>4, <1>k DEF NodeIsCounted, lost
<1>6. CASE MarkRunning(m)
  <2>0. attempts' # attempts
    BY <1>0, <1>6 DEF MarkRunning, TypeOK
  <2>1. task[m] \in {"queued", "backoff"}
    BY <2>0 DEF TaskStep, TaskStart, BudgetCheck, WorkSucceeds, WorkFails,
         WorkNeedsApproval, TaskRetry, ConsultGate, GateFails, RunJoin, PassThrough
  <2>2. CASE m # n
    <3>1. /\ node'[n] = node[n] /\ attempts'[n] = attempts[n] /\ calls'[n] = calls[n]
          /\ task'[n] = task[n]
      BY <1>0, <1>6, <2>2 DEF MarkRunning, Settle, TypeOK
    <3> QED
      BY <1>1, <1>2, <1>3, <3>1, <1>k DEF NodeIsCounted, lost
  <2>3. CASE m = n
    <3>1. /\ node'[n] = "running" /\ attempts'[n] = attempts[n] + 1
          /\ calls'[n] = calls[n] + 1 /\ task'[n] = "marked"
      BY <1>0, <1>6, <2>3 DEF MarkRunning, Settle, TypeOK
    <3>2. /\ attempts'[n] <= MaxAttempts + resumes
          /\ attempts'[n] <= db.attempts[n] + MaxAttempts
      BY <1>1, <1>2, <2>1, <2>3, <3>1, <1>k
    <3> QED
      BY <1>1, <1>2, <1>3, <3>1, <3>2, <1>k DEF NodeIsCounted, lost
  <2> QED
    BY <2>2, <2>3
<1>7. (attempts' = attempts /\ calls' = calls) \/ MarkRunning(m)
  BY DEF TaskStep, TaskStart, BudgetCheck, WorkSucceeds, WorkFails,
         WorkNeedsApproval, TaskRetry, ConsultGate, GateFails, RunJoin, PassThrough, BeginAttempt
<1> QED
  BY <1>4, <1>5, <1>6, <1>7

LEMMA CountStep ==
    ASSUME TypeOK, Agreement, NewRowIsFresh, NEW n \in Node, NodeIsCounted(n),
           [Next]_vars
    PROVE  NodeIsCounted(n)'
<1>w. wf.nodes \subseteq Node
  BY WorkflowNodes DEF TypeOK
<1>0. /\ MaxAttempts \in Nat \ {0} /\ resumes \in Nat /\ crashes \in Nat
      /\ attempts[n] \in Nat /\ db.attempts[n] \in Nat /\ calls[n] \in Nat
      /\ MaxAttempts * crashes \in Nat
  BY ConstantsAssumption DEF ConstantsAssumption, TypeOK, Snapshot
<1> DEFINE lost == MaxAttempts * crashes
<1>l. lost \in Nat
  BY <1>0
<1> HIDE DEF lost
<1>k. /\ node[n] = "pending" => attempts[n] = 0
      /\ db.node[n] = "pending" => db.attempts[n] = 0
      /\ attempts[n] <= MaxAttempts + resumes
      /\ db.attempts[n] <= MaxAttempts + resumes
      /\ node[n] = "waiting_for_approval" /\ status = "running" /\ pc # "idle" =>
            attempts[n] < MaxAttempts + resumes
      /\ task[n] = "queued" => attempts[n] < MaxAttempts + resumes
      /\ task[n] = "backoff" => attempts[n] < MaxAttempts
      /\ attempts[n] <= db.attempts[n] + MaxAttempts
      /\ \/ pc = "gather" /\ task[n] \in {"none", "queued"}
         \/ pc = "apply" /\ status = "waiting_for_approval"
         => attempts[n] = db.attempts[n]
      /\ calls[n] <= attempts[n] + lost
  BY DEF NodeIsCounted, lost
<1>t. pc \in {"idle", "loop", "finish"} => task[n] = "none"
  BY DEF Agreement, TasksAreOpen
<1>1. CASE Start
  <2>1. node[n] = "pending" /\ node' = node /\ attempts' = attempts /\ task' = task
        /\ db'.node = node /\ db'.attempts = attempts /\ pc' = "loop"
        /\ UNCHANGED <<calls, crashes, resumes>> /\ task[n] = "none"
    BY <1>1, <1>t DEF Start, EnterLoop, Save, NewRowIsFresh
  <2> QED
    BY <1>0, <1>k, <1>l, <2>1 DEF NodeIsCounted, lost
<1>2. CASE Resume
  <2>1. /\ node' = node /\ attempts' = attempts /\ task' = task /\ db' = db
        /\ pc' = "loop" /\ resumes' = resumes + 1 /\ UNCHANGED <<calls, crashes>>
        /\ task[n] = "none"
    BY <1>2, <1>t DEF Resume, EnterLoop
  <2> QED
    BY <1>0, <1>k, <1>l, <2>1 DEF NodeIsCounted, lost
<1>3. CASE Launch
  <2>1. /\ node' = node /\ attempts' = attempts /\ db'.node = node /\ status' = status
        /\ db'.attempts = attempts /\ pc = "loop" /\ pc' = "gather"
        /\ UNCHANGED <<calls, crashes, resumes>>
    BY <1>3 DEF Launch, Save, memory
  <2>2. task'[n] \in {"none", "queued"}
    BY <1>3 DEF Launch
  <2>3. task'[n] = "queued" => attempts[n] < MaxAttempts + resumes
    <3> SUFFICES ASSUME task'[n] = "queued" PROVE attempts[n] < MaxAttempts + resumes
      OBVIOUS
    <3>1. n \in ReadyNodes(wf, node, holds)
      BY <1>3 DEF Launch
    <3>2. node[n] \in RunnableNodeStatus /\ status = "running"
      BY <1>3, <3>1 DEF ReadyNodes, Launch, Agreement, StatusFollowsRun
    <3> QED
      BY <2>1, <3>2, RunnableHasRoom
  <2> QED
    BY <1>0, <1>k, <1>l, <2>1, <2>2, <2>3 DEF NodeIsCounted, lost
<1>4. CASE LeaveLoop
  <2>1. /\ node' = node /\ attempts' = attempts /\ db'.node = node /\ status' = status
        /\ db'.attempts = attempts /\ pc = "loop" /\ pc' = "finish" /\ task' = task
        /\ UNCHANGED <<calls, crashes, resumes>> /\ task[n] = "none"
    BY <1>4, <1>t DEF LeaveLoop, BeginFinish, Save
  <2> QED
    BY <1>0, <1>k, <1>l, <2>1 DEF NodeIsCounted, lost
<1>e. ASSUME NEW target \in ExecutionStatus, NEW nodes \in [Node -> NodeStatus],
             EndRun(target, nodes), nodes[n] = "pending" => node[n] = "pending",
             UNCHANGED <<calls, crashes, resumes>>
      PROVE  NodeIsCounted(n)'
  BY <1>e, EndRunIsCounted
<1>s. /\ {"cancelled", "budget_exceeded", "failed", "succeeded"} \subseteq ExecutionStatus
      /\ node \in [Node -> NodeStatus]
  BY DEF ExecutionStatus, TypeOK
<1>5. CASE HandleCancellation /\ UNCHANGED <<calls, crashes, resumes>>
  BY <1>5, <1>e, <1>s, CancelRunningType, CancelRunningPending DEF HandleCancellation
<1>6. CASE HandleBudgetExhaustion /\ UNCHANGED <<calls, crashes, resumes>>
  BY <1>6, <1>e, <1>s DEF HandleBudgetExhaustion
<1>7. CASE StopInLoop
  BY <1>5, <1>6, <1>7 DEF StopInLoop
<1>8. CASE Gather
  <2>1. CASE pc' = "apply" /\ UNCHANGED <<memory, steps, task, cancelled, db>>
             /\ UNCHANGED <<calls, crashes, resumes>>
    <3>1. status = "running" /\ status' = status /\ pc = "gather"
      BY <1>8, <2>1 DEF Gather, memory, Agreement, StatusFollowsRun
    <3> QED
      BY <2>1, <3>1 DEF memory, NodeIsCounted
  <2> QED
    BY <1>5, <1>6, <1>8, <2>1 DEF Gather
<1>9. CASE Finish
  BY <1>e, <1>9, <1>s DEF Finish
<1>10. CASE EndApply
  <2> DEFINE skipped == SkipUnreachable(wf, node, holds)
  <2>1. /\ skipped \in [Node -> NodeStatus]
        /\ skipped[n] = node[n] \/ skipped[n] = "skipped"
    BY SkipsArePending DEF TypeOK
  <2> HIDE DEF skipped
  <2>2. pc = "apply" /\ UNCHANGED <<calls, crashes, resumes>>
    BY <1>10 DEF EndApply
  <2>3. task[n] = "none"
    BY <1>10 DEF EndApply, ReadySet, Agreement, TasksAreOpen
  <2>4. CASE UNCHANGED db /\ Unload /\ status = "waiting_for_approval"
    <3>1. calls[n] <= db.attempts[n] + MaxAttempts * crashes
      BY <1>k, <2>2, <2>4 DEF lost
    <3> QED
      BY <1>k, <2>2, <2>4, <3>1, UnloadIsCounted DEF TypeOK
  <2>5. CASE node' = skipped /\ UNCHANGED task /\ BeginFinish
    <3>1. /\ attempts' = attempts /\ db'.node = node' /\ db'.attempts = attempts
          /\ pc' = "finish" /\ status' = status
      BY <2>5 DEF BeginFinish, Save
    <3> QED
      BY <1>0, <1>k, <1>l, <2>1, <2>2, <2>3, <2>5, <3>1 DEF NodeIsCounted, lost
  <2>6. CASE /\ node' = skipped /\ pc' = "loop"
             /\ UNCHANGED <<status, attempts, used, steps, task, cancelled, db>>
    BY <1>0, <1>k, <1>l, <2>1, <2>2, <2>3, <2>6 DEF NodeIsCounted, lost
  <2> QED
    BY <1>10, <2>4, <2>5, <2>6 DEF EndApply, skipped
<1>11. CASE Crash
  <2>1. /\ UNCHANGED db /\ Unload /\ UNCHANGED <<calls, resumes>>
        /\ crashes' = crashes + 1
    BY <1>11 DEF Crash
  <2>2. MaxAttempts * crashes' = lost + MaxAttempts
    BY <1>0, <2>1 DEF lost
  <2>3. calls[n] <= db.attempts[n] + MaxAttempts * crashes'
    BY <1>0, <1>k, <1>l, <2>2
  <2> QED
    BY <1>k, <2>1, <2>3, UnloadIsCounted DEF TypeOK
<1>12. ASSUME NEW m \in wf.nodes, ApplyWaiting(m) PROVE NodeIsCounted(n)'
  <2>0. m \in Node /\ task[m] = "waiting" /\ UNCHANGED <<calls, crashes, resumes>>
        /\ pc = "apply"
    BY <1>w, <1>12 DEF ApplyWaiting
  <2>1. CASE FailRun(m)
    <3>1. [node EXCEPT ![m] = "waiting_for_approval"] \in [Node -> NodeStatus]
      BY <2>0 DEF TypeOK, NodeStatus
    <3>2. [node EXCEPT ![m] = "waiting_for_approval"][n] = "pending" => node[n] = "pending"
      BY <2>0 DEF TypeOK
    <3> QED
      BY <1>e, <1>s, <2>0, <2>1, <3>1, <3>2 DEF FailRun
  <2>2. CASE /\ node' = [node EXCEPT ![m] = "waiting_for_approval"]
             /\ status' = "waiting_for_approval"
             /\ ApplyFrame(m)
    <3>1. /\ node'[n] = node[n] \/ node'[n] = "waiting_for_approval"
          /\ db'.node = node' /\ attempts' = attempts /\ db'.attempts = attempts
          /\ pc' = "apply" /\ task'[n] \in {task[n], "none"}
      BY <2>0, <2>2 DEF ApplyFrame, Save, TypeOK
    <3> QED
      BY <1>0, <1>k, <1>l, <2>0, <2>2, <3>1 DEF NodeIsCounted, lost
  <2> QED
    BY <1>12, <2>1, <2>2 DEF ApplyWaiting
<1>13. ASSUME NEW m \in wf.nodes, ApplyResult(m) PROVE NodeIsCounted(n)'
  <2>0. m \in Node /\ task[m] \in {"succeeded", "failed"} /\ status' = status
        /\ pc = "apply" /\ UNCHANGED <<calls, crashes, resumes>>
    BY <1>w, <1>13 DEF ApplyResult
  <2>1. /\ node'[n] = node[n] \/ node'[n] \in {"succeeded", "failed"}
        /\ db'.node = node' /\ attempts' = attempts /\ db'.attempts = attempts
        /\ pc' = "apply" /\ task'[n] \in {task[n], "none"}
    BY <1>13, <2>0 DEF ApplyResult, ApplyFrame, Save, TypeOK
  <2> QED
    BY <1>0, <1>k, <1>l, <2>0, <2>1 DEF NodeIsCounted, lost
<1>14. ASSUME NEW m \in wf.nodes, TaskStep(m) PROVE NodeIsCounted(n)'
  BY <1>14, TaskStepIsCounted
<1>15. CASE Cancel \/ (\E m \in wf.nodes : Decide(m)) \/ UNCHANGED vars
  <2>1. UNCHANGED <<node, attempts, status, pc, task, db, calls, crashes, resumes>>
    BY <1>15 DEF Cancel, Decide, vars, memory, run
  <2> QED
    BY <2>1 DEF NodeIsCounted
<1> QED
  BY <1>1, <1>2, <1>3, <1>4, <1>7, <1>8, <1>9, <1>10, <1>11, <1>12, <1>13, <1>14, <1>15
  DEF Next, RunStep

\* Attempts are accounted for, in memory and in the row.
LEMMA DispatchesAreCounted == Spec => []AttemptsAreCounted
<1>m. MaxAttempts \in Nat \ {0}
  BY ConstantsAssumption DEF ConstantsAssumption
<1>1. Init => AttemptsAreCounted
  <2> SUFFICES ASSUME Init PROVE AttemptsAreCounted
    OBVIOUS
  <2>1. ASSUME NEW n \in Node PROVE NodeIsCounted(n)
    <3>1. /\ node[n] = "pending" /\ attempts[n] = 0 /\ task[n] = "none" /\ pc = "idle"
          /\ db.attempts[n] = 0 /\ calls[n] = 0 /\ crashes = 0 /\ resumes = 0
      BY DEF Init, NoTasks
    <3> QED
      BY <1>m, <3>1 DEF NodeIsCounted
  <2> QED
    BY <2>1 DEF Init, AttemptsAreCounted, NewRowIsFresh
<1>2. TypeOK /\ Agreement /\ AttemptsAreCounted /\ [Next]_vars => AttemptsAreCounted'
  BY FreshStep, CountStep DEF AttemptsAreCounted
<1> QED
  BY <1>1, <1>2, TypeCorrect, AlwaysAgrees, PTL DEF Spec


\* However pauses, crashes and resumes are mixed, the dispatches of a node stay
\* within its attempts, one more for each resume and all of them again for each
\* crash: retries, resumes and lost memory never compound.
THEOREM DispatchesAreAlwaysBounded == Spec => []DispatchesAreBounded
<1>m. MaxAttempts \in Nat \ {0}
  BY ConstantsAssumption DEF ConstantsAssumption
<1>1. TypeOK /\ AttemptsAreCounted => DispatchesAreBounded
  <2> SUFFICES ASSUME TypeOK, AttemptsAreCounted, NEW n \in Node
               PROVE  calls[n] <= MaxAttempts * (1 + crashes) + resumes
    BY DEF DispatchesAreBounded
  <2>1. /\ attempts[n] <= MaxAttempts + resumes
        /\ calls[n] <= attempts[n] + MaxAttempts * crashes
    BY DEF AttemptsAreCounted, NodeIsCounted
  <2>2. /\ MaxAttempts \in Nat /\ resumes \in Nat /\ crashes \in Nat
        /\ attempts[n] \in Nat /\ calls[n] \in Nat
    BY <1>m DEF TypeOK
  <2>3. MaxAttempts * (1 + crashes) = MaxAttempts + MaxAttempts * crashes
    BY <2>2
  <2> DEFINE lost == MaxAttempts * crashes
  <2>4. lost \in Nat
    BY <2>2
  <2> HIDE DEF lost
  <2> QED
    BY <2>1, <2>2, <2>3, <2>4 DEF lost
<1> QED
  BY <1>1, TypeCorrect, DispatchesAreCounted, PTL
------------------------------------------------------------------------------
(* What runs is on a live path, and behind no closed gate.                  *)

LEMMA ConditionsAreFixed == [Next]_vars => wf' = wf /\ holds' = holds
  BY DEF Next, RunStep, Launch, StopInLoop, LeaveLoop, Gather, EndApply, Finish,
         Start, Resume, Cancel, Crash, Decide, ApplyWaiting, ApplyResult, TaskStep,
         TaskFrame, TaskStart, BudgetCheck, WorkSucceeds, WorkFails,
         WorkNeedsApproval, TaskRetry, ConsultGate, GateFails, RunJoin, PassThrough, vars

LEMMA WorkflowIsTyped ==
    ASSUME wf \in Workflows, NEW n \in wf.nodes
    PROVE  /\ wf.kind[n] \in NodeKind /\ wf.policy[n] \in JoinPolicy
           /\ wf.quorum[n] \in Nat \ {0}
<1>1. IsWorkflow(wf, Node)
  BY ConstantsAssumption DEF ConstantsAssumption
<1> QED
  BY <1>1 DEF IsWorkflow

\* A step makes of a node's status in memory one of these.
LEMMA NodeMoves ==
    ASSUME TypeOK, Agreement, [Next]_vars, NEW n \in Node
    PROVE  \/ node'[n] = node[n]
           \/ pc' = "idle" /\ db' = db /\ node' = db.node
           \/ n \in wf.nodes /\ TaskStep(n) /\ MarkRunning(n)
           \/ node[n] \in {"running", "pending"} /\ node'[n] = "cancelled"
           \/ /\ EndApply /\ node[n] = "pending" /\ node'[n] = "skipped"
              /\ node' = SkipUnreachable(wf, node, holds)
           \/ task[n] = "waiting" /\ node'[n] = "waiting_for_approval"
           \/ task[n] \in {"succeeded", "failed"} /\ node'[n] = task[n]
<1>w. wf.nodes \subseteq Node
  BY WorkflowNodes DEF TypeOK
<1>1. CASE Start \/ Resume \/ Launch \/ LeaveLoop \/ Cancel \/ UNCHANGED vars
  BY <1>1 DEF Start, Resume, EnterLoop, Launch, LeaveLoop, Cancel, memory, vars
<1>2. CASE HandleCancellation
  BY <1>2 DEF HandleCancellation, EndRun, Unload, CancelRunning
<1>3. CASE HandleBudgetExhaustion \/ Finish
  BY <1>3 DEF HandleBudgetExhaustion, Finish, EndRun, Unload
<1>4. CASE StopInLoop
  BY <1>2, <1>3, <1>4 DEF StopInLoop
<1>5. CASE Gather
  <2>1. CASE UNCHANGED memory
    BY <2>1 DEF memory
  <2> QED
    BY <1>2, <1>3, <1>5, <2>1 DEF Gather
<1>6. CASE EndApply
  <2>1. CASE Unload /\ UNCHANGED db
    BY <2>1 DEF Unload
  <2>2. CASE node' = SkipUnreachable(wf, node, holds)
    BY <1>6, <2>2, SkipsArePending DEF TypeOK
  <2> QED
    BY <1>6, <2>1, <2>2 DEF EndApply
<1>7. CASE Crash
  BY <1>7 DEF Crash, Unload
<1>8. ASSUME NEW m \in wf.nodes, ApplyWaiting(m) \/ ApplyResult(m)
      PROVE  \/ node'[n] = node[n]
             \/ task[n] = "waiting" /\ node'[n] = "waiting_for_approval"
             \/ task[n] \in {"succeeded", "failed"} /\ node'[n] = task[n]
  BY <1>w, <1>8 DEF ApplyWaiting, ApplyResult, FailRun, EndRun, Unload, TypeOK
<1>9. ASSUME NEW m \in wf.nodes, TaskStep(m)
      PROVE  \/ node'[n] = node[n]
             \/ m = n /\ MarkRunning(n)
             \/ node[n] = "pending" /\ node'[n] = "cancelled"
  <2>1. \/ node' = node
        \/ MarkRunning(m)
        \/ node' = [k \in Node |-> IF k \in Losers(m) THEN "cancelled" ELSE node[k]]
    BY <1>9 DEF TaskStep, TaskStart, BudgetCheck, WorkSucceeds, WorkFails,
         WorkNeedsApproval, TaskRetry, ConsultGate, GateFails, RunJoin, PassThrough, BeginAttempt
  <2>2. \A k \in Losers(m) : node[k] = "pending"
    BY DEF Losers
  <2> QED
    BY <1>w, <2>1, <2>2 DEF MarkRunning, TypeOK
<1>10. CASE \E m \in wf.nodes : Decide(m)
  BY <1>10 DEF Decide, memory
<1> QED
  BY <1>1, <1>4, <1>3, <1>5, <1>6, <1>7, <1>8, <1>9, <1>10 DEF Next, RunStep

\* A task stays, ends with its ready set, is launched or takes a step.
LEMMA TaskMoves ==
    ASSUME TypeOK, [Next]_vars, NEW n \in Node
    PROVE  \/ task'[n] \in {task[n], "none"}
           \/ Launch /\ task'[n] = "queued"
           \/ n \in wf.nodes /\ TaskStep(n)
<1>w. wf.nodes \subseteq Node
  BY WorkflowNodes DEF TypeOK
<1>1. CASE Start \/ Resume \/ LeaveLoop \/ Cancel \/ UNCHANGED vars
  BY <1>1 DEF Start, Resume, EnterLoop, LeaveLoop, Cancel, run, vars
<1>2. CASE Launch
  BY <1>2 DEF Launch
<1>3. CASE StopInLoop \/ Finish \/ Crash \/ Gather \/ EndApply
  BY <1>3 DEF StopInLoop, Finish, Crash, Gather, EndApply, HandleCancellation,
              HandleBudgetExhaustion, EndRun, Unload, NoTasks, BeginFinish
<1>4. ASSUME NEW m \in wf.nodes, ApplyWaiting(m) \/ ApplyResult(m)
      PROVE  task'[n] \in {task[n], "none"}
  BY <1>w, <1>4 DEF ApplyWaiting, ApplyResult, ApplyFrame, FailRun, EndRun, Unload,
                    NoTasks, TypeOK
<1>5. ASSUME NEW m \in wf.nodes, TaskStep(m)
      PROVE  task'[n] = task[n] \/ m = n
  <2>1. \E r \in TaskState : task' = [task EXCEPT ![m] = r]
    BY <1>5 DEF TaskStep, TaskStart, BudgetCheck, WorkSucceeds, WorkFails,
           WorkNeedsApproval, TaskRetry, ConsultGate, GateFails, RunJoin, PassThrough,
           BeginAttempt, MarkRunning, GateVerdict, Settle, TaskState, LiveTask,
           StopTask, OutcomeTask
  <2> QED
    BY <1>w, <2>1 DEF TypeOK
<1>6. CASE \E m \in wf.nodes : Decide(m)
  BY <1>6 DEF Decide, run
<1> QED
  BY <1>1, <1>2, <1>3, <1>4, <1>5, <1>6 DEF Next, RunStep

\* What the row has settled stays as it settled.
LEMMA SettledIsKept ==
    ASSUME TypeOK, Agreement, [Next]_vars,
           NEW n \in Node, db.node[n] \in TerminalNodeStatus
    PROVE  db'.node[n] = db.node[n]
<1>1. Durable!Progress \/ db'.node = db.node
  BY DurableStep DEF Durable!Next, Durable!Work, Durable!Pause, Durable!End
<1> QED
  BY <1>1, SameStatuses DEF Durable!Progress

\* A dispatch is never undone.
LEMMA CallsStay ==
    ASSUME TypeOK, [Next]_vars, NEW n \in Node, calls[n] > 0
    PROVE  calls'[n] > 0
<1>1. calls[n] \in Nat /\ calls \in [Node -> Nat]
  BY DEF TypeOK
<1> QED
  BY <1>1, DispatchStep, WorkflowNodes DEF TypeOK

\* A granted request stays granted.
LEMMA GrantsStay ==
    ASSUME TypeOK, [Next]_vars, NEW n \in Node, approval[n] = "granted"
    PROVE  approval'[n] = "granted"
<1>w. wf.nodes \subseteq Node
  BY WorkflowNodes DEF TypeOK
<1>1. ASSUME NEW m \in wf.nodes, TaskStep(m) PROVE approval'[n] = "granted"
  BY <1>1, <1>w DEF TaskStep, TaskStart, BudgetCheck, WorkSucceeds, WorkFails,
           WorkNeedsApproval, TaskRetry, ConsultGate, GateFails, RunJoin, PassThrough,
           GateVerdict, Request, TypeOK
<1>2. ASSUME NEW m \in wf.nodes, Decide(m) PROVE approval'[n] = "granted"
  BY <1>2, <1>w DEF Decide, TypeOK
<1> QED
  BY <1>1, <1>2
  DEF Next, RunStep, Launch, StopInLoop, LeaveLoop, Gather, EndApply, Finish,
      Start, Resume, Cancel, Crash, ApplyWaiting, ApplyResult, vars

LEMMA RanStep ==
    ASSUME TypeOK, Agreement, RanWasCalled, [Next]_vars
    PROVE  RanWasCalled'
<1> SUFFICES ASSUME NEW n \in Node,
                    \/ node'[n] \in RanStatus
                    \/ db'.node[n] \in RanStatus
                    \/ task'[n] \in LiveTask \cup OutcomeTask
             PROVE  calls'[n] > 0
  BY DEF RanWasCalled
<1>1. CASE calls[n] > 0
  BY <1>1, CallsStay
<1>2. CASE MarkRunning(n)
  BY <1>2 DEF MarkRunning, TypeOK
<1>3. CASE /\ node[n] \notin RanStatus /\ db.node[n] \notin RanStatus
           /\ task[n] \notin LiveTask \cup OutcomeTask /\ ~MarkRunning(n)
  <2>1. node'[n] \notin RanStatus
    BY <1>3, NodeMoves DEF RanStatus, OutcomeTask
  <2>2. db'.node[n] \notin RanStatus
    BY <1>3, <2>1, SavesAreOfMemory
  <2>3. task'[n] \notin LiveTask \cup OutcomeTask
    <3>1. CASE TaskStep(n)
      BY <1>3, <3>1 DEF TaskStep, TaskStart, BudgetCheck, WorkSucceeds, WorkFails,
           WorkNeedsApproval, TaskRetry, ConsultGate, GateFails, RunJoin, PassThrough,
           BeginAttempt, Settle, LiveTask, OutcomeTask, TypeOK
    <3> QED
      BY <1>3, <3>1, TaskMoves DEF LiveTask, OutcomeTask
  <2> QED
    BY <2>1, <2>2, <2>3
<1> QED
  BY <1>1, <1>2, <1>3 DEF RanWasCalled

LEMMA GrantedStep ==
    ASSUME TypeOK, Agreement, GatesWereGranted, [Next]_vars
    PROVE  GatesWereGranted'
<1> SUFFICES ASSUME NEW n \in wf.nodes, wf.kind[n] = "approval"
             PROVE  /\ task'[n] # "working"
                    /\ "succeeded" \in {node'[n], db'.node[n], task'[n]} =>
                          approval'[n] = "granted"
  BY WorkflowIsFixed DEF GatesWereGranted
<1>0. n \in Node
  BY WorkflowNodes DEF TypeOK
<1>g. /\ task[n] # "working"
      /\ "succeeded" \in {node[n], db.node[n], task[n]} => approval[n] = "granted"
  BY DEF GatesWereGranted
<1>1. CASE TaskStep(n)
  <2>1. \/ ConsultGate(n)
        \/ task'[n] \in {"marked", "cancelled", "backoff", "failed"}
    BY <1>0, <1>1, <1>g
    DEF TaskStep, TaskStart, BudgetCheck, WorkSucceeds, WorkFails, IsWork,
        WorkNeedsApproval, TaskRetry, GateFails, RunJoin, PassThrough, BeginAttempt,
        MarkRunning, Settle, TypeOK
  <2>3. task'[n] # "working" /\ (task'[n] = "succeeded" => approval[n] = "granted")
    <3>1. CASE ConsultGate(n)
      BY <1>0, <3>1 DEF ConsultGate, GateVerdict, Settle, TypeOK
    <3> QED
      BY <2>1, <3>1
  <2> QED
    BY <1>0, <1>g, <2>3, GrantsStay, NodeMoves, SavesAreOfMemory DEF MarkRunning, TypeOK
<1>2. CASE ~TaskStep(n)
  <2>1. task'[n] \in {task[n], "none", "queued"}
    BY <1>0, <1>2, TaskMoves
  <2>2. node'[n] = "succeeded" => "succeeded" \in {node[n], db.node[n], task[n]}
    BY <1>0, <1>2, NodeMoves
  <2> QED
    BY <1>0, <1>g, <2>1, <2>2, GrantsStay, SavesAreOfMemory
<1> QED
  BY <1>1, <1>2

\* What is ready has an input to thank for it: one that holds, from a settled
\* source, which completed unless a join took note of a failure.
LEMMA ReadySource ==
    ASSUME wf \in Workflows, NEW st, NEW h,
           \A e \in wf.edges : ~e.cond => e \in h,
           NEW n \in ReadyNodes(wf, st, h), Inbound(wf, n) # {}
    PROVE  \E e \in Inbound(wf, n) :
              /\ e \in h
              /\ st[e.src] \in TerminalNodeStatus
              /\ wf.kind[n] # "join" => st[e.src] \in CompleteNodeStatus
              /\ wf.kind[n] = "join" /\ wf.policy[n] # "all_settled" =>
                    st[e.src] = "succeeded"
<1> DEFINE active == ActiveEdges(wf, st, h)
           relevant == RelevantEdges(wf, n, active)
           succeeded == {e \in relevant : st[e.src] = "succeeded"}
<1>1. n \in wf.nodes /\ DependenciesSatisfied(wf, n, st, active)
  BY DEF ReadyNodes
<1>2. /\ relevant # {}
      /\ IF wf.kind[n] = "join"
         THEN JoinSatisfied(wf, n, relevant, st)
         ELSE \A e \in relevant : st[e.src] \in CompleteNodeStatus
  BY <1>1 DEF DependenciesSatisfied
<1>3. \A e \in relevant : e \in Inbound(wf, n) /\ e \in h
  BY DEF RelevantEdges, ActiveEdges, Inbound
<1>4. CompleteNodeStatus \subseteq TerminalNodeStatus /\ "succeeded" \in TerminalNodeStatus
  BY DEF CompleteNodeStatus, TerminalNodeStatus
<1>5. CASE wf.kind[n] # "join"
  BY <1>2, <1>3, <1>4, <1>5
<1>6. CASE wf.kind[n] = "join"
  <2>1. JoinSatisfied(wf, n, relevant, st)
    BY <1>2, <1>6
  <2>2. CASE succeeded # {}
    BY <1>3, <1>4, <1>6, <2>2
  <2>3. CASE succeeded = {}
    <3>1. wf.quorum[n] \in Nat \ {0}
      BY <1>1, WorkflowIsTyped
    <3>2. ~(Cardinality(succeeded) >= wf.quorum[n])
      <4> HIDE DEF succeeded
      <4>1. Cardinality(succeeded) = 0
        BY <2>3, FS_EmptySet
      <4> QED
        BY <3>1, <4>1
    <3>3. wf.policy[n] = "all_settled"
          /\ {e \in relevant : st[e.src] \in TerminalNodeStatus} = relevant
      BY <1>2, <2>1, <2>3, <3>2 DEF JoinSatisfied
    <3> QED
      BY <1>2, <1>3, <1>6, <3>3
  <2> QED
    BY <2>2, <2>3
<1> QED
  BY <1>5, <1>6

\* What hangs on one node alone is ready only once that node is complete.
LEMMA ReadyOnOneSource ==
    ASSUME NEW st, NEW h, NEW n \in ReadyNodes(wf, st, h), NEW m,
           Inbound(wf, n) # {}, \A e \in Inbound(wf, n) : e.src = m,
           st[m] \in TerminalNodeStatus
    PROVE  \E e \in Inbound(wf, n) : e \in h /\ st[m] \in CompleteNodeStatus
  BY DEF ReadyNodes, IsUnreachable, ActiveEdges

\* A pass that skips a node skips the later ones that hang on it alone.
LEMMA PassCutsOff ==
    ASSUME NEW st \in [Node -> NodeStatus], NEW h,
           NEW m \in Node, NEW n \in Node, n \in wf.nodes,
           Inbound(wf, n) # {}, \A e \in Inbound(wf, n) : e.src = m,
           m < n, st[m] = "pending", st[n] = "pending",
           SkipUnreachable(wf, st, h)[m] = "skipped"
    PROVE  SkipUnreachable(wf, st, h)[n] = "skipped"
<1> DEFINE active == ActiveEdges(wf, st, h)
           candidates == {k \in wf.nodes : st[k] = "pending" /\ Inbound(wf, k) # {}}
           Dead(k, S) == \A e \in Inbound(wf, k) :
                           /\ e \notin active
                           /\ \/ st[e.src] \in TerminalNodeStatus
                              \/ e.src \in S /\ e.src < k
           Closed(S) == \A k \in candidates : Dead(k, S) => k \in S
<1>1. SkippedByPass(wf, st, h) =
        {k \in candidates : \A S \in SUBSET candidates : Closed(S) => k \in S}
  BY DEF SkippedByPass
<1>2. \A k \in Node :
        SkipUnreachable(wf, st, h)[k] =
          IF k \in SkippedByPass(wf, st, h) THEN "skipped" ELSE st[k]
  BY DEF SkipUnreachable
<1>3. m \in SkippedByPass(wf, st, h)
  BY <1>2
<1>4. n \in candidates
  OBVIOUS
<1>5. ASSUME NEW S \in SUBSET candidates, Closed(S) PROVE n \in S
  <2>1. m \in S
    BY <1>1, <1>3, <1>5
  <2>2. \A e \in Inbound(wf, n) : e \notin active
    BY DEF ActiveEdges, CompleteNodeStatus
  <2>3. Dead(n, S)
    BY <2>1, <2>2
  <2> QED
    BY <1>4, <1>5, <2>3
<1>6. n \in SkippedByPass(wf, st, h)
  BY <1>1, <1>4, <1>5
<1> QED
  BY <1>2, <1>6

\* Nothing begins but by being launched, on what the launch has saved.
LEMMA BegunStep ==
    ASSUME TypeOK, [Next]_vars, NEW n \in wf.nodes, Begun(n)'
    PROVE  \/ Begun(n)
           \/ /\ Launch /\ n \in ReadyNodes(wf, node, holds)
              /\ db'.node = node /\ node' = node /\ calls' = calls
<1>0. n \in Node
  BY WorkflowNodes DEF TypeOK
<1>1. CASE task'[n] # "none"
  BY <1>0, <1>1, TasksComeFromLaunch DEF Begun, Launch, Save, memory
<1>2. CASE calls'[n] > 0
  BY <1>0, <1>2, DispatchStep, WorkflowNodes DEF Begun, TypeOK
<1> QED
  BY <1>1, <1>2 DEF Begun

LEMMA ShapeIsFixed ==
    ASSUME [Next]_vars
    PROVE  /\ wf' = wf /\ holds' = holds /\ Entries' = Entries
           /\ CutsAreWhole' <=> CutsAreWhole
           /\ \A n : OnLivePath(n)' <=> OnLivePath(n)
           /\ \A g, n : Dominates(g, n)' <=> Dominates(g, n)
<1>1. wf' = wf /\ holds' = holds
  BY ConditionsAreFixed
<1>2. Entries' = Entries
  BY <1>1 DEF Entries
<1>3. CutsAreWhole' <=> CutsAreWhole
  BY <1>1 DEF CutsAreWhole, IdsFollowPaths, MeetsInJoins
<1>4. \A n : OnLivePath(n)' <=> OnLivePath(n)
  BY <1>1, <1>2 DEF OnLivePath
<1>5. \A g, n : Dominates(g, n)' <=> Dominates(g, n)
  BY <1>1, <1>2 DEF Dominates, Guards
<1> QED
  BY <1>1, <1>2, <1>3, <1>4, <1>5

LEMMA AfterSuccessStep ==
    ASSUME TypeOK, Agreement, [Next]_vars, BegunAfterSuccess, SkipsCutOff,
           \A e \in wf.edges : ~e.cond => e \in holds
    PROVE  BegunAfterSuccess'
<1> SUFFICES ASSUME CutsAreWhole, NEW n \in wf.nodes, Begun(n)', n \notin Entries
             PROVE  \E e \in Inbound(wf, n) :
                       e \in holds /\ db'.node[e.src] = "succeeded"
  BY ShapeIsFixed DEF BegunAfterSuccess
<1>n. n \in Node /\ \A e \in Inbound(wf, n) : e.src \in Node
  BY WorkflowNodes DEF Inbound, TypeOK
<1>1. CASE Begun(n)
  <2>1. PICK e \in Inbound(wf, n) : e \in holds /\ db.node[e.src] = "succeeded"
    BY <1>1 DEF BegunAfterSuccess
  <2> QED
    BY <1>n, <2>1, SettledIsKept DEF TerminalNodeStatus
<1>2. CASE /\ n \in ReadyNodes(wf, node, holds)
           /\ db'.node = node
  <2>0. Inbound(wf, n) # {}
    BY DEF Entries
  <2>1. PICK e \in Inbound(wf, n) :
           /\ e \in holds
           /\ node[e.src] \in TerminalNodeStatus
           /\ wf.kind[n] = "join" /\ wf.policy[n] # "all_settled" =>
                node[e.src] = "succeeded"
    BY <1>2, <2>0, ReadySource DEF TypeOK
  <2>2. CASE \A f, k \in Inbound(wf, n) : f.src = k.src
    <3>1. PICK f \in Inbound(wf, n) : f \in holds /\ node[f.src] \in CompleteNodeStatus
      BY <1>2, <2>0, <2>1, <2>2, ReadyOnOneSource
    <3>2. node[n] \in RunnableNodeStatus
      BY <1>2 DEF ReadyNodes
    <3>3. node[f.src] # "skipped"
      BY <2>2, <3>1, <3>2 DEF SkipsCutOff, CutOff
    <3> QED
      BY <1>2, <3>1, <3>3 DEF CompleteNodeStatus
  <2>3. CASE wf.kind[n] = "join" /\ wf.policy[n] # "all_settled"
    BY <1>2, <2>1, <2>3
  <2> QED
    BY <2>2, <2>3 DEF CutsAreWhole, MeetsInJoins
<1> QED
  BY <1>1, <1>2, BegunStep

LEMMA CutOffStep ==
    ASSUME TypeOK, Agreement, RanWasCalled, [Next]_vars, SkipsCutOff,
           BegunAfterSuccess'
    PROVE  SkipsCutOff'
<1>a. TypeOK' /\ Agreement' /\ RanWasCalled'
  BY TypeStep, AgreementStep, RanStep
<1>f. wf' = wf /\ Entries' = Entries /\ (CutsAreWhole' <=> CutsAreWhole)
  BY ShapeIsFixed
<1> SUFFICES ASSUME CutsAreWhole, NEW n \in wf.nodes
             PROVE  /\ CutOff(n, node') => node'[n] \notin RunnableNodeStatus
                    /\ CutOff(n, db'.node) => db'.node[n] \notin RunnableNodeStatus
  BY <1>f DEF SkipsCutOff, CutOff
<1>n. n \in Node /\ \A e \in Inbound(wf, n) : e.src \in Node /\ e.src < n
  BY WorkflowNodes DEF Inbound, TypeOK, CutsAreWhole, IdsFollowPaths
<1>1. ASSUME CutOff(n, node'), node'[n] \in RunnableNodeStatus PROVE FALSE
  <2>1. PICK e \in Inbound(wf, n) :
           node'[e.src] = "skipped" /\ \A f \in Inbound(wf, n) : f.src = e.src
    BY <1>1 DEF CutOff
  <2>2. ~Begun(n)'
    <3> SUFFICES ASSUME Begun(n)' PROVE FALSE
      OBVIOUS
    <3>1. n \in Entries \/ \E f \in Inbound(wf, n) : db'.node[f.src] = "succeeded"
      BY <1>f DEF BegunAfterSuccess
    <3>2. db'.node[e.src] = "succeeded"
      BY <2>1, <3>1 DEF Entries
    <3> QED
      BY <1>a, <1>n, <2>1, <3>2 DEF Agreement, RowIsInMemory, TerminalNodeStatus
  <2>3. node'[n] = "pending" /\ task'[n] = "none"
    BY <1>1, <1>a, <1>n, <2>2 DEF RanWasCalled, RanStatus, RunnableNodeStatus, Begun
  <2>4. CASE db' = db /\ node' = db.node
    BY <1>1, <2>4 DEF SkipsCutOff
  <2>5. CASE ~(db' = db /\ node' = db.node)
    <3>1. node[n] = "pending"
      BY <1>n, <2>3, <2>5, NodeMoves DEF MarkRunning, TypeOK
    <3>2. node[e.src] # "skipped"
      BY <2>1, <3>1 DEF SkipsCutOff, CutOff, RunnableNodeStatus
    <3>3. /\ node[e.src] = "pending"
          /\ node' = SkipUnreachable(wf, node, holds)
      BY <1>n, <2>1, <2>5, <3>2, NodeMoves DEF MarkRunning, TypeOK
    <3>4. node'[n] = "skipped"
      BY <1>n, <2>1, <3>1, <3>3, PassCutsOff DEF TypeOK
    <3> QED
      BY <2>3, <3>4
  <2> QED
    BY <2>4, <2>5
<1>2. CASE db' = db
  BY <1>1, <1>2 DEF SkipsCutOff
<1>3. CASE db'.node = node'
  BY <1>1, <1>3
<1> QED
  BY <1>1, <1>2, <1>3, SavesAreOfMemory

LEMMA DeadPathsStep ==
    ASSUME TypeOK, Agreement, RanWasCalled, [Next]_vars, DeadPathsStayDead,
           BegunAfterSuccess', \A e \in wf.edges : ~e.cond => e \in holds
    PROVE  DeadPathsStayDead'
<1>a. RanWasCalled' /\ (CutsAreWhole' <=> CutsAreWhole)
  BY RanStep, ShapeIsFixed
<1> SUFFICES ASSUME NEW n \in wf.nodes, Begun(n)', ~OnLivePath(n)
             PROVE  /\ ~CutsAreWhole
                    /\ \E m \in wf.nodes : /\ ~OnLivePath(m)
                                           /\ db'.node[m] \in {"skipped", "cancelled"}
  BY ShapeIsFixed DEF DeadPathsStayDead
<1>n. /\ wf.nodes \subseteq Node
      /\ \A e \in Inbound(wf, n) : e.src \in wf.nodes /\ e.dst = n
  BY WorkflowNodes DEF Inbound, TypeOK
<1>b. ASSUME NEW m \in wf.nodes, Begun(m), ~OnLivePath(m)
      PROVE  /\ ~CutsAreWhole
             /\ \E k \in wf.nodes : /\ ~OnLivePath(k)
                                    /\ db'.node[k] \in {"skipped", "cancelled"}
  <2>1. ~CutsAreWhole
    BY <1>b DEF DeadPathsStayDead
  <2>2. PICK k \in wf.nodes : ~OnLivePath(k) /\ db.node[k] \in {"skipped", "cancelled"}
    BY <1>b DEF DeadPathsStayDead
  <2> QED
    BY <1>n, <2>1, <2>2, SettledIsKept DEF TerminalNodeStatus
<1>1. CASE Begun(n)
  BY <1>1, <1>b
<1>2. CASE /\ Launch /\ n \in ReadyNodes(wf, node, holds)
           /\ db'.node = node /\ node' = node /\ calls' = calls
  <2>1. PICK S \in SUBSET (wf.nodes \ {n}) :
            /\ Entries \subseteq S
            /\ \A e \in holds : e.src \in S => e.dst \in S
    BY DEF OnLivePath
  <2>2. \A e \in Inbound(wf, n) : e \in holds => ~OnLivePath(e.src)
    BY <1>n, <2>1 DEF OnLivePath
  <2>3. n \notin Entries /\ Inbound(wf, n) # {}
    BY <2>1 DEF Entries
  <2>4. ASSUME NEW m \in wf.nodes, node[m] \in {"succeeded", "failed"} PROVE Begun(m)
    BY <1>n, <2>4 DEF RanWasCalled, RanStatus, Begun
  <2>5. CASE CutsAreWhole
    <3>1. PICK f \in Inbound(wf, n) : f \in holds /\ db'.node[f.src] = "succeeded"
      BY <1>a, <2>3, <2>5, ShapeIsFixed DEF BegunAfterSuccess
    <3> QED
      BY <1>2, <1>b, <1>n, <2>2, <2>4, <3>1
  <2>6. CASE ~CutsAreWhole
    <3>1. PICK e \in Inbound(wf, n) : e \in holds /\ node[e.src] \in TerminalNodeStatus
      BY <1>2, <2>3, ReadySource DEF TypeOK
    <3>2. CASE node[e.src] \in {"succeeded", "failed"}
      BY <1>b, <1>n, <2>2, <2>4, <3>1, <3>2
    <3>3. CASE node[e.src] \in {"skipped", "cancelled"}
      BY <1>2, <1>n, <2>2, <2>6, <3>1, <3>3
    <3> QED
      BY <3>1, <3>2, <3>3 DEF TerminalNodeStatus
  <2> QED
    BY <2>5, <2>6
<1> QED
  BY <1>1, <1>2, BegunStep

LEMMA GatesStep ==
    ASSUME TypeOK, Agreement, RanWasCalled, GatesWereGranted, [Next]_vars, GatesHoldBack,
           BegunAfterSuccess', \A e \in wf.edges : ~e.cond => e \in holds
    PROVE  GatesHoldBack'
<1>a. RanWasCalled' /\ GatesWereGranted' /\ (CutsAreWhole' <=> CutsAreWhole)
  BY RanStep, GrantedStep, ShapeIsFixed
<1> DEFINE Held(g) == \/ approval'[g] = "granted"
                      \/ /\ ~CutsAreWhole
                         /\ \E m \in wf.nodes :
                               /\ m = g \/ Dominates(g, m)
                               /\ db'.node[m] \in {"failed", "skipped", "cancelled"}
<1> SUFFICES ASSUME NEW g \in wf.nodes, NEW n \in wf.nodes, wf.kind[g] = "approval",
                    g # n, Begun(n)', Dominates(g, n)
             PROVE  Held(g)
  BY ShapeIsFixed DEF GatesHoldBack
<1>n. /\ wf.nodes \subseteq Node
      /\ \A e \in Inbound(wf, n) : e \in wf.edges /\ e.src \in wf.nodes /\ e.dst = n
  BY WorkflowNodes DEF Inbound, TypeOK
<1>b. ASSUME NEW m \in wf.nodes, Begun(m), g # m, Dominates(g, m) PROVE Held(g)
  <2>1. CASE approval[g] = "granted"
    BY <1>n, <2>1, GrantsStay
  <2>2. CASE ~(approval[g] = "granted")
    <3>1. ~CutsAreWhole
      BY <1>b, <2>2 DEF GatesHoldBack
    <3>2. PICK k \in wf.nodes : /\ k = g \/ Dominates(g, k)
                                /\ db.node[k] \in {"failed", "skipped", "cancelled"}
      BY <1>b, <2>2 DEF GatesHoldBack
    <3> QED
      BY <1>n, <3>1, <3>2, SettledIsKept DEF TerminalNodeStatus
  <2> QED
    BY <2>1, <2>2
<1>1. CASE Begun(n)
  BY <1>1, <1>b
<1>2. CASE /\ Launch /\ n \in ReadyNodes(wf, node, holds)
           /\ db'.node = node /\ node' = node /\ calls' = calls
  <2>1. PICK S \in SUBSET wf.nodes : Guards(g, n, S)
    BY DEF Dominates
  <2>2. ASSUME NEW e \in Inbound(wf, n)
        PROVE  e.src = g \/ Dominates(g, e.src)
    <3>1. e.src \notin S
      BY <1>n, <2>1 DEF Guards
    <3>2. CASE e.src # g
      BY <1>n, <2>1, <3>1, <3>2 DEF Guards, Dominates
    <3> QED
      BY <3>2
  <2>3. n \notin Entries /\ Inbound(wf, n) # {}
    BY <2>1 DEF Entries, Guards
  <2>4. ASSUME NEW e \in Inbound(wf, n), node[e.src] = "succeeded" PROVE Held(g)
    <3>1. CASE e.src = g
      BY <1>2, <1>a, <1>n, <2>4, <3>1, ShapeIsFixed DEF GatesWereGranted
    <3>2. CASE e.src # g
      <4>1. Begun(e.src)
        BY <1>n, <2>4 DEF RanWasCalled, RanStatus, Begun
      <4> HIDE DEF Held
      <4> QED
        BY <1>b, <1>n, <2>2, <3>2, <4>1
    <3> QED
      BY <3>1, <3>2
  <2>5. CASE CutsAreWhole
    <3>1. PICK f \in Inbound(wf, n) : f \in holds /\ db'.node[f.src] = "succeeded"
      BY <1>a, <2>3, <2>5, ShapeIsFixed DEF BegunAfterSuccess
    <3> HIDE DEF Held
    <3> QED
      BY <1>2, <2>4, <3>1
  <2>6. CASE ~CutsAreWhole
    <3>1. PICK e \in Inbound(wf, n) : e \in holds /\ node[e.src] \in TerminalNodeStatus
      BY <1>2, <2>3, ReadySource DEF TypeOK
    <3>2. CASE node[e.src] \in {"failed", "skipped", "cancelled"}
      BY <1>2, <1>n, <2>2, <2>6, <3>2
    <3>3. CASE node[e.src] = "succeeded"
      <4> HIDE DEF Held
      <4> QED
        BY <2>4, <3>3
    <3> QED
      BY <3>1, <3>2, <3>3 DEF TerminalNodeStatus
  <2> QED
    BY <2>5, <2>6
<1> QED
  BY <1>1, <1>2, BegunStep

LEMMA PathsStep == TypeOK /\ Agreement /\ PathsAreKept /\ [Next]_vars => PathsAreKept'
<1> SUFFICES ASSUME TypeOK, Agreement, PathsAreKept, [Next]_vars PROVE PathsAreKept'
  OBVIOUS
<1>0. /\ \A e \in wf.edges : ~e.cond => e \in holds
      /\ RanWasCalled /\ GatesWereGranted /\ BegunAfterSuccess /\ SkipsCutOff
      /\ DeadPathsStayDead /\ GatesHoldBack
  BY DEF PathsAreKept
<1>1. \A e \in wf'.edges : ~e.cond => e \in holds'
  BY <1>0, ShapeIsFixed
<1>2. RanWasCalled' /\ GatesWereGranted' /\ BegunAfterSuccess'
  BY <1>0, RanStep, GrantedStep, AfterSuccessStep
<1>3. SkipsCutOff' /\ DeadPathsStayDead' /\ GatesHoldBack'
  BY <1>0, <1>2, CutOffStep, DeadPathsStep, GatesStep
<1> QED
  BY <1>1, <1>2, <1>3 DEF PathsAreKept

\* The inductive invariant of the two path properties: what is launched has an
\* input that holds, and from there back every source has run or was settled
\* without running.
THEOREM PathsAreAlwaysKept == Spec => []PathsAreKept
<1>1. Init => PathsAreKept
  <2> SUFFICES ASSUME Init PROVE PathsAreKept
    OBVIOUS
  <2>0. wf.nodes \subseteq Node /\ \A e \in wf.edges : e.src \in Node
    BY WorkflowNodes DEF Init
  <2>1. \A n \in Node : /\ node[n] = "pending" /\ db.node[n] = "pending"
                        /\ task[n] = "none" /\ calls[n] = 0
    BY DEF Init, NoTasks
  <2>2. RanWasCalled /\ GatesWereGranted
    BY <2>0, <2>1 DEF RanWasCalled, GatesWereGranted, RanStatus, LiveTask, OutcomeTask
  <2>3. \A n \in wf.nodes : ~Begun(n)
    BY <2>0, <2>1 DEF Begun
  <2>4. SkipsCutOff
    BY <2>0, <2>1 DEF SkipsCutOff, CutOff, Inbound
  <2> QED
    BY <2>2, <2>3, <2>4 DEF Init, PathsAreKept, BegunAfterSuccess,
                            DeadPathsStayDead, GatesHoldBack
<1> QED
  BY <1>1, PathsStep, TypeCorrect, AlwaysAgrees, PTL DEF Spec

\* Where cuts are whole, a node all of whose paths are cut is not run; elsewhere
\* it runs only after a dead node was skipped or lost its race.
THEOREM DeadPathsAreNeverRun == Spec => []DeadPathsDoNotRun
<1>1. PathsAreKept => DeadPathsDoNotRun
  BY DEF PathsAreKept, DeadPathsStayDead, DeadPathsDoNotRun, Begun
<1> QED
  BY <1>1, PathsAreAlwaysKept, PTL

\* Nothing behind a gate runs before it is granted, with the same reservation.
THEOREM GatesAreNeverPassed == Spec => []NothingPassesAGate
<1>1. PathsAreKept => NothingPassesAGate
  BY DEF PathsAreKept, GatesHoldBack, NothingPassesAGate, Begun
<1> QED
  BY <1>1, PathsAreAlwaysKept, PTL
------------------------------------------------------------------------------
(* A success leaves nothing behind.                                         *)

LEMMA InboundIsFinite ==
    ASSUME wf \in Workflows, NEW n PROVE IsFiniteSet(Inbound(wf, n))
<1>1. IsWorkflow(wf, Node) /\ IsFiniteSet(wf.nodes)
  BY ConstantsAssumption, WorkflowNodes, FS_Subset DEF ConstantsAssumption
<1> DEFINE N == wf.nodes
           P == (N \X N) \X BOOLEAN
           key == [e \in Inbound(wf, n) |-> <<<<e.src, e.dst>>, e.cond>>]
<1>2. IsFiniteSet(BOOLEAN)
  <2>1. IsFiniteSet({})
    BY FS_EmptySet
  <2>2. IsFiniteSet({} \cup {TRUE})
    BY <2>1, FS_AddElement
  <2>3. IsFiniteSet(({} \cup {TRUE}) \cup {FALSE})
    BY <2>2, FS_AddElement
  <2>4. BOOLEAN = ({} \cup {TRUE}) \cup {FALSE}
    OBVIOUS
  <2> QED
    BY <2>3, <2>4
<1>3. IsFiniteSet(P)
  <2>1. IsFiniteSet(N \X N)
    BY <1>1, FS_Product
  <2> QED
    BY <1>2, <2>1, FS_Product
<1>4. \A e \in Inbound(wf, n) : e \in [src : N, dst : N, cond : BOOLEAN]
  BY <1>1 DEF IsWorkflow, Inbound
<1>5. key \in Injection(Inbound(wf, n), P)
  <2>1. key \in [Inbound(wf, n) -> P]
    BY <1>4
  <2>2. ASSUME NEW e \in Inbound(wf, n), NEW f \in Inbound(wf, n), key[e] = key[f]
        PROVE  e = f
    <3>1. e.src = f.src /\ e.dst = f.dst /\ e.cond = f.cond
      BY <2>2
    <3> QED
      BY <1>4, <3>1
  <2> QED
    BY <2>1, <2>2 DEF Injection, IsInjective
<1> QED
  BY <1>3, <1>5, FS_Injection

\* A node that may run, all of whose sources succeeded, is ready: some edge
\* leads to it, and a quorum can be had.
LEMMA ReadyOnSuccess ==
    ASSUME wf \in Workflows, NEW st, NEW h,
           \A e \in wf.edges : ~e.cond => e \in h,
           NEW n \in wf.nodes, st[n] \in RunnableNodeStatus,
           Inbound(wf, n) = {} \/ \E e \in Inbound(wf, n) : e \in h,
           \A e \in Inbound(wf, n) : st[e.src] = "succeeded",
           wf.kind[n] = "join" /\ wf.policy[n] = "quorum" =>
              Cardinality({e \in Inbound(wf, n) : ~e.cond}) >= wf.quorum[n]
    PROVE  n \in ReadyNodes(wf, st, h)
<1> DEFINE active == ActiveEdges(wf, st, h)
           relevant == RelevantEdges(wf, n, active)
           firm == {e \in Inbound(wf, n) : ~e.cond}
<1>1. CASE Inbound(wf, n) = {}
  BY <1>1 DEF ReadyNodes, DependenciesSatisfied, IsUnreachable
<1>2. CASE Inbound(wf, n) # {}
  <2>1. PICK e \in Inbound(wf, n) : e \in h
    BY <1>2
  <2>2. e \in active /\ e \in relevant
    BY <2>1 DEF ActiveEdges, RelevantEdges, Inbound, CompleteNodeStatus
  <2>3. \A f \in relevant : f \in Inbound(wf, n) /\ st[f.src] = "succeeded"
    BY DEF RelevantEdges
  <2>4. wf.kind[n] = "join" => JoinSatisfied(wf, n, relevant, st)
    <3> DEFINE succeeded == {f \in relevant : st[f.src] = "succeeded"}
               settled == {f \in relevant : st[f.src] \in TerminalNodeStatus}
    <3>1. succeeded = relevant /\ settled = relevant /\ succeeded # {}
      BY <2>2, <2>3 DEF TerminalNodeStatus
    <3>2. wf.kind[n] = "join" /\ wf.policy[n] = "quorum" =>
            Cardinality(succeeded) >= wf.quorum[n]
      <4>1. IsFiniteSet(relevant)
        BY InboundIsFinite, FS_Subset, <2>3
      <4>2. firm \in SUBSET relevant
        BY DEF RelevantEdges
      <4>3. /\ Cardinality(firm) <= Cardinality(relevant)
            /\ Cardinality(firm) \in Nat /\ Cardinality(relevant) \in Nat
        BY <4>1, <4>2, FS_Subset, FS_CardinalityType
      <4>4. wf.quorum[n] \in Nat
        BY WorkflowIsTyped
      <4>5. Cardinality(succeeded) = Cardinality(relevant)
        BY <3>1
      <4> HIDE DEF succeeded, relevant
      <4> QED
        BY <4>3, <4>4, <4>5
    <3>3. wf.policy[n] \in {"all", "any", "quorum", "all_settled"}
      BY WorkflowIsTyped DEF JoinPolicy
    <3> QED
      BY <3>1, <3>2, <3>3 DEF JoinSatisfied
  <2>5. DependenciesSatisfied(wf, n, st, active)
    BY <2>2, <2>3, <2>4 DEF DependenciesSatisfied, CompleteNodeStatus
  <2>6. ~IsUnreachable(wf, n, st, active)
    BY <2>1, <2>2 DEF IsUnreachable
  <2> QED
    BY <2>5, <2>6 DEF ReadyNodes
<1> QED
  BY <1>1, <1>2

\* So is a node that is not a join, once its unconditional inputs and one that
\* holds are complete.
LEMMA ReadyOnInputs ==
    ASSUME NEW st, NEW h, NEW n \in wf.nodes, st[n] \in RunnableNodeStatus,
           wf.kind[n] # "join",
           \/ Inbound(wf, n) = {}
           \/ \E e \in Inbound(wf, n) : e \in h /\ st[e.src] \in CompleteNodeStatus,
           \A e \in Inbound(wf, n) : ~e.cond => st[e.src] \in CompleteNodeStatus
    PROVE  n \in ReadyNodes(wf, st, h)
<1> DEFINE active == ActiveEdges(wf, st, h)
<1>1. CASE Inbound(wf, n) = {}
  BY <1>1 DEF ReadyNodes, DependenciesSatisfied, IsUnreachable
<1>2. CASE Inbound(wf, n) # {}
  <2>1. PICK e \in Inbound(wf, n) : e \in h /\ st[e.src] \in CompleteNodeStatus
    BY <1>2
  <2>2. e \in active
    BY <2>1 DEF ActiveEdges, Inbound
  <2>3. DependenciesSatisfied(wf, n, st, active)
    BY <2>1, <2>2 DEF DependenciesSatisfied, RelevantEdges, ActiveEdges
  <2> QED
    BY <2>2, <2>3 DEF ReadyNodes, IsUnreachable
<1> QED
  BY <1>1, <1>2

\* A pass leaves no pending node whose inputs are all decided against it.
LEMMA PassSweeps ==
    ASSUME NEW st \in [Node -> NodeStatus], NEW h, NEW n \in wf.nodes, n \in Node,
           \A e \in Inbound(wf, n) : e.src \in Node,
           SkipUnreachable(wf, st, h)[n] = "pending", Inbound(wf, n) # {}
    PROVE  \E e \in Inbound(wf, n) :
              SkipUnreachable(wf, st, h)[e.src] # "succeeded" \/ e \in h
<1> SUFFICES ASSUME \A e \in Inbound(wf, n) :
                       SkipUnreachable(wf, st, h)[e.src] = "succeeded" /\ e \notin h
             PROVE  FALSE
  OBVIOUS
<1>1. \A e \in Inbound(wf, n) : st[e.src] = "succeeded"
  BY SkipsArePending
<1>2. st[n] = "pending"
  BY SkipsArePending
<1>3. n \in SkippedByPass(wf, st, h)
  BY <1>1, <1>2 DEF SkippedByPass, ActiveEdges, TerminalNodeStatus
<1>4. SkipUnreachable(wf, st, h)[n] = "skipped"
  BY <1>3 DEF SkipUnreachable
<1> QED
  BY <1>4

\* What follows an abandoned node or a failed one is abandoned.
LEMMA AbandonmentSpreads ==
    ASSUME wf \in Workflows, NEW st, NEW n \in wf.nodes, NEW e \in Inbound(wf, n),
           \/ st[e.src] \in {"failed", "skipped", "cancelled"}
           \/ AbandonedIn(st, e.src)
    PROVE  AbandonedIn(st, n)
<1>1. e \in wf.edges /\ e.src \in wf.nodes /\ e.dst = n
  BY WorkflowNodes DEF Inbound
<1>2. n \in Successors(wf, e.src)
  BY <1>1 DEF Successors
<1>3. CASE st[e.src] \in {"failed", "skipped", "cancelled"}
  <2>1. n \in Downstream(wf, e.src)
    BY <1>2 DEF Downstream
  <2> QED
    BY <1>1, <1>3, <2>1 DEF AbandonedIn
<1>4. CASE AbandonedIn(st, e.src)
  <2>1. PICK m \in wf.nodes : /\ st[m] \in {"failed", "skipped", "cancelled"}
                              /\ e.src \in Downstream(wf, m)
    BY <1>4 DEF AbandonedIn
  <2>2. n \in Downstream(wf, m)
    BY <1>2, <2>1 DEF Downstream
  <2> QED
    BY <2>1, <2>2 DEF AbandonedIn
<1> QED
  BY <1>3, <1>4

\* The loop ends with nothing left behind.
LEMMA LoopEndsComplete ==
    ASSUME TypeOK, Agreement, TaskInputsAreDurable, PathsAreKept,
           BegunOnAnInput, JoinsDoNotWait, StepsAreNodes, Swept, NothingIsLost,
           QuorumsAreFirm, Cardinality(wf.nodes) <= MaxSteps,
           pc = "loop", steps = MaxSteps \/ ReadyNodes(wf, node, holds) = {}
    PROVE  CompleteIn(node)
<1>n. /\ wf \in Workflows /\ wf.nodes \subseteq Node
      /\ \A e \in wf.edges : e.src \in wf.nodes /\ e.dst \in wf.nodes
      /\ \A e \in wf.edges : ~e.cond => e \in holds
  BY WorkflowNodes DEF TypeOK, PathsAreKept
<1>s. status = "running" /\ db.status \notin TerminalExecutionStatus
  BY DEF Agreement, StatusFollowsRun, RowIsInMemory
<1>t. \A n \in Node : task[n] = "none"
  BY DEF Agreement, TasksAreOpen
<1>r. \A n \in Node : node[n] \in TerminalNodeStatus \/ node[n] \in RunnableNodeStatus
  <2>1. \A n \in Node : node[n] # "running"
    BY <1>s, <1>t DEF NothingIsLost
  <2> QED
    BY <2>1 DEF TypeOK, NodeStatus, TerminalNodeStatus, RunnableNodeStatus
<1>1. CASE steps = MaxSteps
  <2>1. IsFiniteSet(wf.nodes) /\ NotRunnable \in SUBSET wf.nodes
    BY <1>n, ConstantsAssumption, FS_Subset DEF ConstantsAssumption, NotRunnable
  <2>2. NotRunnable \cup ReadySet = NotRunnable
    BY <1>n, <1>t DEF ReadySet
  <2>3. MaxSteps <= Cardinality(NotRunnable)
    BY <1>1, <1>s, <2>2 DEF StepsAreNodes
  <2>4. /\ Cardinality(NotRunnable) <= Cardinality(wf.nodes)
        /\ Cardinality(NotRunnable) \in Nat /\ Cardinality(wf.nodes) \in Nat
    BY <2>1, FS_Subset, FS_CardinalityType
  <2>5. Cardinality(wf.nodes) = Cardinality(NotRunnable)
    BY <2>3, <2>4, ConstantsAssumption DEF ConstantsAssumption
  <2>6. wf.nodes = NotRunnable
    BY <2>1, <2>5, FS_Subset
  <2> QED
    BY <1>n, <1>r, <2>6 DEF NotRunnable, CompleteIn
<1>2. CASE ReadyNodes(wf, node, holds) = {}
  <2>w. ASSUME NEW m \in wf.nodes, node[m] = "waiting_for_approval" PROVE FALSE
    <3>0. m \in Node
      BY <1>n
    <3>1. Begun(m) /\ wf.kind[m] # "join"
      BY <2>w, <3>0 DEF Begun, PathsAreKept, RanWasCalled, RanStatus, JoinsDoNotWait
    <3>2. \A k \in Node : db.node[k] \in CompleteNodeStatus => node[k] \in CompleteNodeStatus
      BY DEF Agreement, RowIsInMemory, CompleteNodeStatus, TerminalNodeStatus
    <3>3. \A e \in Inbound(wf, m) : e.src \in Node
      BY <1>n DEF Inbound
    <3>4. InputsOf(m)
      BY <3>1 DEF Begun, TaskInputsAreDurable
    <3>5. \A e \in Inbound(wf, m) : ~e.cond => node[e.src] \in CompleteNodeStatus
      BY <3>1, <3>2, <3>3, <3>4 DEF InputsOf
    <3>6. \/ Inbound(wf, m) = {}
          \/ \E e \in Inbound(wf, m) : e \in holds /\ node[e.src] \in CompleteNodeStatus
      BY <3>1, <3>2, <3>3 DEF BegunOnAnInput, Entries
    <3>7. m \in ReadyNodes(wf, node, holds)
      BY <2>w, <3>1, <3>5, <3>6, ReadyOnInputs DEF RunnableNodeStatus
    <3> QED
      BY <1>2, <3>7
  <2> DEFINE U == {n \in wf.nodes : node[n] \notin TerminalNodeStatus /\ ~AbandonedIn(node, n)}
  <2>1. ASSUME U # {} PROVE FALSE
    <3>1. PICK n \in U : \A e \in Inbound(wf, n) : e.src \notin U
      <4>1. IsAcyclic(wf)
        BY <1>n, ConstantsAssumption DEF ConstantsAssumption
      <4>2. U \in SUBSET wf.nodes
        OBVIOUS
      <4> HIDE DEF U
      <4> QED
        BY <2>1, <4>1, <4>2 DEF IsAcyclic
    <3>2. n \in wf.nodes /\ n \in Node
      BY <1>n
    <3>3. ASSUME NEW e \in Inbound(wf, n) PROVE node[e.src] = "succeeded"
      <4>1. /\ node[e.src] \notin {"failed", "skipped", "cancelled"}
            /\ ~AbandonedIn(node, e.src)
        BY <1>n, <3>2, AbandonmentSpreads
      <4>2. e.src \in wf.nodes
        BY <1>n DEF Inbound
      <4>3. node[e.src] \in TerminalNodeStatus
        BY <3>1, <4>1, <4>2
      <4> QED
        BY <4>1, <4>3 DEF TerminalNodeStatus
    <3>4. node[n] = "pending"
      BY <1>r, <2>w, <3>2 DEF RunnableNodeStatus
    <3>5. Inbound(wf, n) = {} \/ \E e \in Inbound(wf, n) : e \in holds
      <4>1. CASE steps > 0
        BY <3>2, <3>3, <3>4, <4>1 DEF Swept, Entries
      <4>2. CASE steps = 0
        <5>1. \A k \in Node : node[k] = "pending"
          BY <2>w, <4>2 DEF NothingIsLost
        <5>2. \A e \in Inbound(wf, n) : e.src \in Node
          BY <1>n DEF Inbound
        <5> QED
          BY <3>3, <5>1, <5>2
      <4> QED
        BY <4>1, <4>2 DEF TypeOK
    <3>6. wf.kind[n] = "join" /\ wf.policy[n] = "quorum" =>
            Cardinality({e \in Inbound(wf, n) : ~e.cond}) >= wf.quorum[n]
      BY <3>2 DEF QuorumsAreFirm
    <3>7. n \in ReadyNodes(wf, node, holds)
      BY <1>n, <3>2, <3>3, <3>4, <3>5, <3>6, ReadyOnSuccess DEF RunnableNodeStatus
    <3> QED
      BY <1>2, <3>7
  <2> QED
    BY <2>1 DEF CompleteIn
<1> QED
  BY <1>1, <1>2

\* What a step of one task leaves alone, and what becomes of its node.
LEMMA TaskShape ==
    ASSUME TypeOK, NEW m \in wf.nodes, TaskStep(m)
    PROVE  /\ pc = "gather"
           /\ UNCHANGED <<wf, holds, status, pc, steps, cancelled, db, crashes, resumes>>
           /\ \A n \in Node : (task'[n] = "none" <=> task[n] = "none")
           /\ \A n \in Node : n # m => task'[n] = task[n]
           /\ \A n \in Node :
                 \/ node'[n] = node[n]
                 \/ node'[n] = "running" /\ task'[n] = "marked"
                 \/ node[n] = "pending" /\ node'[n] = "cancelled"
<1>0. m \in Node /\ wf.nodes \subseteq Node
  BY WorkflowNodes DEF TypeOK
<1>1. pc = "gather" /\ task[m] # "none"
  BY <1>0 DEF TaskStep, TaskStart, BudgetCheck, WorkSucceeds, WorkFails,
         WorkNeedsApproval, TaskRetry, ConsultGate, GateFails, RunJoin, PassThrough
<1>2. UNCHANGED <<wf, holds, status, pc, steps, cancelled, db, crashes, resumes>>
  BY DEF TaskStep, TaskFrame, TaskStart, BudgetCheck, WorkSucceeds, WorkFails,
         WorkNeedsApproval, TaskRetry, ConsultGate, GateFails, RunJoin, PassThrough
<1>3. \E r \in TaskState \ {"none"} : task' = [task EXCEPT ![m] = r]
  BY DEF TaskStep, TaskStart, BudgetCheck, WorkSucceeds, WorkFails,
         WorkNeedsApproval, TaskRetry, ConsultGate, GateFails, RunJoin, PassThrough,
         BeginAttempt, MarkRunning, GateVerdict, Settle, TaskState, LiveTask,
         StopTask, OutcomeTask
<1>4. \/ node' = node
      \/ MarkRunning(m)
      \/ node' = [k \in Node |-> IF k \in Losers(m) THEN "cancelled" ELSE node[k]]
  BY DEF TaskStep, TaskStart, BudgetCheck, WorkSucceeds, WorkFails,
         WorkNeedsApproval, TaskRetry, ConsultGate, GateFails, RunJoin, PassThrough, BeginAttempt
<1>5. \A k \in Losers(m) : node[k] = "pending"
  BY DEF Losers
<1>6. /\ \A n \in Node : (task'[n] = "none" <=> task[n] = "none")
      /\ \A n \in Node : n # m => task'[n] = task[n]
  BY <1>0, <1>1, <1>3 DEF TypeOK
<1>7. \A n \in Node : \/ node'[n] = node[n]
                      \/ node'[n] = "running" /\ task'[n] = "marked"
                      \/ node[n] = "pending" /\ node'[n] = "cancelled"
  BY <1>0, <1>4, <1>5 DEF MarkRunning, Settle, TypeOK
<1> QED
  BY <1>1, <1>2, <1>6, <1>7

LEMMA OnAnInputStep ==
    ASSUME TypeOK, Agreement, [Next]_vars, BegunOnAnInput,
           \A e \in wf.edges : ~e.cond => e \in holds
    PROVE  BegunOnAnInput'
<1> SUFFICES ASSUME NEW n \in wf.nodes, Begun(n)', wf.kind[n] # "join", n \notin Entries
             PROVE  \E e \in Inbound(wf, n) :
                       e \in holds /\ db'.node[e.src] \in CompleteNodeStatus
  BY ShapeIsFixed DEF BegunOnAnInput
<1>n. \A e \in Inbound(wf, n) : e.src \in Node
  BY WorkflowNodes DEF Inbound, TypeOK
<1>1. CASE Begun(n)
  BY <1>1, <1>n, CompletionIsKept DEF BegunOnAnInput
<1>2. CASE n \in ReadyNodes(wf, node, holds) /\ db'.node = node
  <2>1. Inbound(wf, n) # {}
    BY DEF Entries
  <2> QED
    BY <1>2, <2>1, ReadySource DEF TypeOK
<1> QED
  BY <1>1, <1>2, BegunStep

LEMMA JoinsStep ==
    ASSUME TypeOK, Agreement, [Next]_vars, JoinsDoNotWait
    PROVE  JoinsDoNotWait'
<1> SUFFICES ASSUME NEW n \in wf.nodes, wf.kind[n] = "join"
             PROVE  /\ "waiting_for_approval" \notin {node'[n], db'.node[n]}
                    /\ task'[n] # "waiting"
  BY WorkflowIsFixed DEF JoinsDoNotWait
<1>0. n \in Node
  BY WorkflowNodes DEF TypeOK
<1>g. "waiting_for_approval" \notin {node[n], db.node[n]} /\ task[n] # "waiting"
  BY DEF JoinsDoNotWait
<1>1. node'[n] # "waiting_for_approval"
  BY <1>0, <1>g, NodeMoves DEF MarkRunning, TypeOK
<1>2. db'.node[n] # "waiting_for_approval"
  BY <1>0, <1>g, <1>1, SavesAreOfMemory
<1>3. task'[n] # "waiting"
  <2>1. CASE TaskStep(n)
    BY <1>0, <2>1
    DEF TaskStep, TaskStart, BudgetCheck, WorkSucceeds, WorkFails, IsWork,
        WorkNeedsApproval, TaskRetry, ConsultGate, GateFails, RunJoin, PassThrough, BeginAttempt,
        MarkRunning, Settle, TypeOK
  <2> QED
    BY <1>0, <1>g, <2>1, TaskMoves
<1> QED
  BY <1>1, <1>2, <1>3

LEMMA SweptStep ==
    ASSUME TypeOK, Agreement, [Next]_vars, Swept
    PROVE  Swept'
<1>n. /\ wf \in Workflows /\ wf.nodes \subseteq Node
      /\ \A e \in wf.edges : e.src \in Node
  BY WorkflowNodes DEF TypeOK
<1>f. wf' = wf /\ holds' = holds /\ Entries' = Entries
  BY ShapeIsFixed
<1>a. pc \in {"gather", "apply"} => steps > 0
  BY DEF Swept
<1>u. ASSUME UNCHANGED <<node, pc, steps>> PROVE Swept'
  BY <1>f, <1>u DEF Swept
<1>o. ASSUME pc' \in {"idle", "finish"} \/ (pc' = "loop" /\ steps' = 0) PROVE Swept'
  BY <1>o DEF Swept
<1>g. ASSUME pc' \in {"gather", "apply"}, pc \in {"gather", "apply"}, steps' = steps
      PROVE  Swept'
  BY <1>a, <1>g DEF Swept
<1>e. ASSUME NEW target, NEW nodes, EndRun(target, nodes) PROVE Swept'
  BY <1>e, <1>o DEF EndRun, Unload
<1>1. CASE Start \/ Resume
  BY <1>1, <1>o DEF Start, Resume, EnterLoop
<1>2. CASE Launch
  BY <1>2 DEF Launch, Swept, TypeOK
<1>3. CASE StopInLoop \/ Finish
  BY <1>3, <1>e DEF StopInLoop, Finish, HandleCancellation, HandleBudgetExhaustion
<1>4. CASE LeaveLoop
  BY <1>4, <1>o DEF LeaveLoop, BeginFinish
<1>5. CASE Gather
  BY <1>5, <1>e, <1>g DEF Gather, HandleCancellation, HandleBudgetExhaustion
<1>6. CASE EndApply
  <2>1. CASE Unload \/ BeginFinish
    BY <2>1, <1>o DEF Unload, BeginFinish
  <2>2. CASE /\ node' = SkipUnreachable(wf, node, holds)
             /\ pc' = "loop" /\ steps' = steps
    <3> SUFFICES ASSUME NEW n \in wf.nodes, node'[n] = "pending", n \notin Entries
                 PROVE  \E e \in Inbound(wf, n) :
                           node'[e.src] # "succeeded" \/ e \in holds
      BY <1>f, <2>2 DEF Swept
    <3>1. n \in Node /\ Inbound(wf, n) # {} /\ \A e \in Inbound(wf, n) : e.src \in Node
      BY <1>n DEF Entries, Inbound
    <3> QED
      BY <2>2, <3>1, PassSweeps DEF TypeOK
  <2> QED
    BY <1>6, <2>1, <2>2 DEF EndApply
<1>7. CASE Crash
  BY <1>7, <1>o DEF Crash, Unload
<1>8. ASSUME NEW m \in wf.nodes, TaskStep(m) PROVE Swept'
  BY <1>8, <1>g, TaskShape
<1>9. ASSUME NEW m \in wf.nodes, ApplyWaiting(m) \/ ApplyResult(m) PROVE Swept'
  BY <1>9, <1>e, <1>g DEF ApplyWaiting, ApplyResult, FailRun, ApplyFrame
<1>10. CASE Cancel \/ (\E m \in wf.nodes : Decide(m)) \/ UNCHANGED vars
  BY <1>10, <1>u DEF Cancel, Decide, memory, run, vars
<1> QED
  BY <1>1, <1>2, <1>3, <1>4, <1>5, <1>6, <1>7, <1>8, <1>9, <1>10 DEF Next, RunStep

LEMMA StepsStep ==
    ASSUME TypeOK, Agreement, [Next]_vars, StepsAreNodes
    PROVE  StepsAreNodes'
<1> DEFINE Spent == NotRunnable \cup ReadySet
<1>n. wf.nodes \subseteq Node /\ IsFiniteSet(wf.nodes)
  BY WorkflowNodes, ConstantsAssumption, FS_Subset DEF ConstantsAssumption, TypeOK
<1>f. wf' = wf
  BY WorkflowIsFixed
<1>c. /\ Spent \in SUBSET wf.nodes /\ Spent' \in SUBSET wf.nodes
      /\ IsFiniteSet(Spent) /\ IsFiniteSet(Spent')
      /\ Cardinality(Spent) \in Nat /\ Cardinality(Spent') \in Nat
  <2>1. Spent \in SUBSET wf.nodes /\ Spent' \in SUBSET wf.nodes
    BY <1>f DEF NotRunnable, ReadySet
  <2> HIDE DEF Spent
  <2>2. IsFiniteSet(Spent) /\ IsFiniteSet(Spent')
    BY <1>n, <2>1, FS_Subset
  <2> QED
    BY <2>1, <2>2, FS_CardinalityType
<1>i. pc \in {"loop", "gather", "apply"} /\ status = "running" => steps <= Cardinality(Spent)
  BY DEF StepsAreNodes
<1>p. ASSUME pc' \in {"loop", "gather", "apply"} /\ status' = "running" =>
                steps' <= Cardinality(Spent')
      PROVE  StepsAreNodes'
  BY <1>p DEF StepsAreNodes
<1>o. ASSUME pc' \in {"idle", "finish"} \/ status' # "running" \/ steps' = 0
      PROVE  StepsAreNodes'
  <2> HIDE DEF Spent
  <2> QED
    BY <1>c, <1>o, <1>p
<1>k. ASSUME pc \in {"loop", "gather", "apply"}, status' = "running" => status = "running",
             steps' = steps,
             \A n \in wf.nodes :
                node[n] \notin RunnableNodeStatus \/ task[n] # "none" =>
                   node'[n] \notin RunnableNodeStatus \/ task'[n] # "none"
      PROVE  StepsAreNodes'
  <2>1. Spent \in SUBSET Spent'
    BY <1>f, <1>k DEF NotRunnable, ReadySet
  <2> HIDE DEF Spent
  <2>2. Cardinality(Spent) <= Cardinality(Spent')
    BY <1>c, <2>1, FS_Subset
  <2>3. steps \in Nat
    BY DEF TypeOK
  <2> QED
    BY <1>c, <1>i, <1>k, <1>p, <2>2, <2>3
<1>e. ASSUME NEW target, NEW nodes, EndRun(target, nodes) PROVE StepsAreNodes'
  BY <1>e, <1>o DEF EndRun, Unload
<1>1. CASE Start \/ Resume
  BY <1>1, <1>o DEF Start, Resume, EnterLoop
<1>2. CASE Launch
  <2>1. PICK k : k \in ReadyNodes(wf, node, holds)
    BY <1>2 DEF Launch
  <2>2. k \in wf.nodes /\ k \in Node /\ node[k] \in RunnableNodeStatus
    BY <1>n, <2>1 DEF ReadyNodes
  <2>3. \A n \in Node : task[n] = "none"
    BY <1>2 DEF Launch, Agreement, TasksAreOpen
  <2>4. k \notin Spent
    BY <2>2, <2>3 DEF NotRunnable, ReadySet
  <2>5. Spent \cup {k} \in SUBSET Spent'
    <3>1. task'[k] = "queued" /\ node' = node
      BY <1>2, <2>1, <2>2 DEF Launch, memory
    <3>2. ReadySet = {}
      BY <1>n, <2>3 DEF ReadySet
    <3> QED
      BY <1>f, <2>2, <3>1, <3>2 DEF NotRunnable, ReadySet
  <2> HIDE DEF Spent
  <2>6. Cardinality(Spent \cup {k}) = Cardinality(Spent) + 1
    BY <1>c, <2>4, FS_AddElement
  <2>7. Cardinality(Spent \cup {k}) <= Cardinality(Spent')
    BY <1>c, <2>5, FS_Subset
  <2>8. pc = "loop" /\ steps' = steps + 1 /\ status' = status /\ steps \in Nat
    BY <1>2 DEF Launch, memory, TypeOK
  <2> QED
    BY <1>c, <1>i, <1>p, <2>6, <2>7, <2>8
<1>3. CASE StopInLoop \/ Finish
  BY <1>3, <1>e DEF StopInLoop, Finish, HandleCancellation, HandleBudgetExhaustion
<1>4. CASE LeaveLoop
  BY <1>4, <1>o DEF LeaveLoop, BeginFinish
<1>5. CASE Gather
  <2>1. CASE UNCHANGED memory /\ UNCHANGED <<steps, task>>
    BY <1>5, <1>k, <2>1 DEF Gather, memory
  <2> QED
    BY <1>5, <1>e, <2>1 DEF Gather, HandleCancellation, HandleBudgetExhaustion
<1>6. CASE EndApply
  <2>1. CASE Unload \/ BeginFinish
    BY <2>1, <1>o DEF Unload, BeginFinish
  <2>2. CASE /\ node' = SkipUnreachable(wf, node, holds)
             /\ UNCHANGED <<status, steps, task>>
    <3>1. \A n \in Node : node'[n] = node[n] \/ node'[n] = "skipped"
      BY <2>2, SkipsArePending DEF TypeOK
    <3> QED
      BY <1>6, <1>k, <1>n, <2>2, <3>1 DEF EndApply, RunnableNodeStatus
  <2> QED
    BY <1>6, <2>1, <2>2 DEF EndApply
<1>7. CASE Crash
  BY <1>7, <1>o DEF Crash, Unload
<1>8. ASSUME NEW m \in wf.nodes, TaskStep(m) PROVE StepsAreNodes'
  <2>1. \A n \in Node : \/ node'[n] = node[n]
                        \/ node'[n] \in {"running", "cancelled"}
    BY <1>8, TaskShape
  <2>2. /\ pc = "gather" /\ UNCHANGED <<status, steps>>
        /\ \A n \in Node : task'[n] = "none" <=> task[n] = "none"
    BY <1>8, TaskShape
  <2> QED
    BY <1>k, <1>n, <2>1, <2>2 DEF RunnableNodeStatus
<1>9. ASSUME NEW m \in wf.nodes, ApplyWaiting(m) PROVE StepsAreNodes'
  BY <1>9, <1>e, <1>o DEF ApplyWaiting, FailRun
<1>10. ASSUME NEW m \in wf.nodes, ApplyResult(m) PROVE StepsAreNodes'
  <2>1. \A n \in Node : IF n = m THEN node'[n] \in {"succeeded", "failed"}
                        ELSE node'[n] = node[n] /\ task'[n] = task[n]
    BY <1>10, <1>n DEF ApplyResult, ApplyFrame, TypeOK
  <2> QED
    BY <1>10, <1>k, <1>n, <2>1 DEF ApplyResult, ApplyFrame, RunnableNodeStatus
<1>11. CASE Cancel \/ (\E m \in wf.nodes : Decide(m)) \/ UNCHANGED vars
  <2>1. UNCHANGED <<node, task, pc, steps, status>>
    BY <1>11 DEF Cancel, Decide, memory, run, vars
  <2>2. CASE pc \in {"loop", "gather", "apply"}
    BY <1>k, <2>1, <2>2
  <2>3. CASE pc \in {"idle", "finish"}
    BY <1>o, <2>1, <2>3
  <2> QED
    BY <2>2, <2>3 DEF TypeOK
<1> QED
  BY <1>1, <1>2, <1>3, <1>4, <1>5, <1>6, <1>7, <1>8, <1>9, <1>10, <1>11 DEF Next, RunStep

LEMMA LostStep ==
    ASSUME TypeOK, Agreement, WaitersHaveRequests, NewRowIsFresh, Swept,
           [Next]_vars, crashes' = crashes, NothingIsLost
    PROVE  NothingIsLost'
<1>n. wf.nodes \subseteq Node /\ wf' = wf
  BY WorkflowNodes, WorkflowIsFixed DEF TypeOK
<1>a. /\ db.status \notin TerminalExecutionStatus =>
            \A n \in Node : node[n] = "running" => task[n] # "none"
      /\ pc = "idle" => db.status # "running"
      /\ pc = "apply" /\ status = "waiting_for_approval" => db.node = node
      /\ pc = "loop" /\ steps = 0 =>
            \/ \A n \in Node : node[n] = "pending"
            \/ \E n \in wf.nodes : node[n] = "waiting_for_approval"
  BY DEF NothingIsLost
<1>b. pc # "idle" => db.status \notin TerminalExecutionStatus
  BY DEF Agreement, RowIsInMemory
<1>c. pc \notin {"gather", "apply"} => \A n \in Node : task[n] = "none"
  BY DEF Agreement, TasksAreOpen
<1>d. pc \notin {"idle", "gather", "apply"} => \A n \in Node : node[n] # "running"
  BY <1>a, <1>b, <1>c
<1>e. ASSUME NEW target \in TerminalExecutionStatus, NEW nodes, EndRun(target, nodes)
      PROVE  NothingIsLost'
  BY <1>e DEF EndRun, Unload, NothingIsLost, TerminalExecutionStatus
<1>t. {"cancelled", "budget_exceeded", "failed", "succeeded"} \subseteq TerminalExecutionStatus
  BY DEF TerminalExecutionStatus
<1>1. CASE Start
  <2>1. \A n \in Node : node'[n] = "pending"
    BY <1>1 DEF Start, EnterLoop, NewRowIsFresh
  <2>2. pc' = "loop"
    BY <1>1 DEF Start, EnterLoop
  <2> QED
    BY <2>1, <2>2 DEF NothingIsLost
<1>2. CASE Resume
  <2>1. /\ pc' = "loop" /\ UNCHANGED <<db, node, task>>
        /\ pc = "idle" /\ db.status \notin TerminalExecutionStatus
    BY <1>2 DEF Resume, EnterLoop, Resumable
  <2>2. db.status \in {"pending", "waiting_for_approval"}
    BY <1>a, <2>1 DEF TypeOK, Snapshot, ExecutionStatus, TerminalExecutionStatus
  <2>3. \/ \A n \in Node : node'[n] = "pending"
        \/ \E n \in wf.nodes : node'[n] = "waiting_for_approval"
    <3>1. CASE db.status = "pending"
      BY <2>1, <3>1 DEF NewRowIsFresh
    <3>2. CASE db.status = "waiting_for_approval"
      <4>1. \E n \in wf.nodes : db.node[n] = "waiting_for_approval"
        BY <3>2 DEF WaitersHaveRequests
      <4>2. node' = db.node
        BY <2>1 DEF Agreement, RowIsInMemory
      <4> QED
        BY <4>1, <4>2
    <3> QED
      BY <2>2, <3>1, <3>2
  <2> QED
    BY <1>a, <1>n, <2>1, <2>3 DEF NothingIsLost
<1>3. CASE Launch
  <2>1. node' = node /\ pc = "loop" /\ pc' = "gather"
    BY <1>3 DEF Launch, memory
  <2> QED
    BY <1>d, <2>1 DEF NothingIsLost
<1>4. CASE LeaveLoop
  <2>1. node' = node /\ pc = "loop" /\ pc' = "finish"
    BY <1>4 DEF LeaveLoop, BeginFinish
  <2> QED
    BY <1>d, <2>1 DEF NothingIsLost
<1>5. CASE StopInLoop
  BY <1>5, <1>e, <1>t DEF StopInLoop, HandleCancellation, HandleBudgetExhaustion
<1>6. CASE Finish
  BY <1>6, <1>e, <1>t DEF Finish
<1>7. CASE Gather
  <2>1. CASE pc' = "apply" /\ UNCHANGED <<memory, task, db>>
    <3>1. status' = "running" /\ node' = node /\ db.status \notin TerminalExecutionStatus
      BY <1>7, <1>b, <2>1 DEF Gather, memory, Agreement, StatusFollowsRun
    <3> QED
      BY <1>a, <2>1, <3>1 DEF NothingIsLost
  <2> QED
    BY <1>7, <1>e, <1>t, <2>1 DEF Gather, HandleCancellation, HandleBudgetExhaustion
<1>8. CASE EndApply
  <2>1. pc = "apply" /\ \A n \in Node : task[n] = "none"
    BY <1>8 DEF EndApply, ReadySet, Agreement, TasksAreOpen
  <2>2. \A n \in Node : node[n] # "running"
    BY <1>a, <1>b, <2>1
  <2>3. CASE status = "waiting_for_approval" /\ UNCHANGED db /\ Unload
    <3>1. pc' = "idle" /\ node' = node /\ db.status = "waiting_for_approval"
      BY <1>a, <2>1, <2>3 DEF Unload, Agreement, StatusFollowsRun
    <3> QED
      BY <2>2, <2>3, <3>1 DEF NothingIsLost
  <2>4. CASE /\ node' = SkipUnreachable(wf, node, holds)
             /\ pc' = "finish" \/ (pc' = "loop" /\ steps' = steps)
    <3>1. \A n \in Node : node'[n] # "running"
      BY <2>2, <2>4, SkipsArePending DEF TypeOK
    <3>2. ~(pc' = "loop" /\ steps' = 0)
      BY <2>1, <2>4 DEF Swept, TypeOK
    <3> QED
      BY <2>4, <3>1, <3>2 DEF NothingIsLost
  <2> QED
    BY <1>8, <2>3, <2>4 DEF EndApply, BeginFinish
<1>9. ASSUME NEW m \in wf.nodes, TaskStep(m) PROVE NothingIsLost'
  <2>1. /\ pc' = "gather" /\ status' = "running" /\ UNCHANGED db
        /\ db.status \notin TerminalExecutionStatus
    BY <1>9, <1>b, TaskShape DEF Agreement, StatusFollowsRun
  <2>2. \A n \in Node : node'[n] = "running" => task'[n] # "none"
    BY <1>9, <1>a, <2>1, TaskShape
  <2> QED
    BY <2>1, <2>2 DEF NothingIsLost
<1>10. ASSUME NEW m \in wf.nodes, ApplyWaiting(m) \/ ApplyResult(m) PROVE NothingIsLost'
  <2>0. pc = "apply" /\ db.status \notin TerminalExecutionStatus
    BY <1>10, <1>b DEF ApplyWaiting, ApplyResult
  <2>1. ASSUME ApplyFrame(m), NEW r, r # "running", node' = [node EXCEPT ![m] = r]
        PROVE  NothingIsLost'
    <3>1. pc' = "apply" /\ db'.node = node'
      BY <2>0, <2>1 DEF ApplyFrame, Save
    <3>2. \A n \in Node : node'[n] = "running" => n # m /\ node[n] = "running"
      BY <2>1, <1>n DEF TypeOK
    <3>3. \A n \in Node : n # m => task'[n] = task[n]
      BY <2>1 DEF ApplyFrame, TypeOK
    <3>4. \A n \in Node : node'[n] = "running" => task'[n] # "none"
      BY <1>a, <2>0, <3>2, <3>3
    <3> QED
      BY <3>1, <3>4 DEF NothingIsLost
  <2>2. CASE ApplyResult(m)
    <3>1. /\ ApplyFrame(m) /\ task[m] # "running"
          /\ node' = [node EXCEPT ![m] = task[m]]
      BY <2>2 DEF ApplyResult
    <3> QED
      BY <2>1, <3>1
  <2>3. CASE ApplyWaiting(m)
    <3>1. CASE FailRun(m)
      BY <1>e, <1>t, <3>1 DEF FailRun
    <3>2. CASE ApplyFrame(m) /\ node' = [node EXCEPT ![m] = "waiting_for_approval"]
      BY <2>1, <3>2
    <3> QED
      BY <2>3, <3>1, <3>2 DEF ApplyWaiting
  <2> QED
    BY <1>10, <2>2, <2>3
<1>11. CASE Cancel \/ (\E m \in wf.nodes : Decide(m)) \/ UNCHANGED vars
  <2>1. UNCHANGED <<db, node, task, pc, steps, status>>
    BY <1>11 DEF Cancel, Decide, memory, run, vars
  <2> QED
    BY <1>n, <1>a, <2>1 DEF NothingIsLost
<1>12. CASE Crash
  BY <1>12 DEF Crash, TypeOK
<1> QED
  BY <1>1, <1>2, <1>3, <1>4, <1>5, <1>6, <1>7, <1>8, <1>9, <1>10, <1>11, <1>12
  DEF Next, RunStep

\* A run comes to its end from the loop, or over a failure that blocks.
LEMMA FinishComes ==
    ASSUME TypeOK, [Next]_vars, pc' = "finish"
    PROVE  \/ pc = "finish" /\ node' = node
           \/ LeaveLoop
           \/ BlockingFailures(node') # {}
<1>e. ~Unload
  BY DEF Unload
<1>1. ASSUME NEW m \in wf.nodes, TaskStep(m) PROVE FALSE
  BY <1>1, TaskShape
<1>2. CASE EndApply
  BY <1>2, <1>e DEF EndApply
<1> QED
  BY <1>e, <1>1, <1>2
  DEF Next, RunStep, Launch, StopInLoop, Gather, Finish, HandleCancellation,
      HandleBudgetExhaustion, EndRun, Start, Resume, EnterLoop, Cancel, Crash, Decide,
      ApplyWaiting, ApplyResult, FailRun, ApplyFrame, memory, run, vars

\* A success is the verdict of _finish.
LEMMA SuccessComes ==
    ASSUME TypeOK, Agreement, [Next]_vars, db'.status = "succeeded"
    PROVE  \/ db' = db
           \/ pc = "finish" /\ BlockingFailures(node) = {} /\ db'.node = node
<1>e. ASSUME NEW target, NEW nodes, EndRun(target, nodes) PROVE target = "succeeded"
  BY <1>e DEF EndRun
<1>1. CASE Start
  BY <1>1 DEF Start, EnterLoop, Save
<1>2. CASE Launch
  BY <1>2 DEF Launch, Save, memory, Agreement, StatusFollowsRun
<1>3. CASE StopInLoop \/ Gather
  BY <1>3, <1>e DEF StopInLoop, Gather, HandleCancellation, HandleBudgetExhaustion
<1>4. CASE LeaveLoop
  BY <1>4 DEF LeaveLoop, BeginFinish, Save, Agreement, StatusFollowsRun
<1>5. CASE EndApply
  <2>1. db' = db \/ BeginFinish
    BY <1>5 DEF EndApply
  <2> QED
    BY <1>5, <2>1 DEF EndApply, BeginFinish, Save, Agreement, StatusFollowsRun
<1>6. CASE Finish
  BY <1>6, <1>e DEF Finish, EndRun
<1>7. ASSUME NEW m \in wf.nodes, TaskStep(m) PROVE db' = db
  BY <1>7, TaskShape
<1>8. ASSUME NEW m \in wf.nodes, ApplyWaiting(m) \/ ApplyResult(m) PROVE FALSE
  BY <1>8, <1>e DEF ApplyWaiting, ApplyResult, FailRun, ApplyFrame, Save, Agreement,
                    StatusFollowsRun
<1>9. CASE Resume \/ Cancel \/ Crash \/ (\E n \in wf.nodes : Decide(n)) \/ UNCHANGED vars
  BY <1>9 DEF Resume, Cancel, Crash, Decide, vars
<1> QED
  BY <1>1, <1>2, <1>3, <1>4, <1>5, <1>6, <1>7, <1>8, <1>9 DEF Next, RunStep

LEMMA EarnedStep ==
    ASSUME TypeOK, Agreement, TaskInputsAreDurable, WaitersHaveRequests, NewRowIsFresh,
           PathsAreKept, SuccessIsEarned, [Next]_vars
    PROVE  SuccessIsEarned'
<1>f. wf' = wf
  BY WorkflowIsFixed
<1>a. /\ BegunOnAnInput /\ JoinsDoNotWait /\ StepsAreNodes /\ Swept
      /\ \A e \in wf.edges : ~e.cond => e \in holds
  BY DEF SuccessIsEarned, PathsAreKept
<1>1. BegunOnAnInput' /\ JoinsDoNotWait' /\ StepsAreNodes' /\ Swept'
  BY <1>a, OnAnInputStep, JoinsStep, StepsStep, SweptStep
<1>c. crashes' = 0 => crashes = 0 /\ crashes' = crashes
  <2>1. crashes' = crashes \/ crashes' = crashes + 1
    <3>1. ASSUME NEW m \in wf.nodes, TaskStep(m) PROVE crashes' = crashes
      BY <3>1, TaskShape
    <3> QED
      BY <3>1 DEF Next, RunStep, Launch, StopInLoop, LeaveLoop, Gather, EndApply, Finish,
         Start, Resume, Cancel, Crash, Decide, ApplyWaiting, ApplyResult, vars
  <2> QED
    BY <2>1 DEF TypeOK
<1>2. crashes' = 0 => NothingIsLost'
  BY <1>a, <1>c, LostStep DEF SuccessIsEarned
<1>q. QuorumsAreFirm' <=> QuorumsAreFirm
  BY <1>f DEF QuorumsAreFirm
<1>3. ASSUME crashes' = 0, QuorumsAreFirm', Cardinality(wf'.nodes) <= MaxSteps
      PROVE  /\ pc' = "finish" /\ BlockingFailures(node') = {} => CompleteIn(node')
             /\ db'.status = "succeeded" => CompleteIn(db'.node)
  <2>1. QuorumsAreFirm /\ Cardinality(wf.nodes) <= MaxSteps /\ crashes = 0
    BY <1>3, <1>c, <1>f, <1>q
  <2>2. /\ NothingIsLost
        /\ pc = "finish" /\ BlockingFailures(node) = {} => CompleteIn(node)
        /\ db.status = "succeeded" => CompleteIn(db.node)
    BY <2>1 DEF SuccessIsEarned
  <2>3. LeaveLoop => CompleteIn(node) /\ node' = node
    BY <1>a, <2>1, <2>2, LoopEndsComplete DEF LeaveLoop
  <2>4. pc' = "finish" /\ BlockingFailures(node') = {} => CompleteIn(node')
    BY <2>2, <2>3, FinishComes
  <2>5. db'.status = "succeeded" => CompleteIn(db'.node)
    BY <2>2, SuccessComes
  <2> QED
    BY <2>4, <2>5
<1>4. /\ (BlockingFailures(node))' = BlockingFailures(node')
      /\ CompleteIn(node)' <=> CompleteIn(node')
      /\ CompleteIn(db.node)' <=> CompleteIn(db'.node)
  BY <1>f DEF BlockingFailures, CompleteIn, AbandonedIn
<1> QED
  BY <1>1, <1>2, <1>3, <1>4 DEF SuccessIsEarned

\* Without a crash a success leaves nothing behind: the loop ends where every
\* node has settled or hangs on one that did not succeed, since of the others
\* one whose sources all succeeded would be ready.
THEOREM SuccessIsComplete == Spec => []CrashFreeSuccessIsComplete
<1>1. Init => SuccessIsEarned
  <2> SUFFICES ASSUME Init PROVE SuccessIsEarned
    OBVIOUS
  <2>0. wf.nodes \subseteq Node
    BY WorkflowNodes DEF Init
  <2>1. /\ \A n \in Node : /\ node[n] = "pending" /\ db.node[n] = "pending"
                           /\ task[n] = "none" /\ calls[n] = 0
        /\ pc = "idle" /\ db.status = "pending"
    BY DEF Init, NoTasks
  <2>2. BegunOnAnInput /\ JoinsDoNotWait
    BY <2>0, <2>1 DEF BegunOnAnInput, JoinsDoNotWait, Begun
  <2>3. StepsAreNodes /\ Swept /\ NothingIsLost
    BY <2>1 DEF StepsAreNodes, Swept, NothingIsLost
  <2> QED
    BY <2>1, <2>2, <2>3 DEF SuccessIsEarned
<1>2. /\ TypeOK /\ Agreement /\ TaskInputsAreDurable /\ WaitersHaveRequests
      /\ AttemptsAreCounted /\ PathsAreKept /\ SuccessIsEarned /\ [Next]_vars
      => SuccessIsEarned'
  BY EarnedStep DEF AttemptsAreCounted
<1>3. SuccessIsEarned => CrashFreeSuccessIsComplete
  BY DEF SuccessIsEarned, CrashFreeSuccessIsComplete, NothingLeftBehind, CompleteIn,
         Abandoned, AbandonedIn
<1> QED
  BY <1>1, <1>2, <1>3, TypeCorrect, AlwaysAgrees, InputsAreKept, WaitersAreKept,
     DispatchesAreCounted, PathsAreAlwaysKept, PTL DEF Spec
===============================================================================
