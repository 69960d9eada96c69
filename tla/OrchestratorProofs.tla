-------------------------- MODULE OrchestratorProofs --------------------------
(***************************************************************************)
(* Proofs of the safety properties of Orchestrator, for any finite set of  *)
(* node ids, any plans and any bounds.                                     *)
(***************************************************************************)
EXTENDS Orchestrator, FiniteSetTheorems, WellFoundedInduction, TLAPS

\* An update of a snapshot is a snapshot.
LEMMA SnapshotUpdates ==
    ASSUME NEW m \in Snapshot
    PROVE  /\ \A s \in ExecutionStatus : [m EXCEPT !.status = s] \in Snapshot
           /\ \A f \in [Node -> NodeStatus] : [m EXCEPT !.node = f] \in Snapshot
           /\ \A w \in Workflow : [m EXCEPT !.wf = w] \in Snapshot
           /\ \A r \in [Node -> {"absent", "open", "barred"}] :
                 [m EXCEPT !.record = r] \in Snapshot
           /\ \A b \in BOOLEAN : [m EXCEPT !.over = b] \in Snapshot
           /\ [m EXCEPT !.replans = @ + 1] \in Snapshot
BY DEF Snapshot

LEMMA SeedIsTyped == Seed \in Workflow
<1>1. [n \in Node |-> IF n = Final THEN "terminal" ELSE "agent"] \in [Node -> NodeKind]
  BY DEF NodeKind
<1>2. [n \in Node |-> "all"] \in [Node -> JoinPolicy]
  BY DEF JoinPolicy
<1> QED
  BY <1>1, <1>2, OrchestratorAssumption DEF OrchestratorAssumption, Seed, Workflow

\* Edges between nodes.
LEMMA EdgesAreTyped ==
    ASSUME NEW S \in SUBSET Node, NEW T \in SUBSET Node
    PROVE  {To(s, d) : s \in S, d \in T} \subseteq Edge
<1>1. \A s, d \in Node : To(s, d) \in Edge
  BY DEF To, Edge
<1>2. ASSUME NEW e \in {To(s, d) : s \in S, d \in T} PROVE e \in Edge
  <2>1. PICK s \in S, d \in T : e = To(s, d)
    OBVIOUS
  <2> QED
    BY <1>1, <2>1
<1> QED
  BY <1>2

\* A delegation and a merged plan are workflows.
LEMMA DelegatedIsTyped ==
    ASSUME NEW w \in Workflow, NEW new \in SUBSET Node
    PROVE  Delegated(w, new) \in Workflow /\ Delegated(w, new).nodes = w.nodes \cup new
<1>1. Frontier(w) \subseteq Node
  BY DEF Frontier, Workflow
<1>2. {To(s, d) : s \in Frontier(w), d \in new} \subseteq Edge
  BY <1>1, EdgesAreTyped
<1>3. {To(s, Final) : s \in new} \subseteq Edge
  <2>1. Final \in Node
    BY OrchestratorAssumption DEF OrchestratorAssumption
  <2>2. \A s \in new : To(s, Final) \in Edge
    BY <2>1 DEF To, Edge
  <2> QED
    BY <2>2
<1> DEFINE edges == w.edges \cup {To(s, d) : s \in Frontier(w), d \in new}
                           \cup {To(s, Final) : s \in new}
<1>4. edges \in SUBSET Edge
  BY <1>2, <1>3 DEF Workflow
<1>5. Delegated(w, new) = [w EXCEPT !.nodes = @ \cup new, !.edges = edges]
  BY DEF Delegated
<1> HIDE DEF edges
<1> QED
  BY <1>4, <1>5 DEF Workflow

LEMMA MergedIsTyped ==
    ASSUME NEW w \in Workflow, NEW p \in Plan
    PROVE  Merged(w, p) \in Workflow /\ Merged(w, p).nodes = w.nodes \cup p.nodes
<1> DEFINE loose == {n \in p.nodes : \A e \in p.edges : e.dst # n}
           kind == [n \in Node |-> IF n \in p.nodes THEN p.kind[n] ELSE w.kind[n]]
           policy == [n \in Node |-> IF n \in p.nodes THEN p.policy ELSE w.policy[n]]
           edges == w.edges \cup p.edges \cup {To(s, d) : s \in p.attach, d \in loose}
<1>1. {To(s, d) : s \in p.attach, d \in loose} \subseteq Edge
  BY EdgesAreTyped DEF Plan
<1>2. kind \in [Node -> NodeKind]
  BY DEF Plan, Workflow
<1>3. policy \in [Node -> JoinPolicy]
  BY DEF Plan, Workflow
<1>4. p.nodes \subseteq Node /\ edges \in SUBSET Edge
  BY <1>1 DEF Plan, Workflow
<1>5. Merged(w, p) =
        [w EXCEPT !.nodes = @ \cup p.nodes, !.kind = kind, !.policy = policy,
                  !.edges = edges]
  BY DEF Merged
<1> HIDE DEF loose, kind, policy, edges
<1> QED
  BY <1>2, <1>3, <1>4, <1>5 DEF Workflow

------------------------------------------------------------------------------
(* Types.                                                                   *)

\* The end of an execution keeps the types, given that what memory holds does.
LEMMA ConcludeIsTyped ==
    ASSUME TypeOK, NEW target \in TerminalExecutionStatus, NEW m \in Snapshot,
           Conclude(target, m), UNCHANGED <<approval, crashes, resumes>>
    PROVE  TypeOK'
<1>1. [m EXCEPT !.status = target] \in Snapshot
  BY SnapshotUpdates DEF TerminalExecutionStatus, ExecutionStatus
<1> QED
  BY <1>1 DEF TypeOK, Conclude, Unload, NoResults

LEMMA AbortIsTyped ==
    ASSUME TypeOK, NEW nodes \in [Node -> NodeStatus],
           Abort(nodes), UNCHANGED <<approval, crashes, resumes>>
    PROVE  TypeOK'
<1>1. [mem EXCEPT !.status = "failed", !.node = nodes, !.wf = base] \in Snapshot
  BY DEF TypeOK, Snapshot, ExecutionStatus
<1> QED
  BY <1>1 DEF TypeOK, Abort, Unload, NoResults

LEMMA WithoutRunningIsTyped ==
    ASSUME NEW m \in Snapshot
    PROVE  WithoutRunning(m) \in Snapshot
BY DEF WithoutRunning, Snapshot, NodeStatus

LEMMA BegunIsTyped ==
    ASSUME TypeOK, NEW S \in SUBSET Node
    PROVE  Begun(S) \in Snapshot
<1>1. [n \in Node |-> IF n \in S THEN "running" ELSE mem.node[n]] \in [Node -> NodeStatus]
  BY DEF TypeOK, Snapshot, NodeStatus
<1>2. [n \in Node |-> IF n \in S /\ mem.record[n] = "absent" THEN "open"
                                                           ELSE mem.record[n]]
        \in [Node -> {"absent", "open", "barred"}]
  BY DEF TypeOK, Snapshot
<1> QED
  BY <1>1, <1>2 DEF TypeOK, Begun, Snapshot

LEMMA SkippedIsTyped ==
    ASSUME TypeOK
    PROVE  Skipped \in Snapshot
<1> DEFINE S == SkippedByPass(mem.wf, mem.node, mem.wf.edges)
<1>1. [n \in Node |-> IF n \in S THEN "skipped" ELSE mem.node[n]] \in [Node -> NodeStatus]
  BY DEF TypeOK, Snapshot, NodeStatus
<1>2. [n \in Node |-> IF n \in S THEN "open" ELSE mem.record[n]]
        \in [Node -> {"absent", "open", "barred"}]
  BY DEF TypeOK, Snapshot
<1>3. Skipped = [mem EXCEPT
          !.node = [n \in Node |-> IF n \in S THEN "skipped" ELSE @[n]],
          !.record = [n \in Node |-> IF n \in S THEN "open" ELSE @[n]]]
  BY DEF Skipped
<1> HIDE DEF S
<1> QED
  BY <1>1, <1>2, <1>3 DEF TypeOK, Snapshot

\* What a turn does before and after its round keeps the types.
LEMMA TurnIsTyped ==
    ASSUME TypeOK, AskSupervisor \/ CancelBetweenTurns \/ RunOutOfTurns \/ Pause
                   \/ Recover \/ Finalize
    PROVE  TypeOK'
<1>1. {"cancelled", "failed", "succeeded"} \subseteq TerminalExecutionStatus
  BY DEF TerminalExecutionStatus
<1>2. {"running", "waiting_for_approval"} \subseteq ExecutionStatus
  BY DEF ExecutionStatus
<1>3. mem \in Snapshot
  BY DEF TypeOK
<1>4. CASE AskSupervisor
  <2>1. PICK spent \in BOOLEAN : mem' = [mem EXCEPT !.over = @ \/ spent]
    BY <1>4 DEF AskSupervisor
  <2>2. (mem.over \/ spent) \in BOOLEAN
    OBVIOUS
  <2>3. mem' \in Snapshot
    BY <1>3, <2>1, <2>2, SnapshotUpdates
  <2> QED
    BY <1>4, <2>3 DEF AskSupervisor, CountTurn, TypeOK, history
<1>5. CASE CancelBetweenTurns
  BY <1>1, <1>3, <1>5, ConcludeIsTyped DEF CancelBetweenTurns
<1>6. CASE RunOutOfTurns
  BY <1>1, <1>3, <1>6, ConcludeIsTyped DEF RunOutOfTurns
<1>7. CASE Finalize
  BY <1>1, <1>3, <1>7, ConcludeIsTyped DEF Finalize
<1>8. CASE Pause
  <2>1. db' \in Snapshot
    BY <1>2, <1>3, <1>8, SnapshotUpdates DEF Pause
  <2> QED
    BY <1>8, <2>1 DEF Pause, Unload, NoResults, TypeOK, history
<1>9. CASE Recover
  <2>1. mem' \in Snapshot
    BY <1>2, <1>3, <1>9, SnapshotUpdates DEF Recover, RecalledStatus
  <2> QED
    BY <1>9, <2>1 DEF Recover, RoundFrame, Save, TypeOK, history
<1> QED
  BY <1>4, <1>5, <1>6, <1>7, <1>8, <1>9

LEMMA DecisionIsTyped ==
    ASSUME TypeOK, Decision
    PROVE  TypeOK'
<1>1. mem \in Snapshot /\ mem.wf \in Workflow /\ mem.node \in [Node -> NodeStatus]
  BY DEF TypeOK, Snapshot
<1>2. ASSUME NEW new \in SUBSET (Node \ mem.wf.nodes), Delegate(new) PROVE TypeOK'
  <2>1. Delegated(mem.wf, new) \in Workflow
    BY <1>1, DelegatedIsTyped
  <2>2. mem' \in Snapshot
    BY <1>1, <1>2, <2>1 DEF Delegate, Snapshot
  <2>3. mem.wf.nodes \in SUBSET Node
    BY <1>1 DEF Workflow
  <2>4. earlier' \in [Node -> SUBSET Node]
    BY <1>2, <2>3 DEF Delegate, TypeOK
  <2> QED
    BY <1>2, <2>2, <2>4 DEF Delegate, DecisionFrame, TypeOK
<1>3. ASSUME NEW n \in mem.wf.nodes, Retry(n) PROVE TypeOK'
  <2>1. n \in Node
    BY <1>1 DEF Workflow
  <2>2. mem' \in Snapshot
    BY <1>1, <1>3, <2>1 DEF Retry, Snapshot, NodeStatus
  <2> QED
    BY <1>3, <2>1, <2>2 DEF Retry, DecisionFrame, TypeOK
<1>4. ASSUME NEW p \in Plans, Replan(p) PROVE TypeOK'
  <2>1. p \in Plan
    BY OrchestratorAssumption DEF OrchestratorAssumption
  <2>2. Merged(mem.wf, p) \in Workflow
    BY <1>1, <2>1, MergedIsTyped
  <2>3. mem' \in Snapshot
    <3> DEFINE w == Merged(mem.wf, p)
    <3>1. mem' = [[mem EXCEPT !.wf = w] EXCEPT !.replans = @ + 1]
      BY <1>1, <1>4 DEF Replan, Snapshot
    <3>2. w \in Workflow
      BY <2>2
    <3> HIDE DEF w
    <3> QED
      BY <1>1, <3>1, <3>2, SnapshotUpdates
  <2>4. earlier' \in [Node -> SUBSET Node]
    BY <1>4 DEF Replan, TypeOK
  <2> QED
    BY <1>4, <2>3, <2>4 DEF Replan, Save, DecisionFrame, TypeOK
<1>5. ASSUME NEW p \in Plans, FailToReplan(p) PROVE TypeOK'
  BY <1>1, <1>5, AbortIsTyped DEF FailToReplan
<1>6. ASSUME NEW a \in ApprovalAction, AskHuman(a) PROVE TypeOK'
  BY <1>6 DEF AskHuman, Request, Save, TypeOK, history
<1>7. ASSUME NEW a \in ApprovalAction, AlreadyGranted(a) PROVE TypeOK'
  BY <1>7 DEF AlreadyGranted, TypeOK, history
<1>8. ASSUME NEW a \in ApprovalAction, Refused(a) PROVE TypeOK'
  BY <1>1, <1>8, ConcludeIsTyped DEF Refused, TerminalExecutionStatus
<1>9. CASE Finalize
  BY <1>9, TurnIsTyped
<1> QED
  BY <1>2, <1>3, <1>4, <1>5, <1>6, <1>7, <1>8, <1>9 DEF Decision

\* A round keeps the types.
LEMMA RoundIsTyped ==
    ASSUME TypeOK, StopRound \/ Launch \/ Drain \/ Gather \/ StopInGather \/ Finish
    PROVE  TypeOK'
<1>1. mem \in Snapshot
  BY DEF TypeOK
<1>2. {"cancelled", "budget_exceeded"} \subseteq TerminalExecutionStatus
  BY DEF TerminalExecutionStatus
<1>3. ReadySet \subseteq Node
  BY DEF ReadySet
<1>4. CASE StopRound
  <2>1. WithoutRunning(mem) \in Snapshot
    BY <1>1, WithoutRunningIsTyped
  <2> QED
    BY <1>1, <1>2, <1>4, <2>1, ConcludeIsTyped DEF StopRound
<1>5. CASE Launch
  BY <1>5 DEF Launch, Save, RoundFrame, TypeOK, history
<1>6. CASE Drain
  BY <1>6 DEF Drain, BeginFinish, Save, RoundFrame, TypeOK, history
<1>7. CASE Gather
  <2>1. PICK spent \in BOOLEAN : mem' = [Begun(ReadySet) EXCEPT !.over = @ \/ spent]
    BY <1>7 DEF Gather
  <2>2. Begun(ReadySet) \in Snapshot
    BY <1>3, BegunIsTyped
  <2>3. (Begun(ReadySet).over \/ spent) \in BOOLEAN
    OBVIOUS
  <2>4. mem' \in Snapshot
    BY <2>1, <2>2, <2>3, SnapshotUpdates
  <2>5. PICK outcome \in [ReadySet -> Outcome] :
          result' = [n \in Node |-> IF n \in ReadySet THEN outcome[n] ELSE "none"]
    BY <1>7 DEF Gather
  <2>6. result' \in [Node -> {"none", "queued"} \cup Outcome]
    BY <2>5
  <2> QED
    BY <1>7, <2>4, <2>6 DEF Gather, RoundFrame, TypeOK, history
<1>8. CASE StopInGather
  <2>1. PICK S \in SUBSET ReadySet :
          \/ Conclude("cancelled", WithoutRunning(Begun(S)))
          \/ Conclude("budget_exceeded", [Begun(S) EXCEPT !.over = TRUE])
    BY <1>8 DEF StopInGather
  <2>2. Begun(S) \in Snapshot
    BY <1>3, BegunIsTyped
  <2>3. WithoutRunning(Begun(S)) \in Snapshot /\ [Begun(S) EXCEPT !.over = TRUE] \in Snapshot
    BY <2>2, WithoutRunningIsTyped, SnapshotUpdates
  <2> QED
    BY <1>2, <1>8, <2>1, <2>3, ConcludeIsTyped DEF StopInGather
<1>9. CASE Finish
  <2>1. mem' \in Snapshot
    <3>1. (IF BlockingFailures(mem) # {} THEN "failed" ELSE "succeeded") \in ExecutionStatus
      BY DEF ExecutionStatus
    <3> QED
      BY <1>1, <1>9, <3>1, SnapshotUpdates DEF Finish
  <2> QED
    BY <1>9, <2>1 DEF Finish, Save, RoundFrame, TypeOK, history
<1> QED
  BY <1>4, <1>5, <1>6, <1>7, <1>8, <1>9

\* Folding in the outcomes keeps the types.
LEMMA FoldIsTyped ==
    ASSUME TypeOK,
           EndFold \/ \E n \in Node : FoldResult(n) \/ FoldPause(n) \/ FoldSecondPause(n)
    PROVE  TypeOK'
<1>1. mem \in Snapshot /\ mem.node \in [Node -> NodeStatus]
  BY DEF TypeOK, Snapshot
<1>2. ASSUME NEW n \in Node, FoldResult(n) PROVE TypeOK'
  <2>1. mem' \in Snapshot
    BY <1>1, <1>2 DEF FoldResult, Snapshot, NodeStatus
  <2> QED
    BY <1>2, <2>1 DEF FoldResult, FoldFrame, Save, RoundFrame, TypeOK, history
<1>3. ASSUME NEW n \in Node, FoldPause(n) PROVE TypeOK'
  <2>1. mem' \in Snapshot
    BY <1>1, <1>3 DEF FoldPause, Snapshot, NodeStatus, ExecutionStatus
  <2> QED
    BY <1>3, <2>1 DEF FoldPause, FoldFrame, Save, RoundFrame, TypeOK, history
<1>4. ASSUME NEW n \in Node, FoldSecondPause(n) PROVE TypeOK'
  <2>1. [mem.node EXCEPT ![n] = "waiting_for_approval"] \in [Node -> NodeStatus]
    BY <1>1 DEF NodeStatus
  <2> QED
    BY <1>4, <2>1, AbortIsTyped DEF FoldSecondPause
<1>5. CASE EndFold
  <2>1. Skipped \in Snapshot
    BY SkippedIsTyped
  <2> QED
    <3>1. CASE UNCHANGED <<db, approval, history, crashes, resumes>> /\ Unload
      BY <3>1 DEF Unload, NoResults, TypeOK, history
    <3>2. CASE mem' = Skipped /\ BeginFinish
      BY <2>1, <3>2 DEF BeginFinish, Save, RoundFrame, TypeOK, history
    <3>3. CASE mem' = Skipped /\ pc' = "round" /\ UNCHANGED <<db, result>> /\ RoundFrame
      BY <2>1, <3>3 DEF RoundFrame, TypeOK, history
    <3> QED
      BY <1>5, <3>1, <3>2, <3>3 DEF EndFold
<1> QED
  BY <1>2, <1>3, <1>4, <1>5

\* Every reachable state is well typed.
THEOREM TypeCorrect == Spec => []TypeOK
<1>1. Init => TypeOK
  <2> SUFFICES ASSUME Init PROVE TypeOK
    OBVIOUS
  <2>1. mem \in Snapshot
    BY SeedIsTyped DEF Init, Snapshot, ExecutionStatus, NodeStatus
  <2>2. limit \in Nat
    BY OrchestratorAssumption DEF OrchestratorAssumption, Init
  <2> QED
    BY SeedIsTyped, <2>1, <2>2 DEF Init, TypeOK, NoResults
<1>2. TypeOK /\ [Next]_vars => TypeOK'
  <2> SUFFICES ASSUME TypeOK, [Next]_vars PROVE TypeOK'
    OBVIOUS
  <2>1. mem \in Snapshot /\ mem.wf \in Workflow
    BY DEF TypeOK, Snapshot
  <2>2. CASE RunStep
    BY <2>2, TurnIsTyped, DecisionIsTyped, RoundIsTyped, FoldIsTyped DEF RunStep
  <2>3. CASE Start
    <3>1. mem' \in Snapshot
      BY <2>1, <2>3, SnapshotUpdates DEF Start, ExecutionStatus
    <3> QED
      BY <2>1, <2>3, <3>1, OrchestratorAssumption
         DEF Start, Save, OrchestratorAssumption, TypeOK, history
  <2>4. CASE Resume
    <3>1. mem' \in Snapshot
      BY <2>1, <2>4, SnapshotUpdates DEF Resume, ExecutionStatus
    <3> QED
      BY <2>1, <2>4, <3>1, OrchestratorAssumption
         DEF Resume, OrchestratorAssumption, TypeOK, history
  <2>5. CASE Cancel
    BY <2>5 DEF Cancel, TypeOK, history
  <2>6. CASE Crash
    <3>1. stranded' \in BOOLEAN
      BY <2>6 DEF Crash, TypeOK
    <3>2. crashes' \in Nat
      BY <2>6 DEF Crash, TypeOK
    <3>3. Unload /\ UNCHANGED <<db, approval, concluded, earlier, reopened, resumes>>
      BY <2>6 DEF Crash
    <3> QED
      BY <3>1, <3>2, <3>3 DEF Unload, NoResults, TypeOK
  <2>7. ASSUME NEW a \in ApprovalAction, Decide(a) PROVE TypeOK'
    BY <2>7 DEF Decide, run, TypeOK, history
  <2>8. CASE UNCHANGED vars
    BY <2>8 DEF vars, run, history, TypeOK
  <2> QED
    BY <2>2, <2>3, <2>4, <2>5, <2>6, <2>7, <2>8 DEF Next
<1> QED
  BY <1>1, <1>2, PTL DEF Spec

------------------------------------------------------------------------------
(* The status, in memory and in the row.                                    *)

Statuses == IdleIsItsRow /\ StatusFollowsLoop /\ OnlyTheWindowStrands

\* However an execution is ended, the row says so and nothing is on.
LEMMA EndsAreStatuses ==
    ASSUME TypeOK,
           \/ \E target \in TerminalExecutionStatus, m \in Snapshot : Conclude(target, m)
           \/ \E nodes \in [Node -> NodeStatus] : Abort(nodes)
    PROVE  Statuses'
<1>1. mem \in Snapshot
  BY DEF TypeOK
<1>2. ASSUME NEW target \in TerminalExecutionStatus, NEW m \in Snapshot, Conclude(target, m)
      PROVE  /\ db'.status = target /\ concluded' /\ pc' = "idle"
             /\ mem' = db' /\ result' = NoResults
  BY <1>2 DEF Conclude, Unload, Snapshot
<1>3. ASSUME NEW nodes \in [Node -> NodeStatus], Abort(nodes)
      PROVE  /\ db'.status = "failed" /\ concluded' /\ pc' = "idle"
             /\ mem' = db' /\ result' = NoResults
  BY <1>1, <1>3 DEF Abort, Unload, Snapshot
<1> QED
  BY <1>2, <1>3 DEF Statuses, IdleIsItsRow, StatusFollowsLoop, OnlyTheWindowStrands,
     TerminalExecutionStatus

\* The steps that end an execution.
Ending ==
    \/ CancelBetweenTurns \/ RunOutOfTurns \/ Finalize \/ StopRound \/ StopInGather
    \/ \E p \in Plans : FailToReplan(p)
    \/ \E a \in ApprovalAction : Refused(a)
    \/ \E n \in Node : FoldSecondPause(n)

LEMMA EndingEnds ==
    ASSUME TypeOK, Ending
    PROVE  \/ \E target \in TerminalExecutionStatus, m \in Snapshot : Conclude(target, m)
           \/ \E nodes \in [Node -> NodeStatus] : Abort(nodes)
<1>1. mem \in Snapshot /\ mem.node \in [Node -> NodeStatus]
  BY DEF TypeOK, Snapshot
<1>2. {"cancelled", "failed", "succeeded", "budget_exceeded"} \subseteq TerminalExecutionStatus
  BY DEF TerminalExecutionStatus
<1>3. CASE CancelBetweenTurns \/ RunOutOfTurns \/ Finalize
             \/ \E a \in ApprovalAction : Refused(a)
  BY <1>1, <1>2, <1>3 DEF CancelBetweenTurns, RunOutOfTurns, Finalize, Refused
<1>4. CASE StopRound
  BY <1>1, <1>2, <1>4, WithoutRunningIsTyped DEF StopRound
<1>5. CASE StopInGather
  <2>1. PICK S \in SUBSET ReadySet :
          \/ Conclude("cancelled", WithoutRunning(Begun(S)))
          \/ Conclude("budget_exceeded", [Begun(S) EXCEPT !.over = TRUE])
    BY <1>5 DEF StopInGather
  <2>2. Begun(S) \in Snapshot
    BY BegunIsTyped DEF ReadySet
  <2>3. WithoutRunning(Begun(S)) \in Snapshot /\ [Begun(S) EXCEPT !.over = TRUE] \in Snapshot
    BY <2>2, WithoutRunningIsTyped, SnapshotUpdates
  <2> QED
    BY <1>2, <2>1, <2>3
<1>6. CASE \E p \in Plans : FailToReplan(p)
  BY <1>1, <1>6 DEF FailToReplan
<1>7. CASE \E n \in Node : FoldSecondPause(n)
  <2>1. PICK n \in Node : FoldSecondPause(n)
    BY <1>7
  <2>2. [mem.node EXCEPT ![n] = "waiting_for_approval"] \in [Node -> NodeStatus]
    BY <1>1 DEF NodeStatus
  <2> QED
    BY <2>1, <2>2 DEF FoldSecondPause
<1> QED
  BY <1>3, <1>4, <1>5, <1>6, <1>7 DEF Ending

LEMMA StatusesHold ==
    ASSUME TypeOK, Statuses, [Next]_vars
    PROVE  Statuses'
<1>1. mem \in Snapshot /\ db \in Snapshot
  BY DEF TypeOK
<1> USE DEF Statuses, IdleIsItsRow, StatusFollowsLoop, OnlyTheWindowStrands, history
<1>2. CASE Ending
  BY <1>2, EndingEnds, EndsAreStatuses
<1>3. CASE AskSupervisor
  <2>1. mem'.status = mem.status
    BY <1>1, <1>3 DEF AskSupervisor, Snapshot
  <2> QED
    BY <1>3, <2>1 DEF AskSupervisor
<1>4. ASSUME NEW new \in SUBSET (Node \ mem.wf.nodes), Delegate(new) PROVE Statuses'
  <2>1. mem'.status = mem.status
    BY <1>1, <1>4 DEF Delegate, Snapshot
  <2> QED
    BY <1>4, <2>1 DEF Delegate, DecisionFrame
<1>5. ASSUME NEW n \in mem.wf.nodes, Retry(n) PROVE Statuses'
  <2>1. mem'.status = mem.status
    BY <1>1, <1>5 DEF Retry, Snapshot
  <2> QED
    BY <1>5, <2>1 DEF Retry, DecisionFrame
<1>6. ASSUME NEW p \in Plans, Replan(p) PROVE Statuses'
  <2>1. mem'.status = mem.status
    BY <1>1, <1>6 DEF Replan, Snapshot
  <2> QED
    BY <1>6, <2>1 DEF Replan, Save, DecisionFrame, TerminalExecutionStatus
<1>7. ASSUME NEW a \in ApprovalAction, AskHuman(a) \/ AlreadyGranted(a) PROVE Statuses'
  BY <1>7 DEF AskHuman, AlreadyGranted, Save, TerminalExecutionStatus
<1>8. CASE Pause
  <2>1. db'.status = "waiting_for_approval"
    BY <1>1, <1>8 DEF Pause, Snapshot
  <2> QED
    BY <1>8, <2>1 DEF Pause, Unload, TerminalExecutionStatus
<1>9. CASE Launch \/ Drain
  BY <1>9 DEF Launch, Drain, BeginFinish, Save, RoundFrame, TerminalExecutionStatus
<1>10. CASE Gather
  <2>1. mem'.status = mem.status
    BY <1>1, <1>10 DEF Gather, Begun, Snapshot
  <2> QED
    BY <1>10, <2>1 DEF Gather, RoundFrame
<1>11. ASSUME NEW n \in Node, FoldResult(n) \/ FoldPause(n) PROVE Statuses'
  <2>1. mem'.status \in {mem.status, "waiting_for_approval"}
    BY <1>1, <1>11 DEF FoldResult, FoldPause, Snapshot
  <2> QED
    BY <1>11, <2>1 DEF FoldResult, FoldPause, FoldFrame, Save, RoundFrame,
       TerminalExecutionStatus
<1>12. CASE EndFold
  <2>1. Skipped.status = mem.status
    BY <1>1 DEF Skipped, Snapshot
  <2> QED
    BY <1>12, <2>1 DEF EndFold, Unload, BeginFinish, Save, RoundFrame,
       TerminalExecutionStatus
<1>13. CASE Finish
  BY <1>13 DEF Finish, Save, RoundFrame
<1>14. CASE Recover
  <2>1. mem'.status = "running"
    BY <1>1, <1>14 DEF Recover, RecalledStatus, Snapshot
  <2> QED
    BY <1>14, <2>1 DEF Recover, Save, RoundFrame, TerminalExecutionStatus
<1>15. CASE Start \/ Resume
  <2>1. mem'.status = "running"
    BY <1>1, <1>15 DEF Start, Resume, Snapshot
  <2> QED
    BY <1>15, <2>1 DEF Start, Resume, Save, Loadable, TerminalExecutionStatus
<1>16. CASE Cancel
  BY <1>16 DEF Cancel
<1>17. CASE Crash
  BY <1>17 DEF Crash, Unload
<1>18. ASSUME NEW a \in ApprovalAction, Decide(a) PROVE Statuses'
  BY <1>18 DEF Decide, run
<1>19. CASE UNCHANGED vars
  BY <1>19 DEF vars, run
<1> QED
  BY <1>2, <1>3, <1>4, <1>5, <1>6, <1>7, <1>8, <1>9, <1>10, <1>11, <1>12, <1>13,
     <1>14, <1>15, <1>16, <1>17, <1>18, <1>19
     DEF Next, RunStep, Decision, Ending

LEMMA StatusesAlwaysHold == Spec => [](TypeOK /\ Statuses)
<1>1. Init => Statuses
  BY DEF Init, Statuses, IdleIsItsRow, StatusFollowsLoop, OnlyTheWindowStrands,
     TerminalExecutionStatus
<1>2. TypeOK /\ Statuses /\ [Next]_vars => Statuses'
  BY StatusesHold
<1> QED
  BY <1>1, <1>2, TypeCorrect, PTL DEF Spec

\* A row looks finished only if the execution was ended, or in the window
\* between a round's verdict and its recall, or after a crash in it.
THEOREM WindowIsTheOnlyOne == Spec => []OnlyTheWindowStrands
BY StatusesAlwaysHold, PTL DEF Statuses

\* What was ended is never written or run again.
THEOREM EndsAreReal == Spec => EndIsReal
<1>1. StatusFollowsLoop /\ [Next]_vars => [concluded => UNCHANGED <<db, pc>>]_vars
  <2> SUFFICES ASSUME StatusFollowsLoop, Next, concluded
               PROVE  UNCHANGED <<db, pc>>
    BY DEF vars, run
  <2>1. pc = "idle" /\ db.status \in TerminalExecutionStatus
    BY DEF StatusFollowsLoop
  <2>2. db.status # "pending"
    BY <2>1 DEF TerminalExecutionStatus
  <2>3. ~RunStep
    BY <2>1 DEF RunStep, AskSupervisor, CancelBetweenTurns, RunOutOfTurns, Decision,
       Delegate, Retry, Replan, FailToReplan, AskHuman, AlreadyGranted, Refused,
       Finalize, Pause, StopRound, Launch, Drain, Gather, StopInGather, FoldResult,
       FoldPause, FoldSecondPause, EndFold, Finish, Recover
  <2>4. ~Start /\ ~Resume /\ ~Cancel /\ ~Crash
    BY <2>1, <2>2 DEF Start, Resume, Loadable, Cancel, Crash
  <2>5. PICK a \in ApprovalAction : Decide(a)
    BY <2>3, <2>4 DEF Next
  <2> QED
    BY <2>5 DEF Decide, run
<1> QED
  BY <1>1, StatusesAlwaysHold, PTL DEF Spec, Statuses, EndIsReal

------------------------------------------------------------------------------
(* Successes.                                                               *)

\* Nodes keep their successes from f to g.
Keeps(f, g) == \A n \in Node : f[n] = "succeeded" => g[n] = "succeeded"

LEMMA NothingReadySucceeded ==
    ASSUME NEW n \in Ready
    PROVE  mem.node[n] # "succeeded"
BY DEF Ready, ReadyNodes, RunnableNodeStatus

LEMMA SkippedKeeps ==
    ASSUME TypeOK
    PROVE  \A n \in Node : Skipped.node[n] = "succeeded" <=> mem.node[n] = "succeeded"
<1> DEFINE S == SkippedByPass(mem.wf, mem.node, mem.wf.edges)
<1>1. \A n \in S : mem.node[n] = "pending"
  BY DEF SkippedByPass
<1>2. Skipped.node = [n \in Node |-> IF n \in S THEN "skipped" ELSE mem.node[n]]
  BY DEF Skipped, TypeOK, Snapshot
<1> HIDE DEF S
<1> QED
  BY <1>1, <1>2

LEMMA BegunKeeps ==
    ASSUME TypeOK, SuccessIsKept, NEW S \in SUBSET ReadySet
    PROVE  /\ Keeps(db.node, Begun(S).node)
           /\ Keeps(db.node, WithoutRunning(Begun(S)).node)
           /\ \A n \in S : Begun(S).node[n] = "running"
<1>1. Begun(S).node = [n \in Node |-> IF n \in S THEN "running" ELSE mem.node[n]]
  BY DEF Begun, TypeOK, Snapshot
<1>2. Begun(S) \in Snapshot
  BY BegunIsTyped DEF ReadySet
<1>3. WithoutRunning(Begun(S)).node =
        [n \in Node |-> IF Begun(S).node[n] = "running" THEN "cancelled"
                                                       ELSE Begun(S).node[n]]
  BY <1>2 DEF WithoutRunning, Snapshot
<1>4. \A n \in S : n \in Node /\ db.node[n] # "succeeded"
  BY DEF ReadySet, SuccessIsKept
<1> QED
  BY <1>1, <1>3, <1>4 DEF Keeps, SuccessIsKept

\* However an execution is ended, the row keeps its successes.
LEMMA EndingKeeps ==
    ASSUME TypeOK, SuccessIsKept, Ending
    PROVE  Keeps(db.node, db'.node) /\ mem' = db' /\ result' = NoResults
<1>1. mem \in Snapshot
  BY DEF TypeOK
<1>2. ASSUME NEW target, NEW m \in Snapshot, Keeps(db.node, m.node), Conclude(target, m)
      PROVE  Keeps(db.node, db'.node) /\ mem' = db' /\ result' = NoResults
  BY <1>2 DEF Conclude, Unload, Snapshot
<1>3. ASSUME NEW nodes, Keeps(db.node, nodes), Abort(nodes)
      PROVE  Keeps(db.node, db'.node) /\ mem' = db' /\ result' = NoResults
  BY <1>1, <1>3 DEF Abort, Unload, Snapshot
<1>4. Keeps(db.node, mem.node)
  BY DEF Keeps, SuccessIsKept
<1>5. CASE CancelBetweenTurns \/ RunOutOfTurns \/ Finalize
             \/ \E a \in ApprovalAction : Refused(a)
  BY <1>1, <1>2, <1>4, <1>5 DEF CancelBetweenTurns, RunOutOfTurns, Finalize, Refused
<1>6. CASE StopRound
  <2>1. WithoutRunning(mem) \in Snapshot /\ Keeps(db.node, WithoutRunning(mem).node)
    BY <1>1, <1>4, WithoutRunningIsTyped DEF WithoutRunning, Keeps, Snapshot
  <2> QED
    BY <1>1, <1>2, <1>4, <1>6, <2>1 DEF StopRound
<1>7. CASE StopInGather
  <2>1. PICK S \in SUBSET ReadySet :
          \/ Conclude("cancelled", WithoutRunning(Begun(S)))
          \/ Conclude("budget_exceeded", [Begun(S) EXCEPT !.over = TRUE])
    BY <1>7 DEF StopInGather
  <2>2. Begun(S) \in Snapshot
    BY BegunIsTyped DEF ReadySet
  <2>3. WithoutRunning(Begun(S)) \in Snapshot /\ [Begun(S) EXCEPT !.over = TRUE] \in Snapshot
    BY <2>2, WithoutRunningIsTyped, SnapshotUpdates
  <2>4. [Begun(S) EXCEPT !.over = TRUE].node = Begun(S).node
    BY <2>2 DEF Snapshot
  <2> QED
    BY <1>2, <2>1, <2>3, <2>4, BegunKeeps
<1>8. CASE \E p \in Plans : FailToReplan(p)
  BY <1>3, <1>4, <1>8 DEF FailToReplan
<1>9. CASE \E n \in Node : FoldSecondPause(n)
  <2>1. PICK n \in Node : FoldSecondPause(n)
    BY <1>9
  <2>2. db.node[n] # "succeeded"
    BY <2>1 DEF FoldSecondPause, IsNext, SuccessIsKept
  <2>3. Keeps(db.node, [mem.node EXCEPT ![n] = "waiting_for_approval"])
    BY <1>4, <2>2 DEF Keeps, TypeOK, Snapshot
  <2> QED
    BY <1>3, <2>1, <2>3 DEF FoldSecondPause
<1> QED
  BY <1>5, <1>6, <1>7, <1>8, <1>9 DEF Ending

\* A step keeps the row's successes and has none of them done again.
NoneRedone ==
    /\ Keeps(db.node, db'.node)
    /\ \A n \in Node : db.node[n] = "succeeded" => result'[n] # "queued"

LEMMA SuccessStep ==
    ASSUME TypeOK, IdleIsItsRow, SuccessIsKept, [Next]_vars
    PROVE  SuccessIsKept' /\ NoneRedone
<1>1. mem \in Snapshot /\ db \in Snapshot /\ mem.node \in [Node -> NodeStatus]
  BY DEF TypeOK, Snapshot
<1> USE DEF SuccessIsKept, NoneRedone, Keeps, history
<1>2. CASE Ending
  BY <1>2, EndingKeeps DEF NoResults
\* The steps that leave node statuses and results alone.
<1>3. ASSUME mem'.node = mem.node, db'.node \in {db.node, mem.node}, result' = result
      PROVE  SuccessIsKept' /\ NoneRedone
  BY <1>3
<1>4. CASE AskSupervisor
  BY <1>1, <1>3, <1>4 DEF AskSupervisor, Snapshot
<1>5. ASSUME NEW new \in SUBSET (Node \ mem.wf.nodes), Delegate(new)
      PROVE  SuccessIsKept' /\ NoneRedone
  BY <1>1, <1>3, <1>5 DEF Delegate, DecisionFrame, Snapshot
<1>6. ASSUME NEW n \in mem.wf.nodes, Retry(n) PROVE SuccessIsKept' /\ NoneRedone
  <2>1. mem'.node = [mem.node EXCEPT ![n] = "pending"] /\ mem.node[n] # "succeeded"
    BY <1>1, <1>6 DEF Retry, Retryable, Snapshot
  <2> QED
    BY <1>1, <1>6, <2>1 DEF Retry, DecisionFrame
<1>7. ASSUME NEW p \in Plans, Replan(p) PROVE SuccessIsKept' /\ NoneRedone
  <2>1. mem'.node = mem.node
    BY <1>1, <1>7 DEF Replan, Snapshot
  <2> QED
    BY <1>3, <1>7, <2>1 DEF Replan, Save, DecisionFrame
<1>8. ASSUME NEW a \in ApprovalAction, AskHuman(a) \/ AlreadyGranted(a)
      PROVE  SuccessIsKept' /\ NoneRedone
  BY <1>3, <1>8 DEF AskHuman, AlreadyGranted, Save
<1>9. CASE Pause
  BY <1>1, <1>9 DEF Pause, Unload, NoResults, Snapshot
<1>10. CASE Launch
  BY <1>10, NothingReadySucceeded DEF Launch, Save
<1>11. CASE Drain
  BY <1>3, <1>11 DEF Drain, BeginFinish, Save
<1>12. CASE Gather
  <2>1. PICK spent \in BOOLEAN : mem' = [Begun(ReadySet) EXCEPT !.over = @ \/ spent]
    BY <1>12 DEF Gather
  <2>2. Begun(ReadySet) \in Snapshot
    BY BegunIsTyped DEF ReadySet
  <2>3. mem'.node = Begun(ReadySet).node
    BY <2>1, <2>2 DEF Snapshot
  <2>4. \A n \in Node : result'[n] # "none" => n \in ReadySet
    BY <1>12 DEF Gather
  <2>5. \A n \in Node : result'[n] # "queued"
    BY <1>12 DEF Gather, Outcome
  <2> QED
    BY <1>12, <2>3, <2>4, <2>5, BegunKeeps DEF Gather
<1>13. ASSUME NEW n \in Node, FoldResult(n) PROVE SuccessIsKept' /\ NoneRedone
  <2>1. mem'.node = [mem.node EXCEPT ![n] =
                       IF result[n] = "succeeded" THEN "succeeded" ELSE "failed"]
    BY <1>1, <1>13 DEF FoldResult, Snapshot
  <2>2. result' = [result EXCEPT ![n] = "none"] /\ db' = mem' /\ result[n] # "none"
    BY <1>13 DEF FoldResult, FoldFrame, Save, IsNext
  <2> QED
    BY <1>1, <2>1, <2>2 DEF TypeOK
<1>14. ASSUME NEW n \in Node, FoldPause(n) PROVE SuccessIsKept' /\ NoneRedone
  <2>1. mem'.node = [mem.node EXCEPT ![n] = "waiting_for_approval"]
    BY <1>1, <1>14 DEF FoldPause, Snapshot
  <2>2. result' = [result EXCEPT ![n] = "none"] /\ db' = mem' /\ result[n] # "none"
    BY <1>14 DEF FoldPause, FoldFrame, Save, IsNext
  <2> QED
    BY <1>1, <2>1, <2>2 DEF TypeOK
<1>15. CASE EndFold
  <2>1. CASE UNCHANGED <<db, approval, history, crashes, resumes>> /\ Unload
    BY <2>1 DEF Unload, NoResults
  <2>2. CASE mem' = Skipped /\ BeginFinish
    BY <2>2, SkippedKeeps DEF BeginFinish, Save
  <2>3. CASE mem' = Skipped /\ pc' = "round" /\ UNCHANGED <<db, result>> /\ RoundFrame
    BY <2>3, SkippedKeeps
  <2> QED
    BY <1>15, <2>1, <2>2, <2>3 DEF EndFold
<1>16. CASE Finish \/ Recover
  <2>1. mem'.node = mem.node
    BY <1>1, <1>16 DEF Finish, Recover, Snapshot
  <2> QED
    BY <1>3, <1>16, <2>1 DEF Finish, Recover, Save
<1>17. CASE Start \/ Resume
  <2>1. mem'.node = mem.node
    BY <1>1, <1>17 DEF Start, Resume, Snapshot
  <2> QED
    BY <1>3, <1>17, <2>1 DEF Start, Resume, Save
<1>18. CASE Cancel
  BY <1>3, <1>18 DEF Cancel
<1>19. CASE Crash
  BY <1>19 DEF Crash, Unload, NoResults
<1>20. ASSUME NEW a \in ApprovalAction, Decide(a) PROVE SuccessIsKept' /\ NoneRedone
  BY <1>3, <1>20 DEF Decide, run
<1>21. CASE UNCHANGED vars
  BY <1>3, <1>21 DEF vars, run
<1> QED
  BY <1>2, <1>4, <1>5, <1>6, <1>7, <1>8, <1>9, <1>10, <1>11, <1>12, <1>13,
     <1>14, <1>15, <1>16, <1>17, <1>18, <1>19, <1>20, <1>21
     DEF Next, RunStep, Decision, Ending

\* A success in the row is never taken back and never dispatched again.
THEOREM SuccessStands == Spec => SuccessIsNotRedone
<1>1. Init => SuccessIsKept
  BY DEF Init, SuccessIsKept, NoResults
<1>2. TypeOK /\ Statuses /\ SuccessIsKept /\ [Next]_vars
        => SuccessIsKept' /\ [NoneRedone]_vars
  BY SuccessStep DEF Statuses
<1>3. NoneRedone <=> \A n \in Node : db.node[n] = "succeeded" =>
                      db'.node[n] = "succeeded" /\ result'[n] # "queued"
  BY DEF NoneRedone, Keeps
<1> QED
  BY <1>1, <1>2, <1>3, StatusesAlwaysHold, PTL DEF Spec, SuccessIsNotRedone

------------------------------------------------------------------------------
(* The row's graph, and the reason of a pause.                              *)

Grounds == RowKnowsItsNodes /\ MemoryKnowsItsNodes /\ PauseHasReason /\ PauseCanBeAnswered

\* What m has entries for is in its graph.
Knows(m) == \A n \in Node : m.record[n] # "absent" => n \in m.wf.nodes

\* An execution is ended with a terminal row that knows its nodes or failed.
LEMMA EndingKnows ==
    ASSUME TypeOK, MemoryKnowsItsNodes, Ending
    PROVE  /\ db'.status \in TerminalExecutionStatus /\ pc' = "idle"
           /\ Knows(db') \/ db'.status = "failed"
<1>1. mem \in Snapshot
  BY DEF TypeOK
<1>2. ASSUME NEW target \in TerminalExecutionStatus, NEW m \in Snapshot, Knows(m),
             Conclude(target, m)
      PROVE  db'.status = target /\ pc' = "idle" /\ Knows(db')
  BY <1>2 DEF Conclude, Unload, Knows, Snapshot
<1>3. ASSUME NEW nodes, Abort(nodes)
      PROVE  db'.status = "failed" /\ pc' = "idle"
  BY <1>1, <1>3 DEF Abort, Unload, Snapshot
<1>4. pc # "idle" => Knows(mem)
  BY DEF MemoryKnowsItsNodes, Knows
<1>5. {"cancelled", "failed", "succeeded", "budget_exceeded"} \subseteq TerminalExecutionStatus
  BY DEF TerminalExecutionStatus
<1>6. CASE CancelBetweenTurns \/ RunOutOfTurns \/ Finalize
             \/ \E a \in ApprovalAction : Refused(a)
  BY <1>1, <1>2, <1>4, <1>5, <1>6
     DEF CancelBetweenTurns, RunOutOfTurns, Finalize, Refused
<1>7. CASE StopRound
  <2>1. WithoutRunning(mem) \in Snapshot /\ Knows(WithoutRunning(mem))
    BY <1>1, <1>4, <1>7, WithoutRunningIsTyped DEF StopRound, WithoutRunning, Knows, Snapshot
  <2> QED
    BY <1>1, <1>2, <1>4, <1>5, <1>7, <2>1 DEF StopRound
<1>8. CASE StopInGather
  <2>1. PICK S \in SUBSET ReadySet :
          \/ Conclude("cancelled", WithoutRunning(Begun(S)))
          \/ Conclude("budget_exceeded", [Begun(S) EXCEPT !.over = TRUE])
    BY <1>8 DEF StopInGather
  <2>2. Begun(S) \in Snapshot
    BY BegunIsTyped DEF ReadySet
  <2>3. /\ Begun(S).wf = mem.wf
        /\ \A n \in Node : Begun(S).record[n] # "absent" =>
                             mem.record[n] # "absent" \/ n \in S
    BY <1>1 DEF Begun, Snapshot
  <2>4. \A n \in S : result[n] # "none"
    BY DEF ReadySet
  <2>5. Knows(Begun(S))
    BY <1>8, <2>3, <2>4 DEF StopInGather, MemoryKnowsItsNodes, Knows
  <2>6. /\ WithoutRunning(Begun(S)) \in Snapshot /\ Knows(WithoutRunning(Begun(S)))
        /\ [Begun(S) EXCEPT !.over = TRUE] \in Snapshot
        /\ Knows([Begun(S) EXCEPT !.over = TRUE])
    BY <2>2, <2>5, WithoutRunningIsTyped, SnapshotUpdates DEF WithoutRunning, Knows, Snapshot
  <2> QED
    BY <1>2, <1>5, <2>1, <2>6
<1>9. CASE \E p \in Plans : FailToReplan(p)
  BY <1>3, <1>5, <1>9 DEF FailToReplan
<1>10. CASE \E n \in Node : FoldSecondPause(n)
  BY <1>3, <1>5, <1>10 DEF FoldSecondPause
<1> QED
  BY <1>6, <1>7, <1>8, <1>9, <1>10 DEF Ending

LEMMA GroundsHold ==
    ASSUME TypeOK, Statuses, Grounds, [Next]_vars
    PROVE  Grounds'
<1>1. /\ mem \in Snapshot /\ db \in Snapshot
      /\ mem.node \in [Node -> NodeStatus]
      /\ mem.record \in [Node -> {"absent", "open", "barred"}]
      /\ mem.wf.nodes \subseteq Node
  BY DEF TypeOK, Snapshot, Workflow
<1> USE DEF Grounds, RowKnowsItsNodes, MemoryKnowsItsNodes, PauseHasReason,
        PauseCanBeAnswered, Statuses, IdleIsItsRow, StatusFollowsLoop, history
<1>2. CASE Ending
  BY <1>2, EndingKnows DEF TerminalExecutionStatus, Knows
<1>3. CASE AskSupervisor
  <2>1. mem'.wf = mem.wf /\ mem'.record = mem.record
    BY <1>1, <1>3 DEF AskSupervisor, Snapshot
  <2> QED
    BY <1>3, <2>1 DEF AskSupervisor
<1>4. ASSUME NEW new \in SUBSET (Node \ mem.wf.nodes), Delegate(new) PROVE Grounds'
  <2>1. mem'.wf.nodes = mem.wf.nodes \cup new /\ mem'.record = mem.record
    <3>1. mem.wf \in Workflow
      BY <1>1 DEF Snapshot
    <3>2. mem'.wf = Delegated(mem.wf, new) /\ mem'.record = mem.record
      BY <1>1, <1>4 DEF Delegate, Snapshot
    <3> QED
      BY <3>1, <3>2, DelegatedIsTyped
  <2> QED
    BY <1>4, <2>1 DEF Delegate, DecisionFrame
<1>5. ASSUME NEW n \in mem.wf.nodes, Retry(n) PROVE Grounds'
  <2>1. mem'.wf = mem.wf /\ mem'.record = mem.record
    BY <1>1, <1>5 DEF Retry, Snapshot
  <2> QED
    BY <1>5, <2>1 DEF Retry, DecisionFrame
<1>6. ASSUME NEW p \in Plans, Replan(p) PROVE Grounds'
  <2>1. /\ mem'.wf = Merged(mem.wf, p) /\ mem'.record = mem.record
        /\ mem'.status = mem.status
    <3>1. mem' = [mem EXCEPT !.wf = Merged(mem.wf, p), !.replans = @ + 1]
      BY <1>6 DEF Replan
    <3> QED
      BY <1>1, <3>1 DEF Snapshot
  <2>2. Merged(mem.wf, p).nodes = mem.wf.nodes \cup p.nodes
    <3>1. p \in Plan
      BY OrchestratorAssumption DEF OrchestratorAssumption
    <3>2. mem.wf \in Workflow
      BY <1>1 DEF Snapshot
    <3> QED
      BY <3>1, <3>2, MergedIsTyped
  <2> QED
    BY <1>6, <2>1, <2>2 DEF Replan, Save, DecisionFrame
<1>7. ASSUME NEW a \in ApprovalAction, AskHuman(a) PROVE Grounds'
  <2>1. approval'[a] = "pending"
    BY <1>7 DEF AskHuman, Request, TypeOK
  <2> QED
    BY <1>7, <2>1 DEF AskHuman, Save
<1>8. ASSUME NEW a \in ApprovalAction, AlreadyGranted(a) PROVE Grounds'
  BY <1>8 DEF AlreadyGranted
<1>9. CASE Pause
  <2>1. db'.wf = mem.wf /\ db'.record = mem.record
    BY <1>1, <1>9 DEF Pause, Snapshot
  <2> QED
    BY <1>9, <2>1 DEF Pause, Unload
<1>10. CASE Launch
  <2>1. Ready \subseteq mem.wf.nodes
    BY DEF Ready, ReadyNodes
  <2> QED
    BY <1>10, <2>1 DEF Launch, Save, RoundFrame
<1>11. CASE Drain
  BY <1>11 DEF Drain, BeginFinish, Save, RoundFrame
<1>12. CASE Gather
  <2>1. PICK spent \in BOOLEAN : mem' = [Begun(ReadySet) EXCEPT !.over = @ \/ spent]
    BY <1>12 DEF Gather
  <2>2. Begun(ReadySet) \in Snapshot
    BY BegunIsTyped DEF ReadySet
  <2>3. /\ mem'.wf = Begun(ReadySet).wf /\ mem'.record = Begun(ReadySet).record
        /\ mem'.status = Begun(ReadySet).status
    BY <2>1, <2>2 DEF Snapshot
  <2>4. /\ Begun(ReadySet).wf = mem.wf /\ Begun(ReadySet).status = mem.status
        /\ \A n \in Node : Begun(ReadySet).record[n] # "absent" =>
                             mem.record[n] # "absent" \/ n \in ReadySet
    BY <1>1 DEF Begun, Snapshot
  <2>5. \A n \in Node : result'[n] # "none" => n \in ReadySet
    BY <1>12 DEF Gather
  <2>6. \A n \in ReadySet : result[n] # "none"
    BY DEF ReadySet
  <2> QED
    BY <1>12, <2>3, <2>4, <2>5, <2>6 DEF Gather, RoundFrame
<1>13. ASSUME NEW n \in Node, FoldResult(n) PROVE Grounds'
  <2>1. /\ mem'.wf = mem.wf /\ mem'.status = mem.status
        /\ \A k \in Node \ {n} : mem'.node[k] = mem.node[k] /\ mem'.record[k] = mem.record[k]
    BY <1>1, <1>13 DEF FoldResult, Snapshot
  <2>2. /\ result[n] # "none" /\ result'[n] = "none" /\ db' = mem'
        /\ \A k \in Node \ {n} : result'[k] = result[k]
        /\ pc = "apply" /\ UNCHANGED <<pc, approval>>
    BY <1>13 DEF FoldResult, FoldFrame, RoundFrame, Save, IsNext, TypeOK
  <2>3. n \in mem.wf.nodes
    BY <2>2
  <2>4. ASSUME mem.status = "waiting_for_approval"
        PROVE  \E k \in mem'.wf.nodes :
                  mem'.node[k] = "waiting_for_approval" /\ result'[k] = "none"
    BY <1>1, <2>1, <2>2, <2>4
  <2> QED
    BY <2>1, <2>2, <2>3, <2>4
<1>14. ASSUME NEW n \in Node, FoldPause(n) PROVE Grounds'
  <2>1. /\ mem'.wf = mem.wf /\ mem'.record = mem.record
        /\ mem'.node[n] = "waiting_for_approval"
    BY <1>1, <1>14 DEF FoldPause, Snapshot
  <2>2. /\ result[n] # "none" /\ result'[n] = "none" /\ db' = mem'
        /\ \A k \in Node \ {n} : result'[k] = result[k]
        /\ pc = "apply" /\ UNCHANGED <<pc, approval>>
    BY <1>14 DEF FoldPause, FoldFrame, RoundFrame, Save, IsNext, TypeOK
  <2>3. n \in mem.wf.nodes
    BY <2>2
  <2> QED
    BY <2>1, <2>2, <2>3
<1>15. CASE EndFold
  <2> DEFINE S == SkippedByPass(mem.wf, mem.node, mem.wf.edges)
  <2>1. S \subseteq mem.wf.nodes
    BY DEF SkippedByPass
  <2>2. /\ Skipped.wf = mem.wf /\ Skipped.status = mem.status
        /\ Skipped.record = [n \in Node |-> IF n \in S THEN "open" ELSE mem.record[n]]
    BY <1>1 DEF Skipped, Snapshot
  <2> HIDE DEF S
  <2>3. CASE UNCHANGED <<db, approval, history, crashes, resumes>> /\ Unload
    BY <2>3 DEF Unload
  <2>4. CASE mem.status = "running" /\ mem' = Skipped /\ BeginFinish
    BY <1>15, <2>1, <2>2, <2>4 DEF EndFold, BeginFinish, Save, RoundFrame
  <2>5. CASE mem' = Skipped /\ pc' = "round" /\ UNCHANGED <<db, result>> /\ RoundFrame
    BY <1>15, <2>1, <2>2, <2>5 DEF EndFold, RoundFrame
  <2> QED
    BY <1>15, <2>3, <2>4, <2>5 DEF EndFold
<1>16. CASE Finish \/ Recover
  <2>1. /\ mem'.wf = mem.wf /\ mem'.record = mem.record
        /\ mem'.status \in {"running", "failed", "succeeded"}
    BY <1>1, <1>16 DEF Finish, Recover, RecalledStatus, Snapshot
  <2> QED
    BY <1>16, <2>1 DEF Finish, Recover, Save, RoundFrame
<1>17. CASE Start \/ Resume
  <2>1. mem'.wf = mem.wf /\ mem'.record = mem.record /\ mem'.status = "running"
    BY <1>1, <1>17 DEF Start, Resume, Snapshot
  <2> QED
    BY <1>17, <2>1 DEF Start, Resume, Save, Loadable, NoResults, TerminalExecutionStatus
<1>18. CASE Cancel
  BY <1>18 DEF Cancel
<1>19. CASE Crash
  BY <1>19 DEF Crash, Unload
<1>20. ASSUME NEW a \in ApprovalAction, Decide(a) PROVE Grounds'
  BY <1>20 DEF Decide, run, TypeOK
<1>21. CASE UNCHANGED vars
  BY <1>21 DEF vars, run
<1> QED
  BY <1>2, <1>3, <1>4, <1>5, <1>6, <1>7, <1>8, <1>9, <1>10, <1>11, <1>12, <1>13,
     <1>14, <1>15, <1>16, <1>17, <1>18, <1>19, <1>20, <1>21
     DEF Next, RunStep, Decision, Ending

LEMMA GroundsAlwaysHold == Spec => []Grounds
<1>1. Init => Grounds
  BY DEF Init, Grounds, RowKnowsItsNodes, MemoryKnowsItsNodes, PauseHasReason,
     PauseCanBeAnswered
<1>2. TypeOK /\ Statuses /\ Grounds /\ [Next]_vars => Grounds'
  BY GroundsHold
<1> QED
  BY <1>1, <1>2, StatusesAlwaysHold, PTL DEF Spec

\* The row's graph has every node the row's state speaks of, unless an
\* exception ended the run.
THEOREM RowsKnowTheirNodes == Spec => []RowKnowsItsNodes
BY GroundsAlwaysHold, PTL DEF Grounds

\* A paused row can be answered.
THEOREM PausesCanBeAnswered == Spec => []PauseCanBeAnswered
BY GroundsAlwaysHold, PTL DEF Grounds

------------------------------------------------------------------------------
(* The graph.                                                               *)

LEMMA SuccessorsAre ==
    ASSUME NEW w, NEW n, NEW s
    PROVE  s \in Successors(w, n) <=> \E e \in w.edges : e.src = n /\ e.dst = s
BY DEF Successors

\* What lies downstream is in every set that is closed under successors.
LEMMA DownstreamIsLeast ==
    ASSUME NEW w, NEW n, NEW S \in SUBSET w.nodes, Successors(w, n) \subseteq S,
           \A k \in S : Successors(w, k) \subseteq S
    PROVE  Downstream(w, n) \subseteq S
BY DEF Downstream

LEMMA NotDownstream ==
    ASSUME NEW w, NEW n, NEW m \in w.nodes, m \notin Downstream(w, n)
    PROVE  \E S \in SUBSET w.nodes :
              /\ Successors(w, n) \subseteq S
              /\ \A k \in S : Successors(w, k) \subseteq S
              /\ m \notin S
BY DEF Downstream

\* A path stays one when the graph grows.
LEMMA DownstreamGrows ==
    ASSUME NEW w, NEW v, EdgesHaveEnds(w), w.nodes \subseteq v.nodes,
           w.edges \subseteq v.edges, NEW n \in w.nodes, NEW m \in Downstream(w, n)
    PROVE  m \in Downstream(v, n)
<1>1. m \in w.nodes
  BY DEF Downstream
<1> SUFFICES ASSUME m \notin Downstream(v, n) PROVE FALSE
  OBVIOUS
<1>2. PICK S \in SUBSET v.nodes : /\ Successors(v, n) \subseteq S
                                  /\ \A k \in S : Successors(v, k) \subseteq S
                                  /\ m \notin S
  BY <1>1, NotDownstream
<1>3. \A k : Successors(w, k) \subseteq Successors(v, k) /\ Successors(w, k) \subseteq w.nodes
  BY SuccessorsAre DEF EdgesHaveEnds
<1>4. Downstream(w, n) \subseteq S \cap w.nodes
  BY <1>2, <1>3, DownstreamIsLeast
<1> QED
  BY <1>2, <1>4

\* The edges of a delegation and of a merged plan.
LEMMA DelegatedEdges ==
    ASSUME NEW w \in Workflow, NEW new \in SUBSET Node, NEW e
    PROVE  e \in Delegated(w, new).edges <=>
              \/ e \in w.edges
              \/ \E s \in Frontier(w), d \in new : e = To(s, d)
              \/ \E s \in new : e = To(s, Final)
BY DEF Delegated, Workflow

LEMMA DelegatedFields ==
    ASSUME NEW w \in Workflow, NEW new \in SUBSET Node
    PROVE  /\ Delegated(w, new).nodes = w.nodes \cup new
           /\ Delegated(w, new).kind = w.kind /\ Delegated(w, new).policy = w.policy
BY DEF Delegated, Workflow

Loose(p) == {n \in p.nodes : \A e \in p.edges : e.dst # n}

LEMMA MergedEdges ==
    ASSUME NEW w \in Workflow, NEW p \in Plan, NEW e
    PROVE  e \in Merged(w, p).edges <=>
              \/ e \in w.edges \/ e \in p.edges
              \/ \E s \in p.attach, d \in Loose(p) : e = To(s, d)
BY DEF Merged, Workflow, Loose

LEMMA MergedFields ==
    ASSUME NEW w \in Workflow, NEW p \in Plan
    PROVE  /\ Merged(w, p).nodes = w.nodes \cup p.nodes
           /\ \A n \in Node : Merged(w, p).kind[n] =
                 IF n \in p.nodes THEN p.kind[n] ELSE w.kind[n]
           /\ \A n \in Node : Merged(w, p).policy[n] =
                 IF n \in p.nodes THEN p.policy ELSE w.policy[n]
BY DEF Merged, Workflow

LEMMA EndsOfAnEdge ==
    ASSUME NEW s, NEW d
    PROVE  To(s, d).src = s /\ To(s, d).dst = d /\ ~To(s, d).cond
BY DEF To

\* Where the edges of a delegation lead.
LEMMA DelegatedSuccessors ==
    ASSUME NEW w \in Workflow, GraphIsGrown(w), NEW new \in SUBSET (Node \ w.nodes)
    PROVE  LET v == Delegated(w, new) IN
           /\ EdgesHaveEnds(v)
           /\ \A n \in new : Successors(v, n) = {Final}
           /\ \A n \in w.nodes :
                 Successors(v, n) = Successors(w, n) \cup (IF n \in Frontier(w) THEN new ELSE {})
           /\ \A n \in w.nodes \ {Final} : Inbound(v, n) = Inbound(w, n)
<1> DEFINE v == Delegated(w, new)
<1>1. \A e : e \in v.edges <=> \/ e \in w.edges
                               \/ \E s \in Frontier(w), d \in new : e = To(s, d)
                               \/ \E s \in new : e = To(s, Final)
  BY DelegatedEdges
<1>2. v.nodes = w.nodes \cup new
  BY DelegatedFields
<1> HIDE DEF v
<1>3. /\ Final \in w.nodes /\ Frontier(w) \subseteq w.nodes \ {Final}
      /\ \A e \in w.edges : e.src \in w.nodes /\ e.dst \in w.nodes
  BY DEF GraphIsGrown, EdgesHaveEnds, Frontier
<1>4. EdgesHaveEnds(v)
  BY <1>1, <1>2, <1>3, EndsOfAnEdge DEF EdgesHaveEnds
<1>5. ASSUME NEW n \in new PROVE Successors(v, n) = {Final}
  <2>1. ASSUME NEW s \in Successors(v, n) PROVE s = Final
    <3>1. PICK e \in v.edges : e.src = n /\ e.dst = s
      BY <2>1, SuccessorsAre
    <3> QED
      BY <1>1, <1>3, <3>1, EndsOfAnEdge
  <2>2. To(n, Final) \in v.edges
    BY <1>1
  <2>3. Final \in Successors(v, n)
    BY <2>2, EndsOfAnEdge, SuccessorsAre
  <2> QED
    BY <2>1, <2>3
<1>6. ASSUME NEW n \in w.nodes
      PROVE  Successors(v, n) = Successors(w, n) \cup (IF n \in Frontier(w) THEN new ELSE {})
  <2>1. ASSUME NEW s \in Successors(v, n)
        PROVE  s \in Successors(w, n) \/ (n \in Frontier(w) /\ s \in new)
    <3>1. PICK e \in v.edges : e.src = n /\ e.dst = s
      BY <2>1, SuccessorsAre
    <3>2. e \in w.edges => s \in Successors(w, n)
      BY <3>1, SuccessorsAre
    <3> QED
      BY <1>1, <1>3, <3>1, <3>2, EndsOfAnEdge
  <2>2. Successors(w, n) \subseteq Successors(v, n)
    BY <1>1, SuccessorsAre
  <2>3. ASSUME n \in Frontier(w), NEW d \in new PROVE d \in Successors(v, n)
    <3>1. To(n, d) \in v.edges
      BY <1>1, <2>3
    <3> QED
      BY <3>1, EndsOfAnEdge, SuccessorsAre
  <2> QED
    BY <2>1, <2>2, <2>3
<1>7. ASSUME NEW n \in w.nodes \ {Final} PROVE Inbound(v, n) = Inbound(w, n)
  BY <1>1, <1>3, EndsOfAnEdge DEF Inbound
<1> QED
  BY <1>4, <1>5, <1>6, <1>7 DEF v

\* A delegation and a plan that merges keep the graph as it must be.
LEMMA DelegatedIsGrown ==
    ASSUME NEW w \in Workflow, GraphIsGrown(w), NEW new \in SUBSET (Node \ w.nodes)
    PROVE  GraphIsGrown(Delegated(w, new))
<1> DEFINE v == Delegated(w, new)
<1>1. /\ v.nodes = w.nodes \cup new /\ v.kind = w.kind
  BY DelegatedFields
<1>2. /\ EdgesHaveEnds(v)
      /\ \A n \in new : Successors(v, n) = {Final}
      /\ \A n \in w.nodes :
            Successors(v, n) = Successors(w, n) \cup (IF n \in Frontier(w) THEN new ELSE {})
      /\ \A n \in w.nodes \ {Final} : Inbound(v, n) = Inbound(w, n)
  BY DelegatedSuccessors
<1> HIDE DEF v
<1>3. /\ Final \in w.nodes /\ w.kind[Final] = "terminal" /\ Successors(w, Final) = {}
      /\ \A n \in Node \ w.nodes : w.kind[n] = "agent"
      /\ \A n \in w.nodes : n \notin Downstream(w, n)
      /\ \A n \in w.nodes : w.kind[n] = "join" => Cardinality(Inbound(w, n)) >= 2
  BY DEF GraphIsGrown, HasNoCycle, JoinsHaveInputs
<1>4. Successors(v, Final) = {}
  BY <1>2, <1>3 DEF Frontier
<1>5. ASSUME NEW n \in v.nodes PROVE n \notin Downstream(v, n)
  <2>1. CASE n = Final
    BY <1>4, <2>1, DownstreamIsLeast
  <2>2. CASE n \in new
    <3>1. {Final} \in SUBSET v.nodes /\ Successors(v, n) \subseteq {Final}
      BY <1>1, <1>2, <1>3, <2>2
    <3>2. \A k \in {Final} : Successors(v, k) \subseteq {Final}
      BY <1>4
    <3>3. Downstream(v, n) \subseteq {Final}
      BY <3>1, <3>2, DownstreamIsLeast
    <3> QED
      BY <1>3, <2>2, <3>3
  <2>3. CASE n \in w.nodes \ {Final}
    <3>1. PICK S \in SUBSET w.nodes : /\ Successors(w, n) \subseteq S
                                      /\ \A k \in S : Successors(w, k) \subseteq S
                                      /\ n \notin S
      BY <1>3, <2>3, NotDownstream
    <3> DEFINE T == S \cup new \cup {Final}
    <3>2. T \in SUBSET v.nodes /\ n \notin T
      BY <1>1, <1>3, <2>3, <3>1
    <3>3. Successors(v, n) \subseteq T
      BY <1>2, <2>3, <3>1
    <3>4. \A k \in T : Successors(v, k) \subseteq T
      BY <1>2, <1>4, <3>1
    <3> HIDE DEF T
    <3> QED
      BY <3>2, <3>3, <3>4, DownstreamIsLeast
  <2> QED
    BY <1>1, <2>1, <2>2, <2>3
<1>6. ASSUME NEW n \in v.nodes, v.kind[n] = "join" PROVE Cardinality(Inbound(v, n)) >= 2
  <2>1. n \in w.nodes \ {Final}
    BY <1>1, <1>3, <1>6
  <2> QED
    BY <1>1, <1>2, <1>3, <1>6, <2>1
<1>7. GraphIsGrown(v)
  BY <1>1, <1>2, <1>3, <1>4, <1>5, <1>6 DEF GraphIsGrown, HasNoCycle, JoinsHaveInputs
<1> QED
  BY <1>7 DEF v

LEMMA MergedIsGrown ==
    ASSUME NEW w \in Workflow, GraphIsGrown(w), NEW p \in Plans,
           p.nodes \cap w.nodes = {}, p.attach \subseteq w.nodes,
           PlanIsExecutable(Merged(w, p))
    PROVE  GraphIsGrown(Merged(w, p))
<1> DEFINE v == Merged(w, p)
<1>0. /\ p \in Plan /\ p.nodes \subseteq Node /\ w.nodes \subseteq Node
      /\ \A e \in p.edges : {e.src, e.dst} \subseteq p.nodes \cup p.attach
  BY OrchestratorAssumption DEF OrchestratorAssumption, Plan, Workflow
<1>1. /\ v.nodes = w.nodes \cup p.nodes
      /\ \A n \in Node : v.kind[n] = IF n \in p.nodes THEN p.kind[n] ELSE w.kind[n]
  BY <1>0, MergedFields
<1>2. \A e : e \in v.edges <=> \/ e \in w.edges \/ e \in p.edges
                               \/ \E s \in p.attach, d \in Loose(p) : e = To(s, d)
  BY <1>0, MergedEdges
<1> HIDE DEF v
<1>3. ValidGraph(v)
  BY DEF PlanIsExecutable, v
<1>4. /\ Final \in w.nodes /\ w.kind[Final] = "terminal"
      /\ \A n \in Node \ w.nodes : w.kind[n] = "agent"
      /\ EdgesHaveEnds(w)
  BY DEF GraphIsGrown
<1>5. Final \in v.nodes /\ v.kind[Final] = "terminal"
  BY <1>0, <1>1, <1>4
<1>6. EdgesHaveEnds(v)
  BY <1>0, <1>1, <1>2, <1>4, EndsOfAnEdge DEF EdgesHaveEnds, Loose
<1>7. \A n \in Node \ v.nodes : v.kind[n] = "agent"
  BY <1>1, <1>4
<1>8. GraphIsGrown(v)
  BY <1>3, <1>5, <1>6, <1>7 DEF ValidGraph, NothingFollowsEnds, Ends, GraphIsGrown
<1> QED
  BY <1>8 DEF v

LEMMA SeedIsGrown == GraphIsGrown(Seed)
<1>1. /\ Seed.nodes = {Final} /\ Seed.edges = {}
      /\ \A n \in Node : Seed.kind[n] = IF n = Final THEN "terminal" ELSE "agent"
  BY DEF Seed
<1>2. Final \in Node
  BY OrchestratorAssumption DEF OrchestratorAssumption
<1>3. \A n : Successors(Seed, n) = {}
  BY <1>1 DEF Successors
<1>4. \A n : Downstream(Seed, n) = {}
  BY <1>3, DownstreamIsLeast
<1> QED
  BY <1>1, <1>2, <1>3, <1>4 DEF GraphIsGrown, EdgesHaveEnds, HasNoCycle, JoinsHaveInputs

\* Where the graphs of a step come from.
GraphStep ==
    \/ /\ earlier' = earlier
       /\ \/ mem'.wf = mem.wf /\ db'.wf \in {db.wf, mem.wf} /\ base' = base
          \/ mem'.wf = mem.wf /\ db'.wf = mem.wf /\ base' = mem.wf
          \/ mem'.wf = db'.wf /\ db'.wf \in {db.wf, mem.wf, base} /\ base' = base
    \/ \E new \in SUBSET (Node \ mem.wf.nodes) :
          /\ mem'.wf = Delegated(mem.wf, new) /\ db'.wf = db.wf /\ base' = base
          /\ \A n \in mem.wf.nodes : earlier'[n] = earlier[n]
          /\ \A n \in new : earlier'[n] = mem.wf.nodes \ {Final}
    \/ \E p \in Plans :
          /\ PlanIsSensible(p) /\ PlanIsExecutable(Merged(mem.wf, p))
          /\ mem'.wf = Merged(mem.wf, p) /\ db'.wf = mem'.wf /\ base' = base
          /\ \A n \in mem.wf.nodes : earlier'[n] = earlier[n]

\* An execution is ended with the graph in memory, or with the run's first one.
LEMMA EndingGraph ==
    ASSUME TypeOK, Ending
    PROVE  mem' = db' /\ db'.wf \in {mem.wf, base} /\ base' = base /\ earlier' = earlier
<1>1. mem \in Snapshot
  BY DEF TypeOK
<1>2. ASSUME NEW target, NEW m \in Snapshot, m.wf = mem.wf, Conclude(target, m)
      PROVE  mem' = db' /\ db'.wf = mem.wf /\ base' = base /\ earlier' = earlier
  BY <1>2 DEF Conclude, Unload, Snapshot
<1>3. ASSUME NEW nodes, Abort(nodes)
      PROVE  mem' = db' /\ db'.wf = base /\ base' = base /\ earlier' = earlier
  BY <1>1, <1>3 DEF Abort, Unload, Snapshot
<1>4. CASE CancelBetweenTurns \/ RunOutOfTurns \/ Finalize
             \/ \E a \in ApprovalAction : Refused(a)
  BY <1>1, <1>2, <1>4 DEF CancelBetweenTurns, RunOutOfTurns, Finalize, Refused
<1>5. CASE StopRound
  <2>1. WithoutRunning(mem) \in Snapshot /\ WithoutRunning(mem).wf = mem.wf
    BY <1>1, WithoutRunningIsTyped DEF WithoutRunning, Snapshot
  <2> QED
    BY <1>1, <1>2, <1>5, <2>1 DEF StopRound
<1>6. CASE StopInGather
  <2>1. PICK S \in SUBSET ReadySet :
          \/ Conclude("cancelled", WithoutRunning(Begun(S)))
          \/ Conclude("budget_exceeded", [Begun(S) EXCEPT !.over = TRUE])
    BY <1>6 DEF StopInGather
  <2>2. Begun(S) \in Snapshot /\ Begun(S).wf = mem.wf
    BY <1>1, BegunIsTyped DEF ReadySet, Begun, Snapshot
  <2>3. /\ WithoutRunning(Begun(S)) \in Snapshot
        /\ WithoutRunning(Begun(S)).wf = mem.wf
        /\ [Begun(S) EXCEPT !.over = TRUE] \in Snapshot
        /\ [Begun(S) EXCEPT !.over = TRUE].wf = mem.wf
    BY <2>2, WithoutRunningIsTyped, SnapshotUpdates DEF WithoutRunning, Snapshot
  <2> QED
    BY <1>2, <2>1, <2>3
<1>7. CASE \E p \in Plans : FailToReplan(p)
  BY <1>3, <1>7 DEF FailToReplan
<1>8. CASE \E n \in Node : FoldSecondPause(n)
  BY <1>3, <1>8 DEF FoldSecondPause
<1> QED
  BY <1>4, <1>5, <1>6, <1>7, <1>8 DEF Ending

LEMMA GraphsComeFrom ==
    ASSUME TypeOK, Statuses, [Next]_vars
    PROVE  GraphStep
<1>1. mem \in Snapshot /\ db \in Snapshot
  BY DEF TypeOK
<1> USE DEF GraphStep
\* The steps that leave the graph in memory and the run's first one alone.
<1>2. ASSUME mem'.wf = mem.wf, db'.wf \in {db.wf, mem.wf}, base' = base,
             earlier' = earlier
      PROVE  GraphStep
  BY <1>2
<1>3. ASSUME mem' = db', db' = db, base' = base, earlier' = earlier PROVE GraphStep
  BY <1>3
<1>4. CASE Ending
  BY <1>4, EndingGraph
<1>5. CASE AskSupervisor
  BY <1>1, <1>2, <1>5 DEF AskSupervisor, Snapshot, history
<1>6. ASSUME NEW new \in SUBSET (Node \ mem.wf.nodes), Delegate(new) PROVE GraphStep
  <2>1. mem'.wf = Delegated(mem.wf, new) /\ db' = db /\ base' = base
    BY <1>1, <1>6 DEF Delegate, DecisionFrame, Snapshot
  <2>2. /\ \A n \in mem.wf.nodes : earlier'[n] = earlier[n]
        /\ \A n \in new : earlier'[n] = mem.wf.nodes \ {Final}
    BY <1>1, <1>6 DEF Delegate, Snapshot, Workflow
  <2> QED
    BY <2>1, <2>2
<1>7. ASSUME NEW n \in mem.wf.nodes, Retry(n) PROVE GraphStep
  BY <1>1, <1>2, <1>7 DEF Retry, DecisionFrame, Snapshot
<1>8. ASSUME NEW p \in Plans, Replan(p) PROVE GraphStep
  <2>1. mem' = [mem EXCEPT !.wf = Merged(mem.wf, p), !.replans = @ + 1]
    BY <1>8 DEF Replan
  <2>2. mem'.wf = Merged(mem.wf, p)
    BY <1>1, <2>1 DEF Snapshot
  <2>3. \A n \in mem.wf.nodes : earlier'[n] = earlier[n]
    BY <1>1, <1>8 DEF Replan, PlanIsSensible, Snapshot, Workflow
  <2> QED
    BY <1>8, <2>2, <2>3 DEF Replan, Save, DecisionFrame
<1>9. ASSUME NEW a \in ApprovalAction, AskHuman(a) \/ AlreadyGranted(a) PROVE GraphStep
  BY <1>2, <1>9 DEF AskHuman, AlreadyGranted, Save, history
<1>10. CASE Pause
  BY <1>1, <1>10 DEF Pause, Unload, Snapshot, history
<1>11. CASE Launch \/ Drain
  BY <1>2, <1>11 DEF Launch, Drain, BeginFinish, Save, RoundFrame, history
<1>12. CASE Gather
  <2>1. PICK spent \in BOOLEAN : mem' = [Begun(ReadySet) EXCEPT !.over = @ \/ spent]
    BY <1>12 DEF Gather
  <2>2. Begun(ReadySet) \in Snapshot /\ Begun(ReadySet).wf = mem.wf
    BY <1>1, BegunIsTyped DEF ReadySet, Begun, Snapshot
  <2>3. mem'.wf = mem.wf
    BY <2>1, <2>2 DEF Snapshot
  <2> QED
    BY <1>2, <1>12, <2>3 DEF Gather, RoundFrame, history
<1>13. ASSUME NEW n \in Node, FoldResult(n) \/ FoldPause(n) PROVE GraphStep
  <2>1. mem'.wf = mem.wf
    BY <1>1, <1>13 DEF FoldResult, FoldPause, Snapshot
  <2> QED
    BY <1>2, <1>13, <2>1 DEF FoldResult, FoldPause, FoldFrame, Save, RoundFrame, history
<1>14. CASE EndFold
  <2>1. Skipped.wf = mem.wf
    BY <1>1 DEF Skipped, Snapshot
  <2>2. CASE UNCHANGED <<db, approval, history, crashes, resumes>> /\ Unload
    BY <1>3, <2>2 DEF Unload, history
  <2>3. CASE mem' = Skipped /\ BeginFinish
    BY <1>2, <2>1, <2>3 DEF BeginFinish, Save, RoundFrame, history
  <2>4. CASE mem' = Skipped /\ pc' = "round" /\ UNCHANGED <<db, result>> /\ RoundFrame
    BY <1>2, <2>1, <2>4 DEF RoundFrame, history
  <2> QED
    BY <1>14, <2>2, <2>3, <2>4 DEF EndFold
<1>15. CASE Finish \/ Recover
  <2>1. mem'.wf = mem.wf
    BY <1>1, <1>15 DEF Finish, Recover, Snapshot
  <2> QED
    BY <1>2, <1>15, <2>1 DEF Finish, Recover, Save, RoundFrame, history
<1>16. CASE Start \/ Resume
  <2>1. mem'.wf = mem.wf
    BY <1>1, <1>16 DEF Start, Resume, Snapshot
  <2> QED
    BY <1>16, <2>1 DEF Start, Resume, Save, Statuses, IdleIsItsRow, history
<1>17. CASE Cancel
  BY <1>2, <1>17 DEF Cancel, history
<1>18. CASE Crash
  BY <1>3, <1>18 DEF Crash, Unload
<1>19. ASSUME NEW a \in ApprovalAction, Decide(a) PROVE GraphStep
  BY <1>2, <1>19 DEF Decide, run, history
<1>20. CASE UNCHANGED vars
  BY <1>2, <1>20 DEF vars, run, history
<1> QED
  BY <1>4, <1>5, <1>6, <1>7, <1>8, <1>9, <1>10, <1>11, <1>12, <1>13, <1>14, <1>15,
     <1>16, <1>17, <1>18, <1>19, <1>20 DEF Next, RunStep, Decision, Ending

\* Whatever the supervisor delegates and plans, the graph in memory, the row's
\* and the one a run began with have no cycle, no edge into nowhere, no join of
\* fewer than two and nothing behind the seed's terminal node.
THEOREM GraphsAlwaysGrow == Spec => []GraphsAreGrown
<1>1. Init => GraphsAreGrown
  BY SeedIsGrown DEF Init, GraphsAreGrown
<1>2. TypeOK /\ Statuses /\ GraphsAreGrown /\ [Next]_vars => GraphsAreGrown'
  <2> SUFFICES ASSUME TypeOK, Statuses, GraphsAreGrown, [Next]_vars PROVE GraphsAreGrown'
    OBVIOUS
  <2>1. GraphStep /\ mem.wf \in Workflow
    BY GraphsComeFrom DEF TypeOK, Snapshot
  <2>2. GraphIsGrown(mem.wf) /\ GraphIsGrown(db.wf) /\ GraphIsGrown(base)
    BY DEF GraphsAreGrown
  <2>3. GraphIsGrown(mem'.wf)
    <3>1. CASE mem'.wf \in {mem.wf, db.wf, base}
      BY <2>2, <3>1
    <3>2. ASSUME NEW new \in SUBSET (Node \ mem.wf.nodes), mem'.wf = Delegated(mem.wf, new)
          PROVE  GraphIsGrown(mem'.wf)
      BY <2>1, <2>2, <3>2, DelegatedIsGrown
    <3>3. ASSUME NEW p \in Plans, PlanIsSensible(p), PlanIsExecutable(Merged(mem.wf, p)),
                 mem'.wf = Merged(mem.wf, p)
          PROVE  GraphIsGrown(mem'.wf)
      BY <2>1, <2>2, <3>3, MergedIsGrown DEF PlanIsSensible
    <3> QED
      BY <2>1, <3>1, <3>2, <3>3 DEF GraphStep
  <2>4. GraphIsGrown(db'.wf) /\ GraphIsGrown(base')
    BY <2>1, <2>2, <2>3 DEF GraphStep
  <2> QED
    BY <2>3, <2>4 DEF GraphsAreGrown
<1> QED
  BY <1>1, <1>2, StatusesAlwaysHold, PTL DEF Spec

\* Behind an end there is only what was delegated after it.
LEMMA EndsStayLast ==
    ASSUME TypeOK, Statuses, GraphsAreGrown, EndsAreLast, [Next]_vars
    PROVE  EndsAreLast'
<1>1. /\ GraphStep /\ mem.wf \in Workflow
      /\ \A w \in {mem.wf, db.wf, base} : GraphIsGrown(w)
  BY GraphsComeFrom DEF TypeOK, Snapshot, GraphsAreGrown
<1>2. base.nodes \subseteq db.wf.nodes /\ db.wf.nodes \subseteq mem.wf.nodes
  BY DEF EndsAreLast
<1>3. ASSUME \A n \in mem.wf.nodes : earlier'[n] = earlier[n], NEW w \in {mem.wf, db.wf, base}
      PROVE  OnlyDelegationsFollowEnds(w, earlier')
  <2>1. EdgesHaveEnds(w) /\ w.nodes \subseteq mem.wf.nodes
    BY <1>1, <1>2 DEF GraphIsGrown
  <2>2. OnlyDelegationsFollowEnds(w, earlier)
    BY DEF EndsAreLast
  <2>3. \A n \in w.nodes : Successors(w, n) \subseteq mem.wf.nodes
    BY <2>1, SuccessorsAre DEF EdgesHaveEnds
  <2> QED
    BY <1>3, <2>2, <2>3 DEF OnlyDelegationsFollowEnds, Ends
<1>4. CASE /\ earlier' = earlier
           /\ \/ mem'.wf = mem.wf /\ db'.wf \in {db.wf, mem.wf} /\ base' = base
              \/ mem'.wf = mem.wf /\ db'.wf = mem.wf /\ base' = mem.wf
              \/ mem'.wf = db'.wf /\ db'.wf \in {db.wf, mem.wf, base} /\ base' = base
  <2>1. \A w \in {mem.wf, db.wf, base} : OnlyDelegationsFollowEnds(w, earlier')
    BY <1>3, <1>4
  <2>2. {mem'.wf, db'.wf, base'} \subseteq {mem.wf, db.wf, base}
    BY <1>4
  <2>3. base'.nodes \subseteq db'.wf.nodes /\ db'.wf.nodes \subseteq mem'.wf.nodes
    BY <1>2, <1>4
  <2> QED
    BY <2>1, <2>2, <2>3 DEF EndsAreLast
<1>5. ASSUME NEW new \in SUBSET (Node \ mem.wf.nodes), mem'.wf = Delegated(mem.wf, new),
             db'.wf = db.wf, base' = base,
             \A n \in mem.wf.nodes : earlier'[n] = earlier[n],
             \A n \in new : earlier'[n] = mem.wf.nodes \ {Final}
      PROVE  EndsAreLast'
  <2> DEFINE v == Delegated(mem.wf, new)
  <2>1. v.nodes = mem.wf.nodes \cup new /\ v.kind = mem.wf.kind
    BY <1>1, DelegatedFields
  <2>2. \A n \in mem.wf.nodes : Successors(v, n) =
            Successors(mem.wf, n) \cup (IF n \in Frontier(mem.wf) THEN new ELSE {})
    BY <1>1, DelegatedSuccessors
  <2> HIDE DEF v
  <2>3. Ends(v) = Ends(mem.wf)
    BY <1>1, <2>1 DEF Ends, GraphIsGrown
  <2>4. OnlyDelegationsFollowEnds(mem.wf, earlier')
    BY <1>3, <1>5
  <2>5. ASSUME NEW n \in Ends(v), NEW m \in Successors(v, n)
        PROVE  n # Final /\ n \in earlier'[m]
    <3>1. n \in Ends(mem.wf) /\ n \in mem.wf.nodes
      BY <2>3 DEF Ends
    <3>2. CASE m \in Successors(mem.wf, n)
      BY <2>4, <3>1, <3>2 DEF OnlyDelegationsFollowEnds
    <3>3. CASE n \in Frontier(mem.wf) /\ m \in new
      BY <1>5, <3>3 DEF Frontier
    <3> QED
      BY <2>2, <3>1, <3>2, <3>3
  <2>6. OnlyDelegationsFollowEnds(v, earlier')
    BY <2>5 DEF OnlyDelegationsFollowEnds
  <2>7. \A w \in {mem'.wf, db'.wf, base'} : OnlyDelegationsFollowEnds(w, earlier')
    BY <1>3, <1>5, <2>6 DEF v
  <2>8. base'.nodes \subseteq db'.wf.nodes /\ db'.wf.nodes \subseteq mem'.wf.nodes
    BY <1>2, <1>5, <2>1 DEF v
  <2> QED
    BY <2>7, <2>8 DEF EndsAreLast
<1>6. ASSUME NEW p \in Plans, PlanIsExecutable(Merged(mem.wf, p)),
             mem'.wf = Merged(mem.wf, p), db'.wf = mem'.wf, base' = base,
             \A n \in mem.wf.nodes : earlier'[n] = earlier[n]
      PROVE  EndsAreLast'
  <2>1. OnlyDelegationsFollowEnds(mem'.wf, earlier')
    BY <1>6 DEF PlanIsExecutable, ValidGraph, NothingFollowsEnds, OnlyDelegationsFollowEnds
  <2>2. \A w \in {mem'.wf, db'.wf, base'} : OnlyDelegationsFollowEnds(w, earlier')
    BY <1>3, <1>6, <2>1
  <2>3. p \in Plan
    BY OrchestratorAssumption DEF OrchestratorAssumption
  <2>4. mem'.wf.nodes = mem.wf.nodes \cup p.nodes
    BY <1>1, <1>6, <2>3, MergedFields
  <2>5. base'.nodes \subseteq db'.wf.nodes /\ db'.wf.nodes \subseteq mem'.wf.nodes
    BY <1>2, <1>6, <2>4
  <2> QED
    BY <2>2, <2>5 DEF EndsAreLast
<1> QED
  BY <1>1, <1>4, <1>5, <1>6 DEF GraphStep

\* The graph in memory and the row's stay as valid as an authored workflow, but
\* that agents delegated later may hang behind an end that a plan brought.
THEOREM GraphsAreSound == Spec => []GraphIsSound
<1>1. Init => EndsAreLast
  <2> SUFFICES ASSUME Init PROVE EndsAreLast
    OBVIOUS
  <2>1. mem.wf = Seed /\ db.wf = Seed /\ base = Seed
    BY DEF Init
  <2>2. Successors(Seed, Final) = {} /\ Ends(Seed) \subseteq {Final}
    BY DEF Seed, Successors, Ends
  <2> QED
    BY <2>1, <2>2 DEF EndsAreLast, OnlyDelegationsFollowEnds
<1>2. TypeOK /\ Statuses /\ GraphsAreGrown /\ EndsAreLast /\ [Next]_vars => EndsAreLast'
  BY EndsStayLast
<1>3. GraphsAreGrown /\ EndsAreLast => GraphIsSound
  <2>1. ASSUME NEW w, GraphIsGrown(w)
        PROVE  HasNoCycle(w) /\ JoinsHaveInputs(w) /\ Ends(w) # {}
    BY <2>1 DEF GraphIsGrown, Ends
  <2> QED
    BY <2>1 DEF GraphsAreGrown, EndsAreLast, GraphIsSound
<1> QED
  BY <1>1, <1>2, <1>3, StatusesAlwaysHold, GraphsAlwaysGrow, PTL DEF Spec

------------------------------------------------------------------------------
(* The rounds.                                                              *)

\* In a graph without cycles, every set of nodes has one with no successor in it.
LEMMA SuccessorIsDownstream ==
    ASSUME NEW w, EdgesHaveEnds(w), NEW n, NEW s \in Successors(w, n)
    PROVE  s \in Downstream(w, n) /\ Downstream(w, s) \subseteq Downstream(w, n)
<1>1. s \in w.nodes
  BY SuccessorsAre DEF EdgesHaveEnds
<1>2. ASSUME s \notin Downstream(w, n) PROVE FALSE
  BY <1>1, <1>2, NotDownstream
<1>3. ASSUME NEW m \in Downstream(w, s), m \notin Downstream(w, n) PROVE FALSE
  <2>1. m \in w.nodes
    BY <1>3 DEF Downstream
  <2>2. PICK S \in SUBSET w.nodes : /\ Successors(w, n) \subseteq S
                                    /\ \A k \in S : Successors(w, k) \subseteq S
                                    /\ m \notin S
    BY <1>3, <2>1, NotDownstream
  <2>3. Downstream(w, s) \subseteq S
    BY <2>2, DownstreamIsLeast
  <2> QED
    BY <1>3, <2>2, <2>3
<1> QED
  BY <1>2, <1>3

LEMMA SinkExists ==
    ASSUME NEW w \in Workflow, GraphIsGrown(w), NEW T \in SUBSET w.nodes, T # {}
    PROVE  \E k \in T : Successors(w, k) \cap T = {}
<1> DEFINE D == {Downstream(w, k) : k \in T}
<1>1. IsFiniteSet(w.nodes)
  BY OrchestratorAssumption, FS_Subset DEF OrchestratorAssumption, Workflow
<1>2. IsWellFoundedOn(StrictSubsetOrdering(w.nodes), SUBSET w.nodes)
  BY <1>1, FS_StrictSubsetOrderingWellFounded, FS_FiniteSubsetsOfFinite
<1>3. D \subseteq SUBSET w.nodes /\ D # {}
  <2>1. \A k : Downstream(w, k) \in SUBSET w.nodes
    BY DEF Downstream
  <2> QED
    BY <2>1
<1>4. PICK X \in D : \A Y \in D : ~ (<<Y, X>> \in StrictSubsetOrdering(w.nodes))
  <2> HIDE DEF D
  <2> QED
    BY <1>2, <1>3, WFMin
<1>5. PICK k \in T : X = Downstream(w, k)
  OBVIOUS
<1>6. ASSUME NEW s \in T, s \in Successors(w, k) PROVE FALSE
  <2>1. s \in X /\ Downstream(w, s) \subseteq X
    BY <1>5, <1>6, SuccessorIsDownstream DEF GraphIsGrown, HasNoCycle
  <2>2. s \notin Downstream(w, s)
    BY DEF GraphIsGrown, HasNoCycle
  <2>3. Downstream(w, s) \in D /\ Downstream(w, s) \in SUBSET w.nodes /\ X \in SUBSET w.nodes
    BY <1>3
  <2>4. <<Downstream(w, s), X>> \in StrictSubsetOrdering(w.nodes)
    BY <2>1, <2>2, <2>3 DEF StrictSubsetOrdering
  <2> QED
    BY <1>4, <2>3, <2>4
<1> QED
  BY <1>6

\* A path leads from every node that was there to every node delegated.
LEMMA DelegatedFollows ==
    ASSUME NEW w \in Workflow, GraphIsGrown(w), NEW new \in SUBSET (Node \ w.nodes),
           NEW n \in new, NEW x \in w.nodes \ {Final}
    PROVE  n \in Downstream(Delegated(w, new), x)
<1> DEFINE v == Delegated(w, new)
<1>1. v.nodes = w.nodes \cup new
  BY DelegatedFields
<1>2. \A k \in w.nodes :
         Successors(v, k) = Successors(w, k) \cup (IF k \in Frontier(w) THEN new ELSE {})
  BY DelegatedSuccessors
<1> HIDE DEF v
<1>3. SUFFICES ASSUME n \notin Downstream(v, x) PROVE FALSE
  BY DEF v
<1>4. PICK S \in SUBSET v.nodes : /\ Successors(v, x) \subseteq S
                                  /\ \A k \in S : Successors(v, k) \subseteq S
                                  /\ n \notin S
  BY <1>1, <1>3, NotDownstream
<1> DEFINE T == ((S \cup {x}) \cap w.nodes) \ {Final}
<1>5. T \in SUBSET w.nodes /\ T # {}
  OBVIOUS
<1>6. PICK k \in T : Successors(w, k) \cap T = {}
  <2> HIDE DEF T
  <2> QED
    BY <1>5, SinkExists
<1>7. Successors(v, k) \subseteq S /\ k \in w.nodes \ {Final}
  BY <1>4
<1>8. Successors(w, k) \subseteq w.nodes
  BY SuccessorsAre DEF GraphIsGrown, EdgesHaveEnds
<1>9. Successors(w, k) \subseteq {Final}
  BY <1>2, <1>6, <1>7, <1>8
<1>10. k \in Frontier(w)
  BY <1>7, <1>9 DEF Frontier
<1> QED
  BY <1>2, <1>4, <1>7, <1>10

\* The plans that ask for all of a node's predecessors: their edges are
\* unconditional and lead to their own nodes, and their joins wait for all.
PlansAreStrict ==
    \A p \in Plans : /\ p.policy \in {"all", "all_settled"}
                     /\ \A e \in p.edges : ~e.cond /\ e.dst \in p.nodes

\* The order outlives a step that leaves the snapshot alone, ...
LEMMA OrderIsKept ==
    ASSUME NEW m, NEW k, NEW b, NEW c, NEW a, NEW d, InOrder(m, b, a),
           k.wf = m.wf, k.node = m.node, k.record = m.record,
           \A n \in m.wf.nodes : c[n] = b[n], a \subseteq d
    PROVE  InOrder(k, c, d)
BY DEF InOrder

\* ... a delegation, ...
LEMMA OrderOutlivesDelegation ==
    ASSUME NEW m \in Snapshot, NEW k, NEW b, NEW c, NEW a, InOrder(m, b, a),
           GraphIsGrown(m.wf), Knows(m), NEW new \in SUBSET (Node \ m.wf.nodes),
           k.wf = Delegated(m.wf, new), k.node = m.node, k.record = m.record,
           \A n \in Node : c[n] = IF n \in new THEN m.wf.nodes \ {Final} ELSE b[n]
    PROVE  InOrder(k, c, a)
<1> DEFINE w == m.wf
           v == Delegated(w, new)
<1>0. w \in Workflow /\ w.nodes \subseteq Node /\ Final \in w.nodes /\ EdgesHaveEnds(w)
  BY DEF Snapshot, Workflow, GraphIsGrown
<1>1. v.nodes = w.nodes \cup new /\ v.policy = w.policy
  BY <1>0, DelegatedFields
<1>2. \A e : e \in v.edges <=> \/ e \in w.edges
                               \/ \E s \in Frontier(w), d \in new : e = To(s, d)
                               \/ \E s \in new : e = To(s, Final)
  BY <1>0, DelegatedEdges
<1>3. \A n \in new : \A x \in w.nodes \ {Final} : n \in Downstream(v, x)
  BY <1>0, DelegatedFollows
<1>4. k.wf = v
  OBVIOUS
<1> HIDE DEF w, v
<1>5. \A n \in w.nodes : \A x \in w.nodes : n \in Downstream(w, x) => n \in Downstream(v, x)
  BY <1>0, <1>1, <1>2, DownstreamGrows
<1>6. GraphIsStrict(v)
  BY <1>1, <1>2, EndsOfAnEdge DEF InOrder, GraphIsStrict, w
<1>7. ASSUME NEW e \in v.edges, m.record[e.dst] # "absent", e.dst # Final
      PROVE  m.node[e.src] \in TerminalNodeStatus \/ e.src \in a
  <2>1. e.dst \notin new
    BY <1>7 DEF Knows, w
  <2>2. e \in w.edges
    BY <1>2, <1>7, <2>1, EndsOfAnEdge
  <2> QED
    BY <1>7, <2>2 DEF InOrder, w
<1>8. ASSUME NEW n \in v.nodes, NEW x \in c[n]
      PROVE  n # Final /\ x \in v.nodes /\ n \in Downstream(v, x)
  <2>1. CASE n \in new
    <3>1. x \in w.nodes \ {Final}
      BY <1>8, <2>1 DEF w
    <3> QED
      BY <1>0, <1>1, <1>3, <2>1, <3>1 DEF w
  <2>2. CASE n \in w.nodes
    <3>1. x \in b[n]
      BY <1>0, <1>8, <2>2 DEF w
    <3>2. n # Final /\ x \in w.nodes /\ n \in Downstream(w, x)
      BY <2>2, <3>1 DEF InOrder, w
    <3> QED
      BY <1>1, <1>5, <2>2, <3>2
  <2> QED
    BY <1>1, <1>8, <2>1, <2>2
<1> QED
  BY <1>4, <1>6, <1>7, <1>8 DEF InOrder

\* ... and the merge of a strict plan.
LEMMA OrderOutlivesMerge ==
    ASSUME NEW m \in Snapshot, NEW k, NEW b, NEW c, NEW a, InOrder(m, b, a),
           GraphIsGrown(m.wf), Knows(m), PlansAreStrict,
           NEW p \in Plans, p.nodes \cap m.wf.nodes = {},
           k.wf = Merged(m.wf, p), k.node = m.node, k.record = m.record,
           \A n \in Node : c[n] = IF n \in p.nodes THEN {} ELSE b[n]
    PROVE  InOrder(k, c, a)
<1> DEFINE w == m.wf
           v == Merged(w, p)
<1>0. /\ w \in Workflow /\ w.nodes \subseteq Node /\ EdgesHaveEnds(w)
      /\ p \in Plan /\ p.nodes \subseteq Node
  BY OrchestratorAssumption DEF OrchestratorAssumption, Snapshot, Workflow, Plan, GraphIsGrown
<1>1. /\ v.nodes = w.nodes \cup p.nodes
      /\ \A n \in Node : v.policy[n] = IF n \in p.nodes THEN p.policy ELSE w.policy[n]
  BY <1>0, MergedFields
<1>2. \A e : e \in v.edges <=> \/ e \in w.edges \/ e \in p.edges
                               \/ \E s \in p.attach, d \in Loose(p) : e = To(s, d)
  BY <1>0, MergedEdges
<1>3. k.wf = v /\ p.nodes \cap w.nodes = {}
  OBVIOUS
<1> HIDE DEF w, v
<1>4. \A n \in w.nodes : \A x \in w.nodes : n \in Downstream(w, x) => n \in Downstream(v, x)
  BY <1>0, <1>1, <1>2, DownstreamGrows
<1>5. GraphIsStrict(v)
  BY <1>1, <1>2, EndsOfAnEdge DEF InOrder, GraphIsStrict, PlansAreStrict, w
<1>6. ASSUME NEW e \in v.edges, m.record[e.dst] # "absent", e.dst # Final
      PROVE  m.node[e.src] \in TerminalNodeStatus \/ e.src \in a
  <2>1. e.dst \notin p.nodes
    BY <1>0, <1>3, <1>6 DEF Knows, w
  <2>2. e \in w.edges
    BY <1>2, <1>6, <2>1, EndsOfAnEdge DEF PlansAreStrict, Loose
  <2> QED
    BY <1>6, <2>2 DEF InOrder, w
<1>7. ASSUME NEW n \in v.nodes, NEW x \in c[n]
      PROVE  n # Final /\ x \in v.nodes /\ n \in Downstream(v, x)
  <2>1. n \in w.nodes /\ x \in b[n]
    BY <1>0, <1>1, <1>7
  <2>2. n # Final /\ x \in w.nodes /\ n \in Downstream(w, x)
    BY <2>1 DEF InOrder, w
  <2> QED
    BY <1>1, <1>4, <2>1, <2>2
<1> QED
  BY <1>3, <1>5, <1>6, <1>7 DEF InOrder

\* In a strict graph a node is ready only when all its predecessors have settled.
LEMMA ReadyComesAfter ==
    ASSUME NEW w, GraphIsStrict(w), NEW st, NEW n \in Node, n \in ReadyNodes(w, st, w.edges)
    PROVE  /\ n \in w.nodes /\ st[n] \in RunnableNodeStatus
           /\ \A e \in Inbound(w, n) : st[e.src] \in TerminalNodeStatus
<1> DEFINE active == ActiveEdges(w, st, w.edges)
           relevant == RelevantEdges(w, n, active)
<1>1. /\ n \in w.nodes /\ st[n] \in RunnableNodeStatus
      /\ DependenciesSatisfied(w, n, st, active)
  BY DEF ReadyNodes
<1>2. relevant = Inbound(w, n)
  BY DEF RelevantEdges, Inbound, GraphIsStrict
<1>3. ASSUME NEW e \in Inbound(w, n) PROVE st[e.src] \in TerminalNodeStatus
  <2>1. IF w.kind[n] = "join" THEN JoinSatisfied(w, n, relevant, st)
                              ELSE \A i \in relevant : st[i.src] \in CompleteNodeStatus
    BY <1>1, <1>3 DEF DependenciesSatisfied
  <2>2. e \in relevant
    BY <1>2, <1>3
  <2> HIDE DEF relevant, active
  <2>3. CASE w.kind[n] # "join"
    BY <2>1, <2>2, <2>3 DEF CompleteNodeStatus, TerminalNodeStatus
  <2>4. CASE JoinSatisfied(w, n, relevant, st)
    <3>1. w.policy[n] \in {"all", "all_settled"}
      BY DEF GraphIsStrict
    <3>2. \/ {i \in relevant : st[i.src] = "succeeded"} = relevant
          \/ {i \in relevant : st[i.src] \in TerminalNodeStatus} = relevant
      BY <2>4, <3>1 DEF JoinSatisfied
    <3> QED
      BY <2>2, <3>2 DEF TerminalNodeStatus
  <2> QED
    BY <2>1, <2>3, <2>4
<1> QED
  BY <1>1, <1>3

\* What a pass skips comes after what had settled or is skipped with it.
LEMMA SkippedComesAfter ==
    ASSUME NEW w, NEW st, NEW n \in SkippedByPass(w, st, w.edges), NEW e \in Inbound(w, n)
    PROVE  st[e.src] \in TerminalNodeStatus \/ e.src \in SkippedByPass(w, st, w.edges)
<1> DEFINE active == ActiveEdges(w, st, w.edges)
           candidates == {k \in w.nodes : st[k] = "pending" /\ Inbound(w, k) # {}}
           Dead(k, S) == \A i \in Inbound(w, k) :
                            /\ i \notin active
                            /\ \/ st[i.src] \in TerminalNodeStatus
                               \/ i.src \in S /\ i.src < k
           Closed(S) == \A k \in candidates : Dead(k, S) => k \in S
           skipped == SkippedByPass(w, st, w.edges)
           kept == {k \in skipped : Dead(k, skipped)}
<1>1. skipped = {k \in candidates : \A S \in SUBSET candidates : Closed(S) => k \in S}
  BY DEF SkippedByPass
<1>2. \A k, S, T : S \subseteq T /\ Dead(k, S) => Dead(k, T)
  OBVIOUS
<1> HIDE DEF active, candidates, Dead, skipped
<1>3. ASSUME NEW k \in candidates, Dead(k, skipped) PROVE k \in skipped
  BY <1>1, <1>2, <1>3
<1>4. Closed(kept) /\ kept \in SUBSET candidates
  BY <1>1, <1>2, <1>3
<1>5. n \in skipped
  BY DEF skipped
<1>6. Dead(n, skipped)
  BY <1>1, <1>4, <1>5
<1> QED
  BY <1>6 DEF Dead, skipped

\* However an execution is ended, the row has an entry for what memory has one
\* for, and nobody's past changes.
RowCloses ==
    /\ mem' = db' /\ pc' = "idle" /\ result' = NoResults
    /\ db'.status \in TerminalExecutionStatus
    /\ UNCHANGED <<earlier, reopened>>
    /\ \A n \in Node : mem.record[n] # "absent" => db'.record[n] # "absent"

LEMMA EndingRecords ==
    ASSUME TypeOK, Ending
    PROVE  RowCloses
<1>1. mem \in Snapshot
  BY DEF TypeOK
<1>2. ASSUME NEW target \in TerminalExecutionStatus, NEW m \in Snapshot,
             \A n \in Node : mem.record[n] # "absent" => m.record[n] # "absent",
             Conclude(target, m)
      PROVE  RowCloses
  BY <1>2 DEF RowCloses, Conclude, Unload, Snapshot
<1>3. ASSUME NEW nodes, Abort(nodes) PROVE RowCloses
  BY <1>1, <1>3 DEF RowCloses, Abort, Unload, Snapshot, TerminalExecutionStatus
<1>4. {"cancelled", "failed", "succeeded", "budget_exceeded"} \subseteq TerminalExecutionStatus
  BY DEF TerminalExecutionStatus
<1>5. CASE CancelBetweenTurns \/ RunOutOfTurns \/ Finalize
             \/ \E a \in ApprovalAction : Refused(a)
  BY <1>1, <1>2, <1>4, <1>5 DEF CancelBetweenTurns, RunOutOfTurns, Finalize, Refused
<1>6. CASE StopRound
  <2>1. WithoutRunning(mem) \in Snapshot /\ WithoutRunning(mem).record = mem.record
    BY <1>1, WithoutRunningIsTyped DEF WithoutRunning, Snapshot
  <2> QED
    BY <1>1, <1>2, <1>4, <1>6, <2>1 DEF StopRound
<1>7. CASE StopInGather
  <2>1. PICK S \in SUBSET ReadySet :
          \/ Conclude("cancelled", WithoutRunning(Begun(S)))
          \/ Conclude("budget_exceeded", [Begun(S) EXCEPT !.over = TRUE])
    BY <1>7 DEF StopInGather
  <2>2. /\ Begun(S) \in Snapshot
        /\ \A n \in Node : mem.record[n] # "absent" => Begun(S).record[n] # "absent"
    BY <1>1, BegunIsTyped DEF ReadySet, Begun, Snapshot
  <2>3. /\ WithoutRunning(Begun(S)) \in Snapshot
        /\ WithoutRunning(Begun(S)).record = Begun(S).record
        /\ [Begun(S) EXCEPT !.over = TRUE] \in Snapshot
        /\ [Begun(S) EXCEPT !.over = TRUE].record = Begun(S).record
    BY <2>2, WithoutRunningIsTyped, SnapshotUpdates DEF WithoutRunning, Snapshot
  <2> QED
    BY <1>2, <1>4, <2>1, <2>2, <2>3
<1>8. CASE \E p \in Plans : FailToReplan(p)
  BY <1>3, <1>8 DEF FailToReplan
<1>9. CASE \E n \in Node : FoldSecondPause(n)
  BY <1>3, <1>9 DEF FoldSecondPause
<1> QED
  BY <1>5, <1>6, <1>7, <1>8, <1>9 DEF Ending

\* Two snapshots that agree on the graph, the nodes and their entries.
Same(m, k) == k.wf = m.wf /\ k.node = m.node /\ k.record = m.record

\* mem as a step leaves it, when the step changes it otherwise than by Same.
LEMMA GatherIs ==
    ASSUME TypeOK, Gather
    PROVE  /\ mem'.wf = mem.wf
           /\ mem'.node = [n \in Node |-> IF n \in ReadySet THEN "running" ELSE mem.node[n]]
           /\ mem'.record = [n \in Node |->
                 IF n \in ReadySet /\ mem.record[n] = "absent" THEN "open" ELSE mem.record[n]]
           /\ pc = "gather" /\ pc' = "apply" /\ db' = db /\ UNCHANGED <<earlier, reopened>>
           /\ \A n \in Node : result'[n] # "none" => n \in ReadySet
<1>1. PICK spent \in BOOLEAN : mem' = [Begun(ReadySet) EXCEPT !.over = @ \/ spent]
  BY DEF Gather
<1>2. Begun(ReadySet) \in Snapshot
  BY BegunIsTyped DEF ReadySet
<1>3. /\ mem'.wf = Begun(ReadySet).wf /\ mem'.node = Begun(ReadySet).node
      /\ mem'.record = Begun(ReadySet).record
  BY <1>1, <1>2 DEF Snapshot
<1>4. /\ Begun(ReadySet).wf = mem.wf
      /\ Begun(ReadySet).node =
            [n \in Node |-> IF n \in ReadySet THEN "running" ELSE mem.node[n]]
      /\ Begun(ReadySet).record = [n \in Node |->
            IF n \in ReadySet /\ mem.record[n] = "absent" THEN "open" ELSE mem.record[n]]
  BY DEF TypeOK, Snapshot, Begun
<1>5. \A n \in Node : result'[n] # "none" => n \in ReadySet
  BY DEF Gather
<1> QED
  BY <1>3, <1>4, <1>5 DEF Gather, RoundFrame, history

LEMMA FoldIs ==
    ASSUME TypeOK, NEW n \in Node, FoldResult(n) \/ FoldPause(n)
    PROVE  /\ mem'.wf = mem.wf
           /\ \E s \in {"succeeded", "failed", "waiting_for_approval"} :
                 /\ mem'.node = [mem.node EXCEPT ![n] = s]
                 /\ s = "waiting_for_approval" => mem'.record = mem.record
           /\ \A k \in Node \ {n} : mem'.record[k] = mem.record[k]
           /\ mem.record[n] # "absent" => mem'.record[n] # "absent"
           /\ pc = "apply" /\ pc' = "apply" /\ db' = mem' /\ UNCHANGED <<earlier, reopened>>
           /\ n \in ReadySet
           /\ \A k \in Node : result'[k] # "none" => k \in ReadySet \ {n}
<1>1. CASE FoldResult(n)
  <2>1. /\ mem'.wf = mem.wf
        /\ mem'.node = [mem.node EXCEPT ![n] =
              IF result[n] = "succeeded" THEN "succeeded" ELSE "failed"]
        /\ mem'.record = [mem.record EXCEPT ![n] =
              IF result[n] = "barred" THEN "barred" ELSE "open"]
    BY <1>1 DEF FoldResult, TypeOK, Snapshot
  <2>2. /\ \A k \in Node \ {n} : mem'.record[k] = mem.record[k]
        /\ mem'.record[n] # "absent"
    BY <2>1 DEF TypeOK, Snapshot
  <2>3. /\ result' = [result EXCEPT ![n] = "none"] /\ result[n] # "none" /\ db' = mem'
        /\ pc = "apply" /\ pc' = "apply" /\ UNCHANGED <<earlier, reopened>>
    BY <1>1 DEF FoldResult, FoldFrame, RoundFrame, IsNext, Save, history
  <2>4. n \in ReadySet /\ \A k \in Node : result'[k] # "none" => k \in ReadySet \ {n}
    BY <2>3 DEF TypeOK, ReadySet
  <2> QED
    BY <2>1, <2>2, <2>3, <2>4
<1>2. CASE FoldPause(n)
  <2>1. /\ mem'.wf = mem.wf /\ mem'.record = mem.record
        /\ mem'.node = [mem.node EXCEPT ![n] = "waiting_for_approval"]
    BY <1>2 DEF FoldPause, TypeOK, Snapshot
  <2>2. /\ result' = [result EXCEPT ![n] = "none"] /\ result[n] # "none" /\ db' = mem'
        /\ pc = "apply" /\ pc' = "apply" /\ UNCHANGED <<earlier, reopened>>
    BY <1>2 DEF FoldPause, FoldFrame, RoundFrame, IsNext, Save, history
  <2>3. n \in ReadySet /\ \A k \in Node : result'[k] # "none" => k \in ReadySet \ {n}
    BY <2>2 DEF TypeOK, ReadySet
  <2> QED
    BY <2>1, <2>2, <2>3
<1> QED
  BY <1>1, <1>2

LEMMA EndFoldIs ==
    ASSUME TypeOK, EndFold
    PROVE  /\ pc = "apply" /\ UNCHANGED <<earlier, reopened>>
           /\ \/ pc' = "idle" /\ db' = db /\ mem' = db'
              \/ /\ mem' = Skipped /\ pc' \in {"finish", "round"}
                 /\ db' \in {db, mem'}
BY DEF EndFold, BeginFinish, Save, RoundFrame, Unload, history

LEMMA SkippedIs ==
    ASSUME TypeOK, NEW S, S = SkippedByPass(mem.wf, mem.node, mem.wf.edges)
    PROVE  /\ Skipped.wf = mem.wf
           /\ Skipped.node = [n \in Node |-> IF n \in S THEN "skipped" ELSE mem.node[n]]
           /\ Skipped.record = [n \in Node |-> IF n \in S THEN "open" ELSE mem.record[n]]
BY DEF Skipped, TypeOK, Snapshot

\* A quiet step: one that leaves alone what the order is about.
Quiet ==
    /\ Same(mem, mem')
    /\ \/ Same(db, db') /\ (db'.status = db.status)
       \/ Same(mem, db') /\ pc # "idle"
    /\ UNCHANGED <<earlier, reopened>>

LEMMA QuietSteps ==
    ASSUME TypeOK,
           \/ AskSupervisor \/ Launch \/ Drain \/ Finish \/ Recover
           \/ \E a \in ApprovalAction : AskHuman(a) \/ AlreadyGranted(a)
           \/ Cancel \/ (\E a \in ApprovalAction : Decide(a)) \/ UNCHANGED vars
    PROVE  Quiet /\ (pc = "idle" <=> pc' = "idle")
<1>1. mem \in Snapshot
  BY DEF TypeOK
<1> USE DEF Quiet, Same, history
<1>2. CASE AskSupervisor
  <2>1. Same(mem, mem')
    BY <1>1, <1>2 DEF AskSupervisor, Snapshot
  <2> QED
    BY <1>2, <2>1 DEF AskSupervisor
<1>3. CASE Launch \/ Drain
  BY <1>3 DEF Launch, Drain, BeginFinish, Save, RoundFrame
<1>4. CASE Finish \/ Recover
  <2>1. Same(mem, mem')
    BY <1>1, <1>4 DEF Finish, Recover, Snapshot
  <2> QED
    BY <1>4, <2>1 DEF Finish, Recover, Save, RoundFrame
<1>5. ASSUME NEW a \in ApprovalAction, AskHuman(a) \/ AlreadyGranted(a)
      PROVE  Quiet /\ (pc = "idle" <=> pc' = "idle")
  BY <1>5 DEF AskHuman, AlreadyGranted, Save
<1>6. CASE Cancel
  BY <1>6 DEF Cancel
<1>7. ASSUME NEW a \in ApprovalAction, Decide(a) PROVE Quiet /\ (pc = "idle" <=> pc' = "idle")
  BY <1>7 DEF Decide, run
<1>8. CASE UNCHANGED vars
  BY <1>8 DEF vars, run
<1> QED
  BY <1>2, <1>3, <1>4, <1>5, <1>6, <1>7, <1>8

\* The node a decision reopens has an entry.
LEMMA RetryIs ==
    ASSUME TypeOK, NEW n \in mem.wf.nodes, Retry(n)
    PROVE  /\ n \in Node /\ mem.record[n] = "open"
           /\ mem'.wf = mem.wf /\ mem'.node = [mem.node EXCEPT ![n] = "pending"]
           /\ mem'.record = mem.record
           /\ pc = "deciding" /\ db' = db
           /\ earlier' = earlier /\ reopened' = reopened \cup {n}
BY DEF Retry, Retryable, TypeOK, Snapshot, Workflow

LEMMA DelegateIs ==
    ASSUME TypeOK, NEW new \in SUBSET (Node \ mem.wf.nodes), Delegate(new)
    PROVE  /\ mem'.wf = Delegated(mem.wf, new) /\ mem'.node = mem.node
           /\ mem'.record = mem.record
           /\ pc = "deciding" /\ db' = db /\ reopened' = reopened
           /\ \A n \in Node : earlier'[n] = IF n \in new THEN mem.wf.nodes \ {Final}
                                                         ELSE earlier[n]
BY DEF Delegate, TypeOK, Snapshot

LEMMA ReplanIs ==
    ASSUME TypeOK, NEW p \in Plans, Replan(p)
    PROVE  /\ mem'.wf = Merged(mem.wf, p) /\ mem'.node = mem.node
           /\ mem'.record = mem.record /\ p.nodes \cap mem.wf.nodes = {}
           /\ pc = "deciding" /\ db' = mem' /\ reopened' = reopened
           /\ \A n \in Node : earlier'[n] = IF n \in p.nodes THEN {} ELSE earlier[n]
<1>1. mem' = [mem EXCEPT !.wf = Merged(mem.wf, p), !.replans = @ + 1]
  BY DEF Replan
<1>2. mem'.wf = Merged(mem.wf, p) /\ mem'.node = mem.node /\ mem'.record = mem.record
  BY <1>1 DEF TypeOK, Snapshot
<1> QED
  BY <1>2 DEF Replan, PlanIsSensible, Save

LEMMA PauseIs ==
    ASSUME TypeOK, Pause
    PROVE  /\ Same(mem, db') /\ mem' = db' /\ pc = "pausing" /\ pc' = "idle"
           /\ UNCHANGED <<earlier, reopened>>
BY DEF Pause, Unload, Same, TypeOK, Snapshot, history

LEMMA BeginningIs ==
    ASSUME TypeOK, Statuses, Start \/ Resume
    PROVE  /\ Same(mem, mem') /\ Same(db, mem') /\ db' \in {db, mem'}
           /\ db.status \notin TerminalExecutionStatus
           /\ pc = "idle" /\ pc' = "turn" /\ UNCHANGED <<earlier, reopened>>
<1>1. pc = "idle" /\ mem = db
  BY DEF Start, Resume, Statuses, IdleIsItsRow
<1>2. Same(mem, mem')
  BY DEF Start, Resume, Same, TypeOK, Snapshot
<1> QED
  BY <1>1, <1>2 DEF Start, Resume, Save, Loadable, Same, TerminalExecutionStatus, history

\* Memory stays ahead of the row.
LEMMA AheadStep ==
    ASSUME TypeOK, Statuses, MemoryIsAhead, [Next]_vars
    PROVE  MemoryIsAhead'
<1>1. /\ mem \in Snapshot /\ db \in Snapshot /\ mem.wf \in Workflow
      /\ \A n \in reopened : n \in Node
  BY DEF TypeOK, Snapshot
<1> USE DEF MemoryIsAhead
<1>2. CASE Ending
  BY <1>1, <1>2, EndingRecords DEF RowCloses
<1>3. CASE AskSupervisor
  BY <1>1, <1>3 DEF AskSupervisor, Snapshot, history
<1>4. CASE Launch \/ Drain
  BY <1>1, <1>4 DEF Launch, Drain, BeginFinish, Save, RoundFrame, history
<1>5. CASE Finish \/ Recover
  <2>1. Same(mem, mem')
    BY <1>1, <1>5 DEF Finish, Recover, Same, Snapshot
  <2> QED
    BY <1>1, <1>5, <2>1 DEF Finish, Recover, Save, RoundFrame, Same, history
<1>6. ASSUME NEW a \in ApprovalAction, AskHuman(a) \/ AlreadyGranted(a) PROVE MemoryIsAhead'
  BY <1>1, <1>6 DEF AskHuman, AlreadyGranted, Save, history
<1>7. CASE Cancel \/ (\E a \in ApprovalAction : Decide(a)) \/ UNCHANGED vars
  BY <1>7 DEF Cancel, Decide, vars, run, history
<1>8. ASSUME NEW new \in SUBSET (Node \ mem.wf.nodes), Delegate(new) PROVE MemoryIsAhead'
  <2>1. mem'.wf.nodes = mem.wf.nodes \cup new
    BY <1>1, <1>8, DelegateIs, DelegatedFields
  <2> QED
    BY <1>1, <1>8, <2>1, DelegateIs DEF DecisionFrame
<1>9. ASSUME NEW n \in mem.wf.nodes, Retry(n) PROVE MemoryIsAhead'
  <2>1. /\ n \in Node /\ mem.record[n] = "open" /\ mem.record = db.record
        /\ mem'.wf = mem.wf /\ mem'.record = mem.record
        /\ db' = db /\ reopened' = reopened \cup {n}
    BY <1>9, RetryIs
  <2>2. pc' = "round"
    BY <1>9 DEF Retry, DecisionFrame
  <2> QED
    BY <1>1, <2>1, <2>2
<1>10. ASSUME NEW p \in Plans, Replan(p) PROVE MemoryIsAhead'
  BY <1>1, <1>10, ReplanIs
<1>11. CASE Pause
  BY <1>1, <1>11, PauseIs DEF Same
<1>12. CASE Gather
  BY <1>1, <1>12, GatherIs
<1>13. ASSUME NEW n \in Node, FoldResult(n) \/ FoldPause(n) PROVE MemoryIsAhead'
  <2>1. \A k \in Node : mem.record[k] # "absent" => mem'.record[k] # "absent"
    <3>1. /\ \A k \in Node \ {n} : mem'.record[k] = mem.record[k]
          /\ mem.record[n] # "absent" => mem'.record[n] # "absent"
      BY <1>13, FoldIs
    <3> QED
      BY <3>1
  <2>2. mem'.wf = mem.wf /\ db' = mem' /\ reopened' = reopened /\ pc' = "apply"
    BY <1>13, FoldIs
  <2> QED
    BY <1>1, <2>1, <2>2
<1>14. CASE EndFold
  <2> DEFINE S == SkippedByPass(mem.wf, mem.node, mem.wf.edges)
  <2>1. /\ Skipped.wf = mem.wf
        /\ \A n \in Node : mem.record[n] # "absent" => Skipped.record[n] # "absent"
    BY SkippedIs
  <2> QED
    BY <1>1, <1>14, <2>1, EndFoldIs
<1>15. CASE Start \/ Resume
  BY <1>1, <1>15, BeginningIs DEF Same
<1>16. CASE Crash
  BY <1>16 DEF Crash, Unload
<1> QED
  BY <1>2, <1>3, <1>4, <1>5, <1>6, <1>7, <1>8, <1>9, <1>10, <1>11, <1>12, <1>13,
     <1>14, <1>15, <1>16 DEF Next, RunStep, Decision, Ending

\* A ready set is launched behind settled nodes, and has begun when it is folded in.
LEMMA ReadySetStep ==
    ASSUME TypeOK, Statuses, ReadySetIsInOrder, pc # "idle" => GraphIsStrict(mem.wf),
           [Next]_vars
    PROVE  ReadySetIsInOrder'
<1> USE DEF ReadySetIsInOrder
<1>1. ASSUME pc' \notin {"gather", "apply"} PROVE ReadySetIsInOrder'
  BY <1>1
<1>2. ASSUME mem' = mem, pc' = pc, result' = result PROVE ReadySetIsInOrder'
  <2>1. ReadySet' = ReadySet
    BY <1>2 DEF ReadySet
  <2> QED
    BY <1>2, <2>1
<1>3. CASE Ending
  BY <1>1, <1>3, EndingRecords DEF RowCloses
<1>4. CASE Launch
  <2>1. ReadySet' = Ready /\ mem' = mem /\ pc' = "gather"
    BY <1>4 DEF Launch, ReadySet, Ready, ReadyNodes, TypeOK, Snapshot, Workflow
  <2>2. GraphIsStrict(mem.wf) /\ Ready \subseteq Node
    BY <1>4 DEF Launch, Ready, ReadyNodes, TypeOK, Snapshot, Workflow
  <2>3. \A n \in Ready : /\ n \in mem.wf.nodes /\ mem.node[n] \in RunnableNodeStatus
                         /\ \A e \in Inbound(mem.wf, n) :
                               mem.node[e.src] \in TerminalNodeStatus
    BY <2>2, ReadyComesAfter DEF Ready
  <2> QED
    BY <2>1, <2>3
<1>5. CASE Gather
  <2>1. ReadySet' \subseteq ReadySet /\ ReadySet \subseteq Node
    BY <1>5, GatherIs DEF ReadySet
  <2> QED
    BY <1>5, <2>1, GatherIs DEF TypeOK, Snapshot
<1>6. ASSUME NEW n \in Node, FoldResult(n) \/ FoldPause(n) PROVE ReadySetIsInOrder'
  <2>1. ReadySet' \subseteq ReadySet \ {n} /\ ReadySet \subseteq Node
    BY <1>6, FoldIs DEF ReadySet
  <2>2. \A k \in Node \ {n} : mem'.node[k] = mem.node[k] /\ mem'.record[k] = mem.record[k]
    <3>1. PICK s \in {"succeeded", "failed", "waiting_for_approval"} :
            mem'.node = [mem.node EXCEPT ![n] = s]
      BY <1>6, FoldIs
    <3>2. \A k \in Node \ {n} : mem'.record[k] = mem.record[k]
      BY <1>6, FoldIs
    <3> QED
      BY <3>1, <3>2 DEF TypeOK, Snapshot
  <2>3. pc = "apply" /\ pc' = "apply"
    BY <1>6, FoldIs
  <2> QED
    BY <2>1, <2>2, <2>3
<1>7. CASE EndFold
  BY <1>1, <1>7, EndFoldIs
<1>8. CASE Start \/ Resume
  BY <1>1, <1>8, BeginningIs
<1>9. CASE Cancel \/ (\E a \in ApprovalAction : Decide(a)) \/ UNCHANGED vars
  BY <1>2, <1>9 DEF Cancel, Decide, vars, run
<1>10. CASE \/ AskSupervisor \/ Pause \/ Drain \/ Finish \/ Recover \/ Crash
            \/ (\E new \in SUBSET (Node \ mem.wf.nodes) : Delegate(new))
            \/ (\E n \in mem.wf.nodes : Retry(n))
            \/ (\E p \in Plans : Replan(p))
            \/ \E a \in ApprovalAction : AskHuman(a) \/ AlreadyGranted(a)
  <2>1. pc' \notin {"gather", "apply"}
    BY <1>10 DEF AskSupervisor, Pause, Drain, BeginFinish, Finish, Recover, Crash, Unload,
       Delegate, Retry, Replan, DecisionFrame, AskHuman, AlreadyGranted
  <2> QED
    BY <1>1, <2>1
<1> QED
  BY <1>3, <1>4, <1>5, <1>6, <1>7, <1>8, <1>9, <1>10 DEF Next, RunStep, Decision, Ending

\* Both snapshots are in order.
SnapshotsAreInOrder ==
    /\ pc # "idle" => InOrder(mem, earlier, reopened)
    /\ db.status \notin TerminalExecutionStatus => InOrder(db, earlier, reopened)

LEMMA SnapshotsStep ==
    ASSUME TypeOK, PlansAreStrict, Statuses, Grounds, GraphsAreGrown, Order, [Next]_vars
    PROVE  SnapshotsAreInOrder'
<1>1. /\ mem \in Snapshot /\ mem.wf \in Workflow /\ mem.wf.nodes \subseteq Node
      /\ mem.node \in [Node -> NodeStatus]
      /\ mem.record \in [Node -> {"absent", "open", "barred"}]
      /\ db.wf.nodes \subseteq mem.wf.nodes /\ reopened \subseteq Node
      /\ GraphIsGrown(mem.wf)
  BY DEF TypeOK, Snapshot, Workflow, Order, MemoryIsAhead, GraphsAreGrown
<1>2. /\ pc # "idle" => InOrder(mem, earlier, reopened)
      /\ db.status \notin TerminalExecutionStatus => InOrder(db, earlier, reopened)
  BY DEF Order
<1>3. \A n \in Node : result[n] # "none" <=> n \in ReadySet
  BY DEF ReadySet
<1>4. pc # "idle" => Knows(mem)
  BY DEF Grounds, MemoryKnowsItsNodes, Knows
<1>5. pc \notin {"idle", "drained"} => db.status \notin TerminalExecutionStatus
  BY DEF Statuses, StatusFollowsLoop
<1> USE DEF SnapshotsAreInOrder
\* A row that is left alone, or that memory has just been saved to, is in order.
<1>6. ASSUME pc' # "idle" => InOrder(mem', earlier', reopened'),
             db' = db \/ (db' = mem' /\ pc' # "idle"),
             \A n \in mem.wf.nodes : earlier'[n] = earlier[n], reopened \subseteq reopened'
      PROVE  SnapshotsAreInOrder'
  <2>1. CASE db' = db
    BY <1>1, <1>2, <1>6, <2>1, OrderIsKept
  <2> QED
    BY <1>6, <2>1
<1>7. CASE Ending
  BY <1>7, EndingRecords DEF RowCloses
<1>8. ASSUME Quiet, pc = "idle" <=> pc' = "idle" PROVE SnapshotsAreInOrder'
  BY <1>2, <1>8, OrderIsKept DEF Quiet, Same
<1>9. ASSUME NEW new \in SUBSET (Node \ mem.wf.nodes), Delegate(new)
      PROVE  SnapshotsAreInOrder'
  <2>1. pc = "deciding"
    BY <1>9, DelegateIs
  <2>2. /\ mem'.wf = Delegated(mem.wf, new) /\ mem'.node = mem.node
        /\ mem'.record = mem.record /\ db' = db /\ reopened' = reopened
        /\ \A n \in Node : earlier'[n] = IF n \in new THEN mem.wf.nodes \ {Final}
                                                      ELSE earlier[n]
    BY <1>9, DelegateIs
  <2>3. InOrder(mem, earlier, reopened) /\ Knows(mem)
    BY <1>2, <1>4, <2>1
  <2>4. InOrder(mem', earlier', reopened)
    BY <1>1, <2>2, <2>3, OrderOutlivesDelegation
  <2> QED
    BY <1>1, <1>6, <2>2, <2>4
<1>10. ASSUME NEW n \in mem.wf.nodes, Retry(n) PROVE SnapshotsAreInOrder'
  <2>1. /\ n \in Node /\ mem.record[n] = "open" /\ pc = "deciding"
        /\ mem'.wf = mem.wf /\ mem'.node = [mem.node EXCEPT ![n] = "pending"]
        /\ mem'.record = mem.record /\ db' = db
        /\ earlier' = earlier /\ reopened' = reopened \cup {n}
    BY <1>10, RetryIs
  <2>2. InOrder(mem, earlier, reopened)
    BY <1>2, <2>1
  <2>3. \A k \in Node \ {n} : mem'.node[k] = mem.node[k]
    BY <1>1, <2>1
  <2>4. ASSUME NEW e \in mem.wf.edges, mem.record[e.dst] # "absent", e.dst # Final
        PROVE  mem'.node[e.src] \in TerminalNodeStatus \/ e.src \in reopened'
    <3>1. mem.node[e.src] \in TerminalNodeStatus \/ e.src \in reopened
      BY <2>2, <2>4 DEF InOrder
    <3>2. e.src \in Node
      BY <1>1 DEF Workflow, Edge
    <3> QED
      BY <2>1, <2>3, <3>1, <3>2
  <2>5. \A k \in Node : mem.record[k] = "absent" => mem'.node[k] = "pending"
    BY <2>1, <2>2, <2>3 DEF InOrder
  <2>6. InOrder(mem', earlier', reopened')
    BY <2>1, <2>2, <2>4, <2>5 DEF InOrder
  <2> QED
    BY <1>6, <2>1, <2>6
<1>11. ASSUME NEW p \in Plans, Replan(p) PROVE SnapshotsAreInOrder'
  <2>1. pc = "deciding"
    BY <1>11, ReplanIs
  <2>2. /\ mem'.wf = Merged(mem.wf, p) /\ mem'.node = mem.node
        /\ mem'.record = mem.record /\ p.nodes \cap mem.wf.nodes = {}
        /\ db' = mem' /\ reopened' = reopened
        /\ \A n \in Node : earlier'[n] = IF n \in p.nodes THEN {} ELSE earlier[n]
    BY <1>11, ReplanIs
  <2>3. InOrder(mem', earlier', reopened')
    BY <1>1, <1>2, <1>4, <2>1, <2>2, OrderOutlivesMerge
  <2> QED
    BY <2>2, <2>3
<1>12. CASE Pause
  BY <1>2, <1>12, PauseIs, OrderIsKept DEF Same
<1>13. CASE Gather
  <2>1. /\ mem'.wf = mem.wf /\ pc = "gather" /\ db' = db /\ UNCHANGED <<earlier, reopened>>
        /\ mem'.node = [n \in Node |-> IF n \in ReadySet THEN "running" ELSE mem.node[n]]
        /\ mem'.record = [n \in Node |->
              IF n \in ReadySet /\ mem.record[n] = "absent" THEN "open" ELSE mem.record[n]]
    BY <1>13, GatherIs
  <2>2. InOrder(mem, earlier, reopened)
    BY <1>2, <2>1
  <2>3. \A n \in ReadySet :
           /\ n \in mem.wf.nodes /\ mem.node[n] \in RunnableNodeStatus
           /\ \A e \in Inbound(mem.wf, n) : mem.node[e.src] \in TerminalNodeStatus
    BY <2>1 DEF Order, ReadySetIsInOrder
  <2>4. ASSUME NEW e \in mem.wf.edges, mem'.record[e.dst] # "absent", e.dst # Final
        PROVE  mem'.node[e.src] \in TerminalNodeStatus \/ e.src \in reopened
    <3>1. e.src \in Node /\ e.dst \in Node
      BY <1>1 DEF Workflow, Edge
    <3>2. mem.node[e.src] \in TerminalNodeStatus \/ e.src \in reopened
      <4>1. CASE e.dst \in ReadySet
        BY <2>3, <4>1 DEF Inbound
      <4>2. CASE e.dst \notin ReadySet
        BY <2>1, <2>2, <2>4, <3>1, <4>2 DEF InOrder
      <4> QED
        BY <4>1, <4>2
    <3>3. e.src \in ReadySet => mem.node[e.src] \notin TerminalNodeStatus
      BY <2>3 DEF RunnableNodeStatus, TerminalNodeStatus
    <3> QED
      BY <2>1, <3>1, <3>2, <3>3
  <2>5. \A k \in Node : mem'.record[k] = "absent" => mem'.node[k] = "pending"
    BY <2>1, <2>2 DEF InOrder
  <2>6. InOrder(mem', earlier', reopened')
    BY <2>1, <2>2, <2>4, <2>5 DEF InOrder
  <2> QED
    BY <1>6, <2>1, <2>6
<1>14. ASSUME NEW n \in Node, FoldResult(n) \/ FoldPause(n) PROVE SnapshotsAreInOrder'
  <2>1. /\ mem'.wf = mem.wf /\ pc = "apply" /\ pc' = "apply" /\ db' = mem'
        /\ UNCHANGED <<earlier, reopened>> /\ n \in ReadySet
        /\ \A k \in Node \ {n} : mem'.record[k] = mem.record[k]
        /\ mem.record[n] # "absent" => mem'.record[n] # "absent"
    BY <1>14, FoldIs
  <2>2. PICK s \in {"succeeded", "failed", "waiting_for_approval"} :
           mem'.node = [mem.node EXCEPT ![n] = s]
    BY <1>14, FoldIs
  <2>3. mem.node[n] = "running" /\ mem.record[n] # "absent"
    BY <2>1 DEF Order, ReadySetIsInOrder
  <2>4. InOrder(mem, earlier, reopened)
    BY <1>2, <2>1
  <2>5. \A k \in Node : mem'.record[k] # "absent" <=> mem.record[k] # "absent"
    BY <2>1, <2>3
  <2>6. ASSUME NEW e \in mem.wf.edges, mem'.record[e.dst] # "absent", e.dst # Final
        PROVE  mem'.node[e.src] \in TerminalNodeStatus \/ e.src \in reopened
    <3>1. e.src \in Node /\ e.dst \in Node
      BY <1>1 DEF Workflow, Edge
    <3>2. mem.node[e.src] \in TerminalNodeStatus \/ e.src \in reopened
      BY <2>4, <2>5, <2>6, <3>1 DEF InOrder
    <3>3. CASE e.src = n
      BY <2>3, <3>2, <3>3 DEF TerminalNodeStatus
    <3>4. CASE e.src # n
      BY <1>1, <2>2, <3>1, <3>2, <3>4
    <3> QED
      BY <3>3, <3>4
  <2>7. ASSUME NEW k \in Node, mem'.record[k] = "absent" PROVE mem'.node[k] = "pending"
    <3>1. k # n /\ mem.node[k] = "pending"
      BY <2>3, <2>4, <2>5, <2>7 DEF InOrder
    <3> QED
      BY <1>1, <2>2, <3>1
  <2>8. InOrder(mem', earlier', reopened')
    BY <2>1, <2>4, <2>6, <2>7 DEF InOrder
  <2> QED
    BY <2>1, <2>8
<1>15. CASE EndFold
  <2> DEFINE S == SkippedByPass(mem.wf, mem.node, mem.wf.edges)
  <2>1. pc = "apply" /\ UNCHANGED <<earlier, reopened>>
    BY <1>15, EndFoldIs
  <2>2. CASE pc' = "idle" /\ db' = db /\ mem' = db'
    BY <1>6, <2>1, <2>2
  <2>3. CASE mem' = Skipped /\ pc' \in {"finish", "round"} /\ db' \in {db, mem'}
    <3>1. /\ mem'.wf = mem.wf
          /\ mem'.node = [n \in Node |-> IF n \in S THEN "skipped" ELSE mem.node[n]]
          /\ mem'.record = [n \in Node |-> IF n \in S THEN "open" ELSE mem.record[n]]
      BY <2>3, SkippedIs
    <3>2. \A n \in S : \A e \in Inbound(mem.wf, n) :
             mem.node[e.src] \in TerminalNodeStatus \/ e.src \in S
      BY SkippedComesAfter
    <3> HIDE DEF S
    <3>3. InOrder(mem, earlier, reopened)
      BY <1>2, <2>1
    <3>4. ASSUME NEW e \in mem.wf.edges, mem'.record[e.dst] # "absent", e.dst # Final
          PROVE  mem'.node[e.src] \in TerminalNodeStatus \/ e.src \in reopened
      <4>1. e.src \in Node /\ e.dst \in Node
        BY <1>1 DEF Workflow, Edge
      <4>2. mem.node[e.src] \in TerminalNodeStatus \/ e.src \in reopened \/ e.src \in S
        <5>1. CASE e.dst \in S
          BY <3>2, <5>1 DEF Inbound
        <5>2. CASE e.dst \notin S
          BY <3>1, <3>3, <3>4, <4>1, <5>2 DEF InOrder
        <5> QED
          BY <5>1, <5>2
      <4> QED
        BY <3>1, <4>1, <4>2 DEF TerminalNodeStatus
    <3>5. \A k \in Node : mem'.record[k] = "absent" => mem'.node[k] = "pending"
      BY <3>1, <3>3 DEF InOrder
    <3>6. InOrder(mem', earlier', reopened')
      BY <2>1, <3>1, <3>3, <3>4, <3>5 DEF InOrder
    <3> QED
      BY <1>6, <2>1, <2>3, <3>6
  <2> QED
    BY <1>15, <2>2, <2>3, EndFoldIs
<1>16. CASE Start \/ Resume
  <2>1. /\ Same(db, mem') /\ db' \in {db, mem'} /\ UNCHANGED <<earlier, reopened>>
        /\ db.status \notin TerminalExecutionStatus /\ pc' = "turn"
    BY <1>16, BeginningIs
  <2>2. InOrder(mem', earlier', reopened')
    BY <1>2, <2>1, OrderIsKept DEF Same
  <2> QED
    BY <1>6, <2>1, <2>2
<1>17. CASE Crash
  BY <1>6, <1>17 DEF Crash, Unload
<1> QED
  BY <1>7, <1>8, <1>9, <1>10, <1>11, <1>12, <1>13, <1>14, <1>15, <1>16, <1>17, QuietSteps
     DEF Next, RunStep, Decision, Ending

\* Order, when it holds, puts a delegated node that is launched behind everything
\* that was there: walk from an earlier node x that has not settled, and every
\* node on the way has not begun, for it would have begun before x had settled; a
\* path to a launched node ends in one that has settled.
LEMMA OrderIsEnough ==
    ASSUME TypeOK, GraphsAreGrown, Order
    PROVE  RoundsAreOrdered
<1> SUFFICES ASSUME pc = "gather", NEW n \in ReadySet, NEW x \in earlier[n],
                    mem.node[x] \notin TerminalNodeStatus, x \notin reopened
             PROVE  FALSE
  BY DEF RoundsAreOrdered
<1> DEFINE w == mem.wf
           S == ({k \in w.nodes : mem.record[k] = "absent"} \cup {Final}) \ {n}
<1>1. /\ n \in w.nodes
      /\ \A e \in Inbound(w, n) : mem.node[e.src] \in TerminalNodeStatus
  BY DEF Order, ReadySetIsInOrder
<1>2. InOrder(mem, earlier, reopened)
  BY DEF Order
<1>3. n # Final /\ x \in w.nodes /\ n \in Downstream(w, x)
  BY <1>1, <1>2 DEF InOrder
<1>4. /\ Final \in w.nodes /\ Successors(w, Final) = {} /\ EdgesHaveEnds(w)
      /\ w.nodes \subseteq Node
  BY DEF GraphsAreGrown, GraphIsGrown, TypeOK, Snapshot, Workflow
<1>5. ASSUME NEW k \in w.nodes, mem.node[k] \notin TerminalNodeStatus, k \notin reopened
      PROVE  Successors(w, k) \subseteq S
  <2>1. SUFFICES ASSUME NEW s \in Successors(w, k) PROVE s \in S
    OBVIOUS
  <2>2. PICK e \in w.edges : e.src = k /\ e.dst = s
    BY SuccessorsAre
  <2>3. s \in w.nodes
    BY <1>4, <2>2 DEF EdgesHaveEnds
  <2>4. s # n
    BY <1>1, <1>5, <2>2 DEF Inbound
  <2>5. mem.record[s] = "absent" \/ s = Final
    BY <1>2, <1>5, <2>2 DEF InOrder
  <2> QED
    BY <2>3, <2>4, <2>5
<1>6. ASSUME NEW k \in S PROVE Successors(w, k) \subseteq S
  <2>1. CASE k = Final
    BY <1>4, <2>1
  <2>2. CASE k # Final
    <3>1. k \in w.nodes /\ k \in Node /\ mem.record[k] = "absent"
      BY <1>4, <2>2
    <3>2. mem.node[k] = "pending"
      BY <1>2, <3>1 DEF InOrder
    <3>3. k \notin reopened
      BY <3>1 DEF Order, MemoryIsAhead
    <3> QED
      BY <1>5, <3>1, <3>2, <3>3 DEF TerminalNodeStatus
  <2> QED
    BY <2>1, <2>2
<1>7. Successors(w, x) \subseteq S
  BY <1>3, <1>5
<1>8. S \in SUBSET w.nodes /\ n \notin S
  BY <1>4
<1> HIDE DEF S, w
<1>9. Downstream(w, x) \subseteq S
  BY <1>6, <1>7, <1>8, DownstreamIsLeast
<1> QED
  BY <1>3, <1>8, <1>9

\* When every plan waits for all of its nodes' predecessors, what the supervisor
\* delegates is launched after everything that was there before it, whatever is
\* retried, planned, paused, crashed and resumed in between.
THEOREM DelegationsComeAfter == PlansAreStrict /\ Spec => []RoundsAreOrdered
<1>1. Init => Order
  <2> SUFFICES ASSUME Init PROVE Order
    OBVIOUS
  <2>1. /\ mem.wf = Seed /\ db = mem /\ pc = "idle" /\ reopened = {}
        /\ \A n \in Node : earlier[n] = {} /\ mem.record[n] = "absent"
        /\ \A n \in Node : mem.node[n] = "pending"
        /\ Seed.nodes = {Final} /\ Seed.edges = {} /\ \A n \in Node : Seed.policy[n] = "all"
    BY DEF Init, Seed
  <2>2. Final \in Node
    BY OrchestratorAssumption DEF OrchestratorAssumption
  <2>3. InOrder(mem, earlier, reopened) /\ InOrder(db, earlier, reopened)
    BY <2>1, <2>2 DEF InOrder, GraphIsStrict
  <2> QED
    BY <2>1, <2>3 DEF Order, MemoryIsAhead, ReadySetIsInOrder
<1>2. TypeOK /\ PlansAreStrict /\ Statuses /\ Grounds /\ GraphsAreGrown /\ Order
        /\ [Next]_vars => Order'
  <2> SUFFICES ASSUME TypeOK, PlansAreStrict, Statuses, Grounds, GraphsAreGrown, Order,
                      [Next]_vars
               PROVE  Order'
    OBVIOUS
  <2>1. SnapshotsAreInOrder'
    BY SnapshotsStep
  <2>2. MemoryIsAhead'
    BY AheadStep DEF Order
  <2>3. ReadySetIsInOrder'
    BY ReadySetStep DEF Order, InOrder
  <2> QED
    BY <2>1, <2>2, <2>3 DEF SnapshotsAreInOrder, Order
<1>3. TypeOK /\ GraphsAreGrown /\ Order => RoundsAreOrdered
  BY OrderIsEnough
<1>4. PlansAreStrict => []PlansAreStrict
  OBVIOUS
<1> QED
  BY <1>1, <1>2, <1>3, <1>4, StatusesAlwaysHold, GroundsAlwaysHold, GraphsAlwaysGrow,
     PTL DEF Spec
==============================================================================
