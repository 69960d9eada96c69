----------------------------- MODULE Orchestrator -----------------------------
(***************************************************************************)
(* A dynamic execution: the loop of runtime/orchestrator.py, in which the  *)
(* supervisor decides turn by turn how the workflow grows, and a fresh     *)
(* WorkflowExecutor runs whatever has become ready after every decision.   *)
(*                                                                         *)
(* What the process holds of the execution is mem, and what it has made    *)
(* durable is db: both are snapshots of one shape, a save copies mem to db *)
(* and a load (or a crash) copies db to mem.  The supervisor is a language *)
(* model, so any decision its validation lets pass may come at any turn.   *)
(*                                                                         *)
(* The executor is WorkflowExecutor's, cut down to what the loop around it *)
(* can tell apart: which nodes a step launches, how each of them ends, the *)
(* checkpoint after each, and the verdict.  Attempts, permits, the requests*)
(* behind a node that pauses and a join's effect on its losers are left to *)
(* that module, and so are the conditions of edges.                        *)
(***************************************************************************)
EXTENDS WorkflowGraph

CONSTANTS
    Node,           \* node ids, in the alphabetical order of the code
    Final,          \* the seed's terminal node, _ROOT_TERMINAL
    Plans,          \* the plans a replan may carry
    ApprovalAction, \* the actions the supervisor may ask a human about
    MaxTurns,       \* the requested max_turns
    DefaultTurns,   \* MAX_SUPERVISOR_TURNS, the limit of every resumed run
    MaxReplans,     \* MAX_REPLANS
    MaxCrashes,     \* bound: process crashes
    MaxResumes      \* bound: times the execution is resumed

Edge == [src : Node, dst : Node, cond : BOOLEAN]
To(s, d) == [src |-> s, dst |-> d, cond |-> FALSE]

\* A plan: new nodes and their kinds, the policy of its joins (a quorum and an
\* optional node are left out), its own edges, and the nodes it attaches to.  An
\* edge ends in one or the other (OrchestratorAssumption).
Plan == [nodes : SUBSET Node, kind : [Node -> NodeKind],
         policy : JoinPolicy \ {"quorum"},
         edges : SUBSET Edge, attach : SUBSET Node]

ASSUME OrchestratorAssumption ==
    /\ Node \subseteq Nat /\ IsFiniteSet(Node)
    /\ Final \in Node
    /\ Plans \subseteq Plan
    /\ \A p \in Plans : \A e \in p.edges :
          {e.src, e.dst} \subseteq p.nodes \cup p.attach
    /\ MaxTurns \in Nat \ {0}
    /\ DefaultTurns \in Nat \ {0}
    /\ MaxReplans \in Nat
    /\ MaxCrashes \in Nat
    /\ MaxResumes \in Nat

VARIABLES
    mem,        \* the execution in memory
    db,         \* its durable state row
    base,       \* the workflow this run was started with
    pc,         \* where the loop is
    turn,       \* turns this run has taken
    limit,      \* turns this run may take
    result,     \* each node of the current ready set: queued, or how it ended
    cancelled,  \* this run's CancelToken
    approval,   \* the durable request for each action
    concluded,  \* history: the execution was ended, not just a round of it
    stranded,   \* history: the process died between a verdict and its recall
    earlier,    \* history: the nodes that were there when a node was delegated
    reopened,   \* history: the nodes the supervisor has had retried
    crashes, resumes

run == <<base, pc, turn, limit, result, cancelled>>
history == <<concluded, stranded, earlier, reopened>>
vars == <<mem, db, run, approval, history, crashes, resumes>>

Workflow ==
    [nodes : SUBSET Node, kind : [Node -> NodeKind],
     policy : [Node -> JoinPolicy], quorum : [Node -> Nat \ {0}],
     optional : SUBSET Node, gated : SUBSET Node, edges : SUBSET Edge]

\* record: whether node_states has an entry, and whether the last error in it
\* bars a retry.  over: a budget limit has been passed.
Snapshot ==
    [status : ExecutionStatus, wf : Workflow, node : [Node -> NodeStatus],
     record : [Node -> {"absent", "open", "barred"}],
     replans : Nat, over : BOOLEAN]

\* How a node of a ready set may end; barred is a failure that is terminal.
Outcome == {"succeeded", "failed", "barred", "waiting"}

TypeOK ==
    /\ mem \in Snapshot /\ db \in Snapshot
    /\ base \in Workflow
    /\ pc \in {"idle", "turn", "deciding", "pausing", "round", "gather",
               "apply", "finish", "drained"}
    /\ turn \in Nat /\ limit \in Nat
    /\ result \in [Node -> {"none", "queued"} \cup Outcome]
    /\ cancelled \in BOOLEAN
    /\ approval \in [ApprovalAction -> {"absent", "pending", "granted", "rejected"}]
    /\ concluded \in BOOLEAN /\ stranded \in BOOLEAN
    /\ earlier \in [Node -> SUBSET Node]
    /\ reopened \subseteq Node
    /\ crashes \in Nat /\ resumes \in Nat

NoResults == [n \in Node |-> "none"]

\* seed_dynamic_workflow: a single terminal node.  The entries of nodes that
\* are not in the graph yet stand for what a delegation would make of them.
Seed ==
    [nodes |-> {Final},
     kind |-> [n \in Node |-> IF n = Final THEN "terminal" ELSE "agent"],
     policy |-> [n \in Node |-> "all"], quorum |-> [n \in Node |-> 1],
     optional |-> {}, gated |-> {}, edges |-> {}]

Init ==
    /\ mem = [status |-> "pending", wf |-> Seed,
              node |-> [n \in Node |-> "pending"],
              record |-> [n \in Node |-> "absent"], replans |-> 0, over |-> FALSE]
    /\ db = mem
    /\ base = Seed
    /\ pc = "idle"
    /\ turn = 0
    /\ limit = MaxTurns
    /\ result = NoResults
    /\ cancelled = FALSE
    /\ approval = [a \in ApprovalAction |-> "absent"]
    /\ concluded = FALSE
    /\ stranded = FALSE
    /\ earlier = [n \in Node |-> {}]
    /\ reopened = {}
    /\ crashes = 0
    /\ resumes = 0

------------------------------------------------------------------------------
(* Growing the graph.                                                       *)

\* Mutant of Frontier: an edge to the terminal node counts as a successor.
FrontierWithoutLeaves(w) == {n \in w.nodes \ {Final} : Successors(w, n) = {}}

\* _frontier: the nodes with no outgoing edge, but to the terminal node.
Frontier(w) == {n \in w.nodes \ {Final} : Successors(w, n) \subseteq {Final}}

\* _compile_delegation: each new agent runs after the whole frontier.
Delegated(w, new) ==
    [w EXCEPT !.nodes = @ \cup new,
              !.edges = @ \cup {To(s, d) : s \in Frontier(w), d \in new}
                          \cup {To(s, Final) : s \in new}]

\* compile_plan, before the merged graph is validated: a plan node without an
\* inbound edge of its own hangs on the attachment points.
Merged(w, p) ==
    LET loose == {n \in p.nodes : \A e \in p.edges : e.dst # n}
    IN  [w EXCEPT !.nodes = @ \cup p.nodes,
                  !.kind = [n \in Node |-> IF n \in p.nodes THEN p.kind[n] ELSE @[n]],
                  !.policy = [n \in Node |-> IF n \in p.nodes THEN p.policy ELSE @[n]],
                  !.edges = @ \cup p.edges
                              \cup {To(s, d) : s \in p.attach, d \in loose}]

\* What WorkflowGraph.validate asks: no cycle (nor self-loop, and so every node
\* within reach of an entry), no join of fewer than two, an end, and nothing
\* behind one.
HasNoCycle(w) == \A n \in w.nodes : n \notin Downstream(w, n)
JoinsHaveInputs(w) ==
    \A n \in w.nodes : w.kind[n] = "join" => Cardinality(Inbound(w, n)) >= 2
Ends(w) == {n \in w.nodes : w.kind[n] = "terminal"}
NothingFollowsEnds(w) == \A n \in Ends(w) : Successors(w, n) = {}

ValidGraph(w) ==
    HasNoCycle(w) /\ JoinsHaveInputs(w) /\ Ends(w) # {} /\ NothingFollowsEnds(w)

\* Mutant of PlanIsExecutable: the merged graph is not looked at.
PlanIsTrusted(w) == TRUE

\* What compile_plan demands of the merged graph.
PlanIsExecutable(w) == ValidGraph(w)

\* _validate_plan: fresh ids, known attachment points, and replans to spare.
PlanIsSensible(p) ==
    /\ p.nodes \cap mem.wf.nodes = {}
    /\ p.attach \subseteq mem.wf.nodes
    /\ mem.replans < MaxReplans

\* _validate_retry: the node has a record, has not succeeded, and its last
\* error is not a terminal one.
Retryable(n) == mem.record[n] = "open" /\ mem.node[n] # "succeeded"

------------------------------------------------------------------------------
(* Saving, loading, ending.                                                 *)

\* CheckpointManager.write, with the workflow as it stands.
Save == db' = mem'

\* The process keeps nothing of the run: what an idle execution is, is what a
\* load of the state row returns.
Unload ==
    /\ mem' = db'
    /\ pc' = "idle"
    /\ result' = NoResults
    /\ cancelled' = FALSE
    /\ turn' = 0
    /\ UNCHANGED <<base, limit>>

\* transition_to(target), the save behind it, and the end of the execution; m
\* is what memory holds by then.
Conclude(target, m) ==
    /\ CanTransition(mem.status, target)
    /\ db' = [m EXCEPT !.status = target]
    /\ concluded' = TRUE
    /\ Unload
    /\ UNCHANGED <<stranded, earlier, reopened>>

\* An exception leaves the loop: ExecutionRunner._execute records a failure,
\* and writes it with the workflow the run was started with.
Abort(nodes) ==
    /\ CanTransition(mem.status, "failed")
    /\ db' = [mem EXCEPT !.status = "failed", !.node = nodes, !.wf = base]
    /\ concluded' = TRUE
    /\ Unload
    /\ UNCHANGED <<stranded, earlier, reopened>>

\* ExecutionRunner.start of a new execution, and the EXECUTION_STARTED save.
Start ==
    /\ pc = "idle" /\ db.status = "pending" /\ resumes = 0
    /\ mem' = [mem EXCEPT !.status = "running"]
    /\ Save
    /\ base' = mem.wf
    /\ pc' = "turn" /\ limit' = MaxTurns
    /\ UNCHANGED <<turn, result, cancelled, approval, history, crashes, resumes>>

\* CheckpointManager.resume refuses a terminal state row.
Loadable == db.status \notin TerminalExecutionStatus

\* ExecutionRunner.resume: the status is made running, in memory only, and
\* the requested limit is not kept (max_turns=None).
Resume ==
    /\ pc = "idle" /\ Loadable
    /\ resumes < MaxResumes
    /\ resumes' = resumes + 1
    /\ mem' = [mem EXCEPT !.status = "running"]
    /\ base' = mem.wf
    /\ pc' = "turn" /\ limit' = DefaultTurns
    /\ UNCHANGED <<db, turn, result, cancelled, approval, history, crashes>>

------------------------------------------------------------------------------
(* A turn: the token is looked at, then the supervisor decides.             *)

\* Mutant of CountTurn: the turn is not counted.
CountNoTurn == UNCHANGED turn

\* for turn in range(1, max_turns + 1).
CountTurn == turn' = turn + 1

\* The token is free, and the supervisor is asked; its call may cost enough to
\* pass a budget limit, which nobody looks at before the next round.
AskSupervisor ==
    /\ pc = "turn" /\ turn < limit /\ ~cancelled
    /\ CountTurn
    /\ pc' = "deciding"
    /\ \E spent \in BOOLEAN : mem' = [mem EXCEPT !.over = @ \/ spent]
    /\ UNCHANGED <<db, base, limit, result, cancelled, approval, history,
                   crashes, resumes>>

\* _handle_cancellation of the orchestrator: no node is touched.
CancelBetweenTurns ==
    /\ pc = "turn" /\ turn < limit /\ cancelled
    /\ Conclude("cancelled", mem)
    /\ UNCHANGED <<approval, crashes, resumes>>

\* The turns are used up without a conclusion.
RunOutOfTurns ==
    /\ pc = "turn" /\ turn = limit
    /\ Conclude("failed", mem)
    /\ UNCHANGED <<approval, crashes, resumes>>

------------------------------------------------------------------------------
(* The decisions.                                                           *)

\* What a decision that leads to a round of the executor leaves alone.
DecisionFrame ==
    /\ pc' = "round"
    /\ UNCHANGED <<base, turn, limit, result, cancelled, approval, concluded,
                   stranded, crashes, resumes>>

\* delegate and parallel_delegate: not saved before the round launches.
Delegate(new) ==
    /\ pc = "deciding"
    /\ mem' = [mem EXCEPT !.wf = Delegated(@, new)]
    /\ earlier' = [n \in Node |-> IF n \in new THEN mem.wf.nodes \ {Final}
                                               ELSE earlier[n]]
    /\ UNCHANGED <<db, reopened>>
    /\ DecisionFrame

\* retry: _reopen_node makes the node pending again, in memory.
Retry(n) ==
    /\ pc = "deciding" /\ Retryable(n)
    /\ mem' = [mem EXCEPT !.node[n] = "pending"]
    /\ reopened' = reopened \cup {n}
    /\ UNCHANGED <<db, earlier>>
    /\ DecisionFrame

\* replan with a plan that merges: saved at once, AFTER_REPLAN.
Replan(p) ==
    /\ pc = "deciding" /\ PlanIsSensible(p)
    /\ PlanIsExecutable(Merged(mem.wf, p))
    /\ mem' = [mem EXCEPT !.wf = Merged(@, p), !.replans = @ + 1]
    /\ Save
    /\ earlier' = [n \in Node |-> IF n \in p.nodes THEN {} ELSE earlier[n]]
    /\ UNCHANGED reopened
    /\ DecisionFrame

\* replan with one that does not: InputValidationError, which nobody catches.
FailToReplan(p) ==
    /\ pc = "deciding" /\ PlanIsSensible(p)
    /\ ~PlanIsExecutable(Merged(mem.wf, p))
    /\ Abort(mem.node)
    /\ UNCHANGED <<approval, crashes, resumes>>

\* Mutant of Request: the row is not written.
RequestInMemory(a) == UNCHANGED approval

\* ApprovalService.require: the request is found or created.
Request(a) == approval' = [approval EXCEPT ![a] = "pending"]

\* request_human_approval, undecided: a first BEFORE_APPROVAL save, with the
\* status still running.
AskHuman(a) ==
    /\ pc = "deciding" /\ approval[a] \in {"absent", "pending"}
    /\ Request(a)
    /\ UNCHANGED mem
    /\ Save
    /\ pc' = "pausing"
    /\ UNCHANGED <<base, turn, limit, result, cancelled, history, crashes, resumes>>

\* The second save, with the status that says so; the run is over.
Pause ==
    /\ pc = "pausing"
    /\ db' = [mem EXCEPT !.status = "waiting_for_approval"]
    /\ Unload
    /\ UNCHANGED <<approval, history, crashes, resumes>>

\* ... granted before: the supervisor is asked again, in a turn of its own.
AlreadyGranted(a) ==
    /\ pc = "deciding" /\ approval[a] = "granted"
    /\ pc' = "turn"
    /\ UNCHANGED <<mem, db, base, turn, limit, result, cancelled, approval,
                   history, crashes, resumes>>

\* ... refused.
Refused(a) ==
    /\ pc = "deciding" /\ approval[a] = "rejected"
    /\ Conclude("failed", mem)
    /\ UNCHANGED <<approval, crashes, resumes>>

\* finalize and respond_directly, or fail: whatever is still pending is moot.
Finalize ==
    /\ pc = "deciding"
    /\ \E verdict \in {"succeeded", "failed"} : Conclude(verdict, mem)
    /\ UNCHANGED <<approval, crashes, resumes>>

------------------------------------------------------------------------------
(* A round: the executor on the graph as it now stands.                     *)

Ready == ReadyNodes(mem.wf, mem.node, mem.wf.edges)
ReadySet == {n \in Node : result[n] # "none"}

RoundFrame ==
    UNCHANGED <<base, turn, limit, cancelled, approval, history, crashes, resumes>>

\* The executor's _handle_cancellation: running nodes become cancelled, those
\* a crash left running included.
WithoutRunning(m) ==
    [m EXCEPT !.node = [n \in Node |-> IF @[n] = "running" THEN "cancelled" ELSE @[n]]]

\* The step stops before it schedules: the token, then the meter.
StopRound ==
    /\ pc = "round"
    /\ \/ cancelled /\ Conclude("cancelled", WithoutRunning(mem))
       \/ ~cancelled /\ mem.over /\ Conclude("budget_exceeded", mem)
    /\ UNCHANGED <<approval, crashes, resumes>>

\* A BEFORE_NODE checkpoint for every ready node, then a task for each.
Launch ==
    /\ pc = "round" /\ ~cancelled /\ ~mem.over
    /\ Ready # {}
    /\ result' = [n \in Node |-> IF n \in Ready THEN "queued" ELSE "none"]
    /\ pc' = "gather"
    /\ UNCHANGED mem
    /\ Save
    /\ RoundFrame

\* Leaving the scheduling loop: the BEFORE_FINALIZATION checkpoint.
BeginFinish ==
    /\ pc' = "finish"
    /\ UNCHANGED result
    /\ Save
    /\ RoundFrame

\* Nothing is ready.
Drain ==
    /\ pc = "round" /\ ~cancelled /\ ~mem.over
    /\ Ready = {}
    /\ UNCHANGED mem
    /\ BeginFinish

IsWork(n) == mem.wf.kind[n] \in {"agent", "tool"}

\* How the handler of a node may end: what only computes an output does not
\* fail, and a gate that fails was refused, for good, or raised.
OutcomesOf(n) ==
    CASE mem.wf.kind[n] \in {"agent", "approval"} -> Outcome
      [] mem.wf.kind[n] = "tool" -> Outcome \ {"waiting"}
      [] OTHER -> {"succeeded"}

\* mem with the nodes of S begun: running, and with an entry in node_states.
Begun(S) ==
    [mem EXCEPT
      !.node = [n \in Node |-> IF n \in S THEN "running" ELSE @[n]],
      !.record = [n \in Node |-> IF n \in S /\ @[n] = "absent" THEN "open" ELSE @[n]]]

\* gather returns with a result of every task; the nodes are running until
\* their outcomes are folded in, and the work may have passed a budget limit.
Gather ==
    /\ pc = "gather"
    /\ \E outcome \in [ReadySet -> Outcome] :
          /\ \A n \in ReadySet : outcome[n] \in OutcomesOf(n)
          /\ result' = [n \in Node |-> IF n \in ReadySet THEN outcome[n] ELSE "none"]
    /\ \E spent \in BOOLEAN :
          /\ spent => \E n \in ReadySet : IsWork(n)
          /\ mem' = [Begun(ReadySet) EXCEPT !.over = @ \/ spent]
    /\ pc' = "apply"
    /\ UNCHANGED db
    /\ RoundFrame

\* gather returns with a stop and every outcome is dropped: some task saw the
\* token at the head of an attempt, or a work handler saw the meter after
\* other work, or an earlier attempt of its own, had been charged.
StopInGather ==
    /\ pc = "gather"
    /\ \E S \in SUBSET ReadySet :
          \/ cancelled /\ Conclude("cancelled", WithoutRunning(Begun(S)))
          \/ /\ \E n \in S : IsWork(n)
             /\ Conclude("budget_exceeded", [Begun(S) EXCEPT !.over = TRUE])
    /\ UNCHANGED <<approval, crashes, resumes>>

\* _apply_outcomes folds in one outcome after the other, in id order, each
\* with its checkpoint.
IsNext(n) == result[n] # "none" /\ \A m \in ReadySet : n <= m

FoldFrame(n) ==
    /\ result' = [result EXCEPT ![n] = "none"]
    /\ UNCHANGED pc
    /\ Save
    /\ RoundFrame

FoldResult(n) ==
    /\ pc = "apply" /\ IsNext(n) /\ result[n] # "waiting"
    /\ mem' = [mem EXCEPT
          !.node[n] = IF result[n] = "succeeded" THEN "succeeded" ELSE "failed",
          !.record[n] = IF result[n] = "barred" THEN "barred" ELSE "open"]
    /\ FoldFrame(n)

\* A node that waits for a human pauses the run; a second one in the same
\* ready set asks for a transition that is not in the table.
FoldPause(n) ==
    /\ pc = "apply" /\ IsNext(n) /\ result[n] = "waiting"
    /\ CanTransition(mem.status, "waiting_for_approval")
    /\ mem' = [mem EXCEPT !.node[n] = "waiting_for_approval",
                          !.status = "waiting_for_approval"]
    /\ FoldFrame(n)

FoldSecondPause(n) ==
    /\ pc = "apply" /\ IsNext(n) /\ result[n] = "waiting"
    /\ ~CanTransition(mem.status, "waiting_for_approval")
    /\ Abort([mem.node EXCEPT ![n] = "waiting_for_approval"])
    /\ UNCHANGED <<approval, crashes, resumes>>

BlockingFailures(m) ==
    {n \in m.wf.nodes : m.node[n] = "failed" /\ IsBlockingFailure(m.wf, n)}

\* mem after _skip_unreachable; a skip leaves an error that bars no retry.
Skipped ==
    LET skipped == SkippedByPass(mem.wf, mem.node, mem.wf.edges)
    IN  [mem EXCEPT
          !.node = [n \in Node |-> IF n \in skipped THEN "skipped" ELSE @[n]],
          !.record = [n \in Node |-> IF n \in skipped THEN "open" ELSE @[n]]]

\* Every outcome is folded in: the run pauses, and what the skip pass did is
\* lost with the memory, or a blocking failure ends the round, or it goes on.
EndFold ==
    /\ pc = "apply" /\ ReadySet = {}
    /\ \/ /\ mem.status = "waiting_for_approval"
          /\ UNCHANGED <<db, approval, history, crashes, resumes>>
          /\ Unload
       \/ /\ mem.status # "waiting_for_approval"
          /\ mem' = Skipped
          /\ BlockingFailures(Skipped) # {}
          /\ BeginFinish
       \/ /\ mem.status # "waiting_for_approval"
          /\ mem' = Skipped
          /\ BlockingFailures(Skipped) = {}
          /\ pc' = "round"
          /\ UNCHANGED <<db, result>>
          /\ RoundFrame

\* _finish: the executor's verdict on the round, EXECUTION_FINALIZED.
Finish ==
    /\ pc = "finish"
    /\ mem' = [mem EXCEPT !.status = IF BlockingFailures(mem) # {} THEN "failed"
                                                                   ELSE "succeeded"]
    /\ Save
    /\ pc' = "drained"
    /\ UNCHANGED result
    /\ RoundFrame

\* Mutant of RecalledStatus: the verdict on the round stays as it was.
VerdictStands == mem.status

\* _recover_from_round_drain puts the status back past the transition table.
RecalledStatus == "running"

\* ... and saves it, ROUND_COMPLETED; the next turn begins.
Recover ==
    /\ pc = "drained"
    /\ mem' = [mem EXCEPT !.status = RecalledStatus]
    /\ Save
    /\ pc' = "turn"
    /\ UNCHANGED result
    /\ RoundFrame

------------------------------------------------------------------------------
(* The environment.                                                         *)

\* ExecutionRunner.cancel.
Cancel ==
    /\ pc # "idle" /\ ~cancelled
    /\ cancelled' = TRUE
    /\ UNCHANGED <<mem, db, base, pc, turn, limit, result, approval, history,
                   crashes, resumes>>

\* A reviewer decides a pending request.
Decide(a) ==
    /\ approval[a] = "pending"
    /\ \E decision \in {"granted", "rejected"} :
          approval' = [approval EXCEPT ![a] = decision]
    /\ UNCHANGED <<mem, db, run, history, crashes, resumes>>

\* The process dies and its memory with it.
Crash ==
    /\ pc # "idle"
    /\ crashes < MaxCrashes
    /\ crashes' = crashes + 1
    /\ stranded' = (stranded \/ pc = "drained")
    /\ UNCHANGED <<db, approval, concluded, earlier, reopened, resumes>>
    /\ Unload

------------------------------------------------------------------------------
Decision ==
    \/ \E new \in SUBSET (Node \ mem.wf.nodes) : new # {} /\ Delegate(new)
    \/ \E n \in mem.wf.nodes : Retry(n)
    \/ \E p \in Plans : Replan(p) \/ FailToReplan(p)
    \/ \E a \in ApprovalAction : AskHuman(a) \/ AlreadyGranted(a) \/ Refused(a)
    \/ Finalize

\* The steps the loop takes by itself.
RunStep ==
    \/ AskSupervisor \/ CancelBetweenTurns \/ RunOutOfTurns \/ Decision \/ Pause
    \/ StopRound \/ Launch \/ Drain \/ Gather \/ StopInGather
    \/ \E n \in Node : FoldResult(n) \/ FoldPause(n) \/ FoldSecondPause(n)
    \/ EndFold \/ Finish \/ Recover

Next ==
    \/ RunStep
    \/ Start \/ Resume \/ Cancel \/ Crash
    \/ \E a \in ApprovalAction : Decide(a)

Spec == Init /\ [][Next]_vars

\* The event loop runs every task that can run; model calls, agents and tools
\* have deadlines.
FairSpec == Spec /\ WF_vars(RunStep)

------------------------------------------------------------------------------
(* Properties.                                                              *)

\* The executor's verdict on a round stands in the row until _recover_from_
\* round_drain takes it back, and a crash in between leaves a row that looks
\* finished.  That window is the only one: whatever is decided, cancelled, overspent,
\* crashed or resumed, a terminal row is an end, or the verdict of a round that
\* has just drained, or what a crash in the window left.
OnlyTheWindowStrands ==
    db.status \in TerminalExecutionStatus =>
        concluded \/ stranded \/ pc = "drained"

\* The end of an execution is real: although the loop puts statuses back past
\* the transition table, no row that was ended is written or run again.
EndIsReal == [][concluded => UNCHANGED <<db, pc>>]_vars

\* A node that succeeded in the row stays so: no retry, replan, resume or
\* crash has it done again.
SuccessIsNotRedone ==
    [][\A n \in Node : db.node[n] = "succeeded" =>
          db'.node[n] = "succeeded" /\ result'[n] # "queued"]_vars

\* A round of delegation happens after what was there before it: when one of
\* its agents is launched, every earlier node has settled, but for those the
\* supervisor had reopened.
RoundsAreOrdered ==
    pc = "gather" =>
        \A n \in ReadySet : \A m \in earlier[n] :
            mem.node[m] \in TerminalNodeStatus \/ m \in reopened

\* The graph in memory and the one in the row stay as valid as an authored
\* workflow, whatever the supervisor delegates and plans, but for one thing
\* (seed_dynamic_workflow promises it without exception): a plan may bring an end
\* of its own, and then what is delegated later may hang behind it.  Nothing ever
\* follows the seed's end, nor anything but such agents a planned one.
OnlyDelegationsFollowEnds(w, before) ==
    \A n \in Ends(w) : \A m \in Successors(w, n) : n # Final /\ n \in before[m]

GraphIsSound ==
    \A w \in {mem.wf, db.wf} :
        /\ HasNoCycle(w) /\ JoinsHaveInputs(w) /\ Ends(w) # {}
        /\ OnlyDelegationsFollowEnds(w, earlier)

\* The row's graph has every node its state speaks of, so that a resume runs
\* against the topology the state was made on.  Abort, which writes the graph
\* the run began with, makes the failed row the exception.
RowKnowsItsNodes ==
    \A n \in Node : db.record[n] # "absent" =>
        n \in db.wf.nodes \/ db.status = "failed"

\* A paused row has something a human can answer: a request, or a node that
\* waits for one.
PauseCanBeAnswered ==
    db.status = "waiting_for_approval" =>
        \/ \E a \in ApprovalAction : approval[a] # "absent"
        \/ \E n \in db.wf.nodes : db.node[n] = "waiting_for_approval"

\* Every run ends: it concludes, pauses or crashes, however the supervisor
\* decides and however often it is granted what it asks for.
RunsEnd == (pc # "idle") ~> (pc = "idle")

------------------------------------------------------------------------------
(* The inductive invariants of the proofs.                                  *)

\* An execution that is not on is its row, and has no ready set.
IdleIsItsRow == pc = "idle" => mem = db /\ result = NoResults

\* Where the loop is determines the status in memory and in the row.
StatusFollowsLoop ==
    /\ pc \in {"turn", "deciding", "pausing", "round", "gather", "finish"} =>
          mem.status = "running"
    /\ pc = "apply" => mem.status \in {"running", "waiting_for_approval"}
    /\ pc \notin {"idle", "drained"} => db.status \notin TerminalExecutionStatus
    /\ concluded => pc = "idle" /\ db.status \in TerminalExecutionStatus

\* Memory has every success of the row, and a ready set has none of them.
SuccessIsKept ==
    /\ \A n \in Node : db.node[n] = "succeeded" => mem.node[n] = "succeeded"
    /\ \A n \in Node : result[n] # "none" => mem.node[n] # "succeeded"

\* What memory speaks of is in its graph.
MemoryKnowsItsNodes ==
    pc # "idle" => \A n \in Node :
        mem.record[n] # "absent" \/ result[n] # "none" => n \in mem.wf.nodes

\* What is about to pause the run, or has paused it, can be answered.
PauseHasReason ==
    /\ pc = "pausing" => \E a \in ApprovalAction : approval[a] # "absent"
    /\ pc = "apply" /\ mem.status = "waiting_for_approval" =>
          \E n \in mem.wf.nodes :
              mem.node[n] = "waiting_for_approval" /\ result[n] = "none"

\* A graph as the seed, the delegations and the plans make it.
EdgesHaveEnds(w) == \A e \in w.edges : e.src \in w.nodes /\ e.dst \in w.nodes

GraphIsGrown(w) ==
    /\ Final \in w.nodes /\ w.kind[Final] = "terminal" /\ Successors(w, Final) = {}
    /\ EdgesHaveEnds(w)
    /\ \A n \in Node \ w.nodes : w.kind[n] = "agent"
    /\ HasNoCycle(w) /\ JoinsHaveInputs(w)

GraphsAreGrown == GraphIsGrown(mem.wf) /\ GraphIsGrown(db.wf) /\ GraphIsGrown(base)

\* Behind an end there is only what was delegated when it was there.  The row's
\* graph has the nodes the run began with and memory's those of the row, so that
\* a node new in memory is new to all three.
EndsAreLast ==
    /\ \A w \in {mem.wf, db.wf, base} : OnlyDelegationsFollowEnds(w, earlier)
    /\ base.nodes \subseteq db.wf.nodes /\ db.wf.nodes \subseteq mem.wf.nodes

\* The graph never asks for less than every predecessor of a node.
GraphIsStrict(w) ==
    /\ \A e \in w.edges : ~e.cond
    /\ \A n \in Node : w.policy[n] \in {"all", "all_settled"}

\* In a snapshot m, what has begun comes after nodes that have settled, or that
\* the supervisor had done again, and what was delegated comes after what was
\* there before it.
InOrder(m, before, again) ==
    /\ GraphIsStrict(m.wf)
    /\ \A e \in m.wf.edges : m.record[e.dst] # "absent" /\ e.dst # Final =>
          m.node[e.src] \in TerminalNodeStatus \/ e.src \in again
    /\ \A n \in Node : m.record[n] = "absent" => m.node[n] = "pending"
    /\ \A n \in m.wf.nodes : \A x \in before[n] :
          n # Final /\ x \in m.wf.nodes /\ n \in Downstream(m.wf, x)

\* Memory is ahead of the row.
MemoryIsAhead ==
    /\ db.wf.nodes \subseteq mem.wf.nodes
    /\ \A n \in Node : db.record[n] # "absent" => mem.record[n] # "absent"
    /\ \A n \in reopened : db.record[n] # "absent"
    /\ pc \in {"turn", "deciding"} => mem.record = db.record

ReadySetIsInOrder ==
    /\ pc = "gather" =>
          \A n \in ReadySet :
             /\ n \in mem.wf.nodes /\ mem.node[n] \in RunnableNodeStatus
             /\ \A e \in Inbound(mem.wf, n) : mem.node[e.src] \in TerminalNodeStatus
    /\ pc = "apply" =>
          \A n \in ReadySet : mem.node[n] = "running" /\ mem.record[n] # "absent"

Order ==
    /\ pc # "idle" => InOrder(mem, earlier, reopened)
    /\ db.status \notin TerminalExecutionStatus => InOrder(db, earlier, reopened)
    /\ MemoryIsAhead
    /\ ReadySetIsInOrder
==============================================================================
