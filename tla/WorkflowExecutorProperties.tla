----------------------- MODULE WorkflowExecutorProperties -----------------------
(***************************************************************************)
(* What WorkflowExecutor is checked for and proved to have.                *)
(***************************************************************************)
EXTENDS WorkflowExecutor

\* The state row keeps the promise of DurableExecution whatever the run in
\* memory does: the checkpoints a run writes, cut off at any point by a crash
\* and continued by a resume, never revise a settled node and never leave a
\* terminal status (checkpoint/manager.py write and resume).
Durable == INSTANCE DurableExecution WITH status <- db.status, node <- db.node
ImplementsDurableExecution == Durable!Spec

\* A node whose result is durable is not dispatched again, by this run or by
\* a resumed one: "completed work is not repeated" (executor._ready_nodes).
SettledIsNotRepeated ==
    [][\A n \in Node :
          db.node[n] \in TerminalNodeStatus => calls'[n] = calls[n]]_vars

\* Work starts on durable inputs only: whatever was ever dispatched, the
\* sources of its unconditional edges are complete in the state row, so that
\* no crash can take back an input of work already done (the BEFORE_NODE
\* checkpoint of the run loop).  A join is dispatched on its policy instead.
InputsAreDurable ==
    \A n \in wf.nodes : calls[n] > 0 /\ wf.kind[n] # "join" =>
        \A e \in Inbound(wf, n) :
            ~e.cond => db.node[e.src] \in CompleteNodeStatus

\* The nodes some path of edges with true conditions leads to: an edge leads
\* out of whatever has the entries and not n.
Entries == {n \in wf.nodes : Inbound(wf, n) = {}}
OnLivePath(n) ==
    \A S \in SUBSET (wf.nodes \ {n}) :
        Entries \subseteq S => \E e \in holds : e.src \in S /\ e.dst \notin S

\* _skip_unreachable visits the nodes in the order of their ids: in this order
\* a dead path is cut in one pass.
IdsFollowPaths == \A e \in wf.edges : e.src < e.dst

\* Branches meet only in joins that wait for a success.
MeetsInJoins ==
    \A n \in wf.nodes :
        \/ \A e, f \in Inbound(wf, n) : e.src = f.src
        \/ wf.kind[n] = "join" /\ wf.policy[n] # "all_settled"

\* In such a workflow what is cut is cut to its end in one pass.
CutsAreWhole == IdsFollowPaths /\ MeetsInJoins

\* Only nodes on a live path run: one all of whose paths are cut by an untaken
\* branch is skipped, never dispatched (_skip_unreachable, _is_unreachable).
\* Other workflows keep this only until some dead node is skipped or loses a
\* race: its outgoing edges count as active from then on, and what it meets
\* elsewhere may be dispatched (_active_edge_ids).
DeadPathsDoNotRun ==
    \A n \in wf.nodes : calls[n] > 0 /\ ~OnLivePath(n) =>
        /\ ~CutsAreWhole
        /\ \E m \in wf.nodes : /\ ~OnLivePath(m)
                               /\ db.node[m] \in {"skipped", "cancelled"}

\* "Mark nodes whose every inbound path is dead as skipped" (_skip_unreachable),
\* taken at its word for ids that follow the paths.
UntakenPathsDoNotRun ==
    IdsFollowPaths => \A n \in wf.nodes : calls[n] > 0 => OnLivePath(n)

\* Every path from an entry node to n leads through g: S is what g does not
\* guard.
Guards(g, n, S) ==
    /\ S \subseteq wf.nodes \ {g, n}
    /\ Entries \subseteq S \cup {g}
    /\ \A e \in wf.edges : e.src \in S => e.dst \in S \cup {g}
Dominates(g, n) == \E S \in SUBSET wf.nodes : Guards(g, n, S)

\* Nothing behind an approval gate is dispatched before the gate's request is
\* granted, over pauses, crashes and resumes (_run_approval_node); in workflows
\* of another shape not unless the gate or a node behind it has failed, was
\* skipped or lost a race.
NothingPassesAGate ==
    \A g, n \in wf.nodes :
        /\ wf.kind[g] = "approval" /\ g # n
        /\ calls[n] > 0
        /\ Dominates(g, n)
        => \/ approval[g] = "granted"
           \/ /\ ~CutsAreWhole
              /\ \E m \in wf.nodes :
                    /\ m = g \/ Dominates(g, m)
                    /\ db.node[m] \in {"failed", "skipped", "cancelled"}

\* A durable pause can be answered: a node is waiting, and the request a human
\* is to decide exists in the approvals table (_apply_outcomes, gate).
PauseHasRequest ==
    db.status = "waiting_for_approval" =>
        \E n \in wf.nodes : /\ db.node[n] = "waiting_for_approval"
                            /\ approval[n] # "absent"

\* The agents that run at once can overshoot the step limit, each by the one
\* step it charges, never further: usage is checked before the call and
\* charged after it (_run_agent_node).
OvershootIsBounded == used <= MaxAgentSteps + MaxConcurrent

\* However pauses, crashes and resumes are mixed, a node is dispatched at most
\* MaxAttempts times, once more per resume, and MaxAttempts more per crash,
\* which forgets the attempts since the last checkpoint (_run_node).
DispatchesAreBounded ==
    \A n \in Node : calls[n] <= MaxAttempts * (1 + crashes) + resumes

\* Once the token is set no attempt begins, not even one whose task is queued
\* or asleep before its retry (CancelToken, _run_node).
CancelStopsDispatch == [][cancelled => calls' = calls]_vars

\* The nodes that have not settled when an execution is reported a success
\* are downstream of a node that failed, was skipped or was cancelled.
Abandoned(n) ==
    \E m \in wf.nodes : /\ db.node[m] \in {"failed", "skipped", "cancelled"}
                        /\ n \in Downstream(wf, m)
NothingLeftBehind ==
    db.status = "succeeded" =>
        \A n \in wf.nodes : db.node[n] \in TerminalNodeStatus \/ Abandoned(n)

\* A quorum can be had from the unconditional inputs.
QuorumsAreFirm ==
    \A n \in wf.nodes : wf.kind[n] = "join" /\ wf.policy[n] = "quorum" =>
        Cardinality({e \in Inbound(wf, n) : ~e.cond}) >= wf.quorum[n]

\* Without a crash no execution is reported a success with work left behind:
\* the loop ends only when nothing can become ready (run, _finish).  A quorum
\* that counts on an untaken branch never fires, and the run is reported a
\* success without it; max_steps has to allow a step for each node.
CrashFreeSuccessIsComplete ==
    crashes = 0 /\ QuorumsAreFirm /\ Cardinality(wf.nodes) <= MaxSteps =>
        NothingLeftBehind

\* A run that is on comes to an end: it finishes, pauses, stops or crashes,
\* and no task waits for ever for a permit another one keeps.
RunsEnd == []<>(pc = "idle")
------------------------------------------------------------------------------
(* The inductive invariant of the proofs, in parts.                         *)

\* What the row has settled, memory has too; an idle execution is its row;
\* a run is only ever on for an execution that is not over.
RowIsInMemory ==
    /\ \A n \in Node : db.node[n] \in TerminalNodeStatus => node[n] = db.node[n]
    /\ pc = "idle" => /\ status = db.status /\ node = db.node
                      /\ attempts = db.attempts /\ used = db.used
    /\ pc # "idle" => db.status \notin TerminalExecutionStatus

\* Where run() is determines the status in memory and in the row.
StatusFollowsRun ==
    /\ pc = "loop" => status = "running"
    /\ pc \in {"gather", "finish"} => status = "running" /\ db.status = "running"
    /\ pc = "apply" => /\ status = db.status
                       /\ status \in {"running", "waiting_for_approval"}
    /\ pc = "apply" /\ status = "waiting_for_approval" =>
          \E n \in wf.nodes : node[n] = "waiting_for_approval" /\ task[n] = "none"

\* Tasks exist while a ready set runs or is folded in; a node that has one is
\* not settled in the row, and runs in memory from its start to its outcome.
TasksAreOpen ==
    /\ \A n \in Node : task[n] # "none" =>
          /\ n \in wf.nodes
          /\ pc \in {"gather", "apply"}
          /\ db.node[n] \notin TerminalNodeStatus
    /\ \A n \in Node : task[n] \in LiveTask \cup OutcomeTask => node[n] = "running"
    /\ pc = "apply" => \A n \in Node : task[n] \in {"none"} \cup OutcomeTask

\* The inputs of what has a task are as durable as those of what has run.
InputsOf(n) ==
    wf.kind[n] # "join" => \A e \in Inbound(wf, n) :
        ~e.cond => db.node[e.src] \in CompleteNodeStatus
TaskInputsAreDurable ==
    \A n \in wf.nodes : task[n] # "none" \/ calls[n] > 0 => InputsOf(n)

\* A node that waits, or is about to, has its request in the approvals table.
WaitersHaveRequests ==
    /\ \A n \in Node :
          \/ node[n] = "waiting_for_approval"
          \/ db.node[n] = "waiting_for_approval"
          \/ task[n] = "waiting"
          => approval[n] # "absent"
    /\ db.status = "waiting_for_approval" =>
          \E n \in wf.nodes : db.node[n] = "waiting_for_approval"

\* Permits are not oversubscribed, and an agent that passed its budget check
\* left room for itself.
Working == {n \in wf.nodes : task[n] = "working"}
PermitsAndStepsAreBounded ==
    /\ Cardinality(Live) <= MaxConcurrent
    /\ used + Cardinality(Working) <= MaxAgentSteps + MaxConcurrent
    /\ db.used <= MaxAgentSteps + MaxConcurrent

Consistent ==
    /\ RowIsInMemory /\ StatusFollowsRun /\ TasksAreOpen
    /\ TaskInputsAreDurable /\ WaitersHaveRequests /\ PermitsAndStepsAreBounded

\* Dispatches are accounted for.  Memory is never more than one task's attempts
\* ahead of the row, so that is what a crash forgets; a node that may still be
\* started has room for one attempt more.
NodeIsCounted(n) ==
    /\ node[n] = "pending" => attempts[n] = 0
    /\ db.node[n] = "pending" => db.attempts[n] = 0
    /\ attempts[n] <= MaxAttempts + resumes
    /\ db.attempts[n] <= MaxAttempts + resumes
    /\ node[n] = "waiting_for_approval" /\ status = "running" /\ pc # "idle" =>
          attempts[n] < MaxAttempts + resumes
    /\ task[n] = "queued" => attempts[n] < MaxAttempts + resumes
    /\ task[n] = "backoff" => attempts[n] < MaxAttempts
    /\ attempts[n] <= db.attempts[n] + MaxAttempts
    /\ \/ pc = "gather" /\ task[n] \in {"none", "queued"}
       \/ pc = "apply" /\ status = "waiting_for_approval"
       => attempts[n] = db.attempts[n]
    /\ calls[n] <= attempts[n] + MaxAttempts * crashes
NewRowIsFresh ==
    db.status = "pending" =>
        /\ pc \in {"idle", "loop"}
        /\ \A n \in Node : node[n] = "pending" /\ db.node[n] = "pending"
AttemptsAreCounted == NewRowIsFresh /\ \A n \in Node : NodeIsCounted(n)

\* What has run was called, in memory as in the row.
RanStatus == {"running", "succeeded", "failed", "waiting_for_approval"}
RanWasCalled ==
    \A n \in Node :
        \/ node[n] \in RanStatus
        \/ db.node[n] \in RanStatus
        \/ task[n] \in LiveTask \cup OutcomeTask
        => calls[n] > 0

\* A gate succeeds only granted.
GatesWereGranted ==
    \A n \in wf.nodes : wf.kind[n] = "approval" =>
        /\ task[n] # "working"
        /\ "succeeded" \in {node[n], db.node[n], task[n]} => approval[n] = "granted"

Begun(n) == task[n] # "none" \/ calls[n] > 0

\* In a workflow whose cuts are whole what begins has the durable success of a
\* source, and what hangs on a skipped node alone is no longer startable.
BegunAfterSuccess ==
    CutsAreWhole => \A n \in wf.nodes : Begun(n) =>
        n \in Entries \/ \E e \in Inbound(wf, n) :
                            e \in holds /\ db.node[e.src] = "succeeded"
CutOff(n, st) ==
    \E e \in Inbound(wf, n) : /\ st[e.src] = "skipped"
                              /\ \A f \in Inbound(wf, n) : f.src = e.src
SkipsCutOff ==
    CutsAreWhole => \A n \in wf.nodes :
        /\ CutOff(n, node) => node[n] \notin RunnableNodeStatus
        /\ CutOff(n, db.node) => db.node[n] \notin RunnableNodeStatus

\* The two path properties, of what has a task as of what was dispatched.
DeadPathsStayDead ==
    \A n \in wf.nodes : Begun(n) /\ ~OnLivePath(n) =>
        /\ ~CutsAreWhole
        /\ \E m \in wf.nodes : /\ ~OnLivePath(m)
                               /\ db.node[m] \in {"skipped", "cancelled"}
GatesHoldBack ==
    \A g, n \in wf.nodes :
        wf.kind[g] = "approval" /\ g # n /\ Begun(n) /\ Dominates(g, n) =>
           \/ approval[g] = "granted"
           \/ /\ ~CutsAreWhole
              /\ \E m \in wf.nodes :
                    /\ m = g \/ Dominates(g, m)
                    /\ db.node[m] \in {"failed", "skipped", "cancelled"}

PathsAreKept ==
    /\ \A e \in wf.edges : ~e.cond => e \in holds
    /\ RanWasCalled /\ GatesWereGranted /\ BegunAfterSuccess /\ SkipsCutOff
    /\ DeadPathsStayDead /\ GatesHoldBack

\* What begins without being a join has an active input in the row.
BegunOnAnInput ==
    \A n \in wf.nodes : Begun(n) /\ wf.kind[n] # "join" =>
        n \in Entries \/ \E e \in Inbound(wf, n) :
            e \in holds /\ db.node[e.src] \in CompleteNodeStatus

\* Until a crash: what runs has a task, a pause is in the row as it is in
\* memory, and a run begins afresh or with a node that waits.
NothingIsLost ==
    /\ db.status \notin TerminalExecutionStatus =>
          \A n \in Node : node[n] = "running" => task[n] # "none"
    /\ pc = "idle" => db.status # "running"
    /\ pc = "apply" /\ status = "waiting_for_approval" => db.node = node
    /\ pc = "loop" /\ steps = 0 =>
          \/ \A n \in Node : node[n] = "pending"
          \/ \E n \in wf.nodes : node[n] = "waiting_for_approval"

\* Joins do not wait.
JoinsDoNotWait ==
    \A n \in wf.nodes : wf.kind[n] = "join" =>
        "waiting_for_approval" \notin {node[n], db.node[n]} /\ task[n] # "waiting"

\* Each step of the loop is a node that will not run again.
NotRunnable == {n \in wf.nodes : node[n] \notin RunnableNodeStatus}
StepsAreNodes ==
    pc \in {"loop", "gather", "apply"} /\ status = "running" =>
        steps <= Cardinality(NotRunnable \cup ReadySet)

\* After a pass no pending node has all its inputs decided against it by nodes
\* that succeeded.
Swept ==
    /\ pc \in {"gather", "apply"} => steps > 0
    /\ pc = "loop" /\ steps > 0 => \A n \in wf.nodes : node[n] = "pending" =>
          n \in Entries \/ \E e \in Inbound(wf, n) :
              node[e.src] # "succeeded" \/ e \in holds

AbandonedIn(st, n) ==
    \E m \in wf.nodes : /\ st[m] \in {"failed", "skipped", "cancelled"}
                        /\ n \in Downstream(wf, m)
CompleteIn(st) ==
    \A n \in wf.nodes : st[n] \in TerminalNodeStatus \/ AbandonedIn(st, n)

SuccessIsEarned ==
    /\ BegunOnAnInput /\ JoinsDoNotWait /\ StepsAreNodes /\ Swept
    /\ crashes = 0 => NothingIsLost
    /\ crashes = 0 /\ QuorumsAreFirm /\ Cardinality(wf.nodes) <= MaxSteps =>
          /\ pc = "finish" /\ BlockingFailures(node) = {} => CompleteIn(node)
          /\ db.status = "succeeded" => CompleteIn(db.node)
=================================================================================
