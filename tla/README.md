# Verification of the multi-agent orchestrator

TLA+ models of the orchestrator under `src/src/orchestration`, the TLC
configurations that check them on small instances, and TLAPS proofs of what
holds for every instance. `PROJECT.json` lists the components, the runs with
their properties, a mutation of the model for every property, the source lines
each definition models, the hazards and the findings. Paths below are relative
to `src/src/orchestration` unless they start with `docs/`, `tests/` or
`frontend/` (which are under `src/`).

## 1. Inventory

The system runs *executions* of *workflows* (graphs of agent, tool, join,
branch, approval, supervisor and terminal nodes). An API process drives them;
PostgreSQL keeps what survives it, Redis what several processes share.

| component | state it keeps | operations | what is hard in it | correct when |
|---|---|---|---|---|
| workflow executor `workflow/executor.py` | node statuses, attempts, usage of one run (in memory), its node tasks and permits, its cancel token | run, the ready set, node handlers, retries, folding outcomes, skipping, pause, stop, finish | tasks of a ready set interleave at every await; a crash leaves what the last checkpoint wrote; two siblings pausing; budget charged after the call; the order of the skip pass | settled work is not repeated, gates hold, inputs are durable, runs end |
| graph and conditions `workflow/graph.py`, `workflow/conditions.py` | none | readiness, join policies, validation, evaluating a condition | a decided edge and an undecided one look alike; values of different kinds are compared | opposite branches exclude each other |
| execution state `domain/execution.py`, `domain/enums.py` | the transition table | can_transition, mark_* | a transition from a status to itself is illegal | the row only moves forward |
| checkpoints and repositories `checkpoint/manager.py`, `persistence/` | checkpoint rows, state row, header, a memory of hashes | write, versioned save, resume, rewind, claim | several statements per write, two writers, lost answers; the claim is over before the work starts; no version in `write` | checkpoint, row and header move together, a skipped write is in the row |
| approvals `policies/approvals.py` | the approvals table | resolve, approve, reject, sweep | reads and writes in two transactions; deadlines evaluated on read; two reviewers | each request is decided once, and whoever is told so can rely on it |
| execution runner and routes `api/runner.py`, `api/routes/executions.py` | the table of running tasks | create, start, resume, cancel, approve, _execute | awaits between the check and the start; the entry outlives the pause; a retried create | one task per execution, an end is final, a decision is taken up |
| budget `budget/meter.py` | usage | check, record | concurrent branches pass one limit together | overshoot is bounded, a stop stays visible |
| orchestrator `runtime/orchestrator.py` | rounds of delegation, the graph they grow | decide, compile, drain, recover | a crash inside a round; a graph that is rewritten while it runs | rounds are ordered, the graph stays valid, runs end |
| supervisor `supervisor/`, agent registry | what it reads off the state | decide, validate, degrade, rank, delegate, retry, conclude | a stateless fallback; a registry edited under it | what it decides can be carried out, and it concludes |
| agent runtime `agents/runtime.py`, tools | one turn loop, tool permits | model call, tool batch, suspension, charge | one denied or gated call among allowed ones; a budget stop inside; retries over all of it | no gated call without its approval, every run settles |
| remote tools `tools/mcp.py`, `tools/registry.py` | the client's lock, numbers and pipes; the registry | start, discover, request, read, close | callers leave a shared pipe before their answer is read | an answer is its caller's own |
| policy engine `policies/engine.py` | call counters | evaluate, record_call | counters are per process, shared by executions | ceilings hold |
| Redis coordination `coordination/redis.py` | locks, slot counters, streams | acquire, extend, release, slots | a time to live that ends under its holder; the dead keep what they held | one holder, bounded admission, leaks heal |
| events `events/`, the live route and its page | sequence numbers, two sinks, viewers' cursors | emit, resume numbering, replay, tail, reconnect | concurrent publishers, numbering across a resume, a trimmed stream | numbers continue, nothing is skipped, connections close |
| LLM layer, provider settings `llm/`, `api/state.py`, `api/routes/providers.py` | client, router, stored credentials | put, delete, activate, reload, call with retries and repairs | settings that change under running calls | settings take effect, what a router offers its client can serve |
| model router `routing/model_router.py` | none | select | preferences against what is connected | one provider more never hurts |
| CLI, observability, evaluation, migrations, frontend otherwise | none of the engine's | — | — | — |

How they interact: a route calls the runner; the runner starts an asyncio task
that holds a deployment slot (Redis) and runs an executor, or the orchestrator,
which asks the supervisor and runs executors; the executor calls the checkpoint
manager, the approval service through its gate, the meter, and agents. An agent
calls the model through the router and the client it captured at its start, and
its tools pass the policy engine and the approval service. Each step emits
events to a durable log and to a stream that pages follow. A paused execution
has no task: a reviewer's decision goes to the approvals table and then through
the runner, which loads the state row and starts a new task. The in-process
handle and the row are the two places an execution lives; many hazards are
about their disagreement, and most others about what was read before an await.

## 2. Plan and how it was carried out

The order was the core first: `WorkflowExecutor` over `DurableExecution`, then
what decides and starts (`Approvals` over `ApprovalLedger`, `ExecutionRunner`,
`Orchestrator`), then what a node does (`AgentRuntime` with `PolicyEngine`),
what keeps it (`Persistence` over `CheckpointStore`), what others see of it
(`EventStream`), what processes share (`Coordination`), what reaches the models
(`Gateway`), and last the deciding parts that wait for nobody (`Supervision`,
`ModelRouting`, `Conditions`, `RemoteTools`).

Components compose as follows. `WorkflowExecutor` and `Orchestrator` EXTEND the
vocabulary and the graph. What a component needs of another is taken from what
that one is shown to do: one gate has one request (`Approvals`), a write is
atomic (`Persistence` refines `CheckpointStore`; the other modules save in one
step), one run at a time (`ExecutionRunner`, and `Persistence` for the case that
it is not). `AgentRuntime` is the runtime with the engine (EXTENDS), the
approvals table and the executor's node task around it; `EventStream` is bus,
sinks, route and page; `Gateway` is routes, stored rows, application state,
client, router and calls. `MCDecisions` extends four modules that share no
state, and so does `DecisionsProofs`; `MCRedis` extends the two that share a
Redis. Their names are apart for that.

## 3. Modules

| module | models |
|---|---|
| `ExecutionStates` | the two status vocabularies and the transition table |
| `WorkflowGraph` | readiness, joins, reachability, blocking failures, the skip pass, as operators over a workflow record |
| `WorkflowExecutor` | one execution: loop, node tasks, checkpoints, decisions, cancel, budget, crash and resume |
| `DurableExecution` | abstract: what the state row promises its readers |
| `WorkflowExecutorProperties` | its properties, the refinement and the inductive invariant |
| `ApprovalLedger` | abstract: a request is opened once, settled once, and a gate is told what holds |
| `Approvals` | gates, reviewers, deadlines, sweeps over the approvals table |
| `ExecutionRunner` | handlers, the table of handles, claim, background tasks of one execution |
| `Orchestrator` | a dynamic execution: turns, decisions, delegation, plans, rounds, the recall of a round's verdict, crash and resume |
| `PolicyEngine` | the layers of a tool call's authorisation |
| `AgentRuntime` | agents' turn loops with tool batches, approvals, permits, budget, retries, suspension and resume |
| `CheckpointStore` | abstract: an append-only history without repetition, and a row that moves with it |
| `Persistence` | checkpoint writes, versioned saves, resumes and rewinds of two writers, statement by statement |
| `EventStream` | numbering, the two sinks, the capped stream, viewers with backlog, tail and reconnection |
| `Coordination` | locks and slot counters with times to live, deaths and lost replies |
| `Gateway` | provider settings, the client and router rebuilt from them, calls with retries and repairs |
| `ReferenceAgents` | the agents and models the program ships with, as tables |
| `Supervision` | the supervisor's decision with validation and the heuristic fallback, over turns |
| `ModelRouting` | selection of a model while providers come and go |
| `Conditions` | paths, operators and groups of edge conditions |
| `RemoteTools` | an MCP server's handshake, discovery and calls over one pair of pipes |
| `MC*` | the small instances |
| `*Proofs` | the theorems |

### WorkflowExecutor

`status`, `node`, `attempts` and `used` are the fields of `ExecutionState` in
memory; `db` is the row that `CheckpointManager.write` replaces in one
transaction; `approval` is the approvals table; `task[n]` is the coroutine of
node `n` in the present ready set and `pc` the place of `run()`. `calls`,
`crashes` and `resumes` are history or bounds. An action is what happens between
two awaits that matter, with the checkpoint that follows it.

- A condition is whether it holds (`holds`, chosen once: outputs do not change).
  The code evaluates the active edges anew at each step; a condition on what
  does change (`total_retries`, `elapsed_seconds`) could flip, and is left out.
- A node id is a number; `<` is the alphabetical order in which the code visits
  nodes.
- The budget is its agent-step dimension; the others are compared the same way.
  The check comes before the call and the charge after it, as in the code.
- Handlers may fail, retryably or not, with or without a charge; a timeout is
  one of those failures. Backoff keeps the permit, as in the code.
- The `BEFORE_NODE` checkpoints of one ready set write one and the same state
  and are one `Save`. `READY` is a status the code never assigns.
- One gate or gated agent asks for one request; who decides it and when is
  `Approvals`'. A gate that raises (a lost database, a raced insert) fails its
  node, with its request stored or not.
- The budget is checked and charged as the engine does it. `reserve`, `commit`,
  `release` and `fit_parallel_branches`, which would hold before they spend, have
  no caller in the repository: `OvershootIsBounded` is all that the executor can
  promise.

### Approvals

A transaction is one action; what a caller read in one transaction and uses in
the next is in `gate` or `reviewer`. `Asks` maps a gate to the id it computes:
the id of a tool call leaves out the node, so two gates may share one. Time is
the set `overdue`. A reviewer chooses a request, records a verdict with the
arguments as asked or edited, and is told *recorded* or *refused*. `Abandon` is
a gate whose call is over, or whose process died.

### ExecutionRunner

A handler runs from one await to the next. `handle` is `_runs[execution_id]`,
`run` the tasks ever started, `lock` the advisory lock, `row` the status in the
state row. A task is `WorkflowExecutor` seen from outside: it waits for a slot,
writes, consults a gate, pauses, ends in any status, and pops the table's entry,
whosever it is. That nothing succeeds behind a gate unapproved is the executor's
(`NothingPassesAGate`). `raced` is a
history variable: two handlers were at once between the look at the table and
the start of a task. One API process, as `docs/deployment.md` states under
"Single-process execution ownership"; a database error is not modelled.

`DecisionsAreTakenUp` is what the routes do achieve: a decision on a paused
execution that has left the table reaches the row, whoever else claims, resumes
or cancels it meanwhile, since only one claims it and that one starts it; a crash
is the exception. `DecisionsAreActedOn` asks it of every decision and fails (see
the findings).

### Orchestrator

`mem` is the execution in the process, `db` its row, both snapshots of one
shape: a save copies the one to the other, a load or a crash the other way.
`base` is the workflow object `ExecutionRunner._execute` holds, which an
exception writes back whatever the graph has become. `turn` and `limit` are the
loop's, and a resumed run gets the default limit, as in the code.

- The supervisor may take any decision that `validate_decision` lets pass, at
  any turn, with any of the plans given. Which decisions it really takes is
  `Supervision`'s part.
- A round is the executor cut down to what the loop can tell apart: which nodes
  are launched, how each ends, the checkpoint after each fold, the verdict.
  Attempts, permits and a join's effect on its losers are `WorkflowExecutor`'s;
  edges are unconditional and no planned node is optional.
- An approval node inside a round answers at random (granted, refused,
  waiting); only the supervisor's own requests have rows here.
- An entry in `node_states` is `record`: none, one whose last error allows a
  retry, one that bars it.
- A budget is a flag that any charge may raise; who looks at it and when is as
  in the code, and no one does between turns.

### AgentRuntime and PolicyEngine

A run is one agent node of an execution, driven by the node's attempts as
`_run_node` drives it. The calls of one model reply sit in slots, each with its
`stage` from asked through authorised, queued for a permit and running to a
result; `gather` waits for all of them. `counts` is the engine's tally, which
the process shares; `request` is the approvals table; `used` is what the meter
was charged, `tally` what it will be charged when the run returns.
`registered` is the registry, which may change under a run; `definition` is what
the run captured. Model replies are arbitrary members of `Replies`. Repair of
malformed output is one more reply; the observer's and recorder's transactions
may fail and then fail or retry the node.

Steps of the code the model takes and no property objects to: in a batch with a
forbidden call the other calls run; when one call of a batch suspends the run,
the results of the others are dropped uncharged and the calls run again after
the decision; a failed or suspended invocation is never charged; a budget stop
inside a tool becomes a failed tool result; the backoff between a tool's
attempts keeps the permit; `max_calls` does not count calls that a human
granted; the policy is asked with the registry of the moment while the run goes
on with its captured definition; and a reviewer's modified arguments never reach
the tool (`domain/approval.py:156` has them, nothing reads them). Tool nodes of
a workflow bypass the engine; they are `WorkflowExecutor`'s.

### Persistence

One action is one statement or one commit at READ COMMITTED. A write reads the
next sequence, looks for the hash, inserts, saves the row and commits
(`Number` … `Commit`); the answer to a commit may be lost (`CommitUnheard`), and
any statement may fail (`Rollback`). A second insert of one sequence waits for
the first's transaction and then fails. `cache` is `_last_hash` of each process
and `copy` the version that a writer's state in memory carries, which a rolled
back save leaves ahead. `Raced` and `disturbed` are histories for what must be
excepted. A content stands for all a checkpoint is hashed over.

Not taken further: production never asks for a version (`check_version=False`),
so that a lost update between two racing writers is possible, as
`ExecutionRunner` allows; after `resume_from_sequence` a versioned save always
conflicts; nothing calls `forget`, so the memory of hashes grows.

### EventStream

An emitter takes a number and delivers to both sinks side by side; either may
fail. The stream is a sequence of which a prefix is trimmed; an id is a
position. A viewer is the live page: it reads the status, the durable log, and
then connects to the route, which replays the backlog and follows the tail; it
drops and returns with its last id. A run of the execution begins with the
highest persisted number.

A connection that is in the tail when the execution ends may stay open for ever,
against the docstring at `api/routes/executions.py:414`: the entry the route
waits for may come before the status is durable, since `_finish` emits before
the finalising checkpoint commits, and the deployment emits no
`CHECKPOINT_CREATED` after it (`api/state.py:180`). `LateConnectionsClose`
states what does hold: connections opened, or dropped, after the end close.

### Coordination

Each Lua script is one action, and the reply may be lost. Time is `Tick`, on
which keys expire. `lease` and `lapsed` are histories: how long a worker may
believe it holds the lock, and whether the counter ran out under a task. In
production only `execution_slot` is used; locks and cancel flags have no caller.
`LeaksHeal` speaks of a counter at its limit with nobody working: a counter that
leaked a part of its slots does not heal under steady traffic, because every
grant renews the time to live (against `coordination/redis.py:14`, which has it
expire).

### Gateway

An operator's request is a transaction and then a reload, which reads the rows
and the active provider, replaces the client, then the router, and then closes
the old client's adapters one by one, with other requests in between. A run
captures client and router at its start. `settled` and `torn` are histories:
the last change met no other, and a reload failed between client and router.
The mock provider is left out: it is always there and never fails.

What the exceptions in the properties stand for: two overlapping requests may
install a client or router for rows that have changed since, until the next
reload; if `build_default_router` raises (a chosen model of a provider whose
key was removed, and nothing else connected), the request fails although it is
stored, the client is new, the router old, the old client is never closed, and
the process cannot start again. A run that is calling while its client closes
gets an error that is not retried. Other processes never learn of a change.

### Supervision, ModelRouting, Conditions, RemoteTools

`Supervision` has the tasks as sets of words and the reference agents with the
keywords those words match, so that ranking, the candidate limit and chance
matches are the program's own. Node ids are ordered as the code's. The model's
reply is used if `validate_decision` lets it pass, and the heuristic decides
otherwise. `TurnsArePaidFor` lets a failure pay for two turns, the one it spoils
and its retry: one turn would do in short runs, but a node that the fallback
reopens while a source is pending again can be skipped, so that its retry brings
nothing. It excepts runs in which a node failed for good: it
stays in the frontier, nothing delegated after it ever becomes ready, and the
fallback delegates to the same agents up to the turn limit, against the docstring
of `_agents_already_used` (`supervisor/heuristic.py:196`). Other steps the model
takes: a retry has no limit of its own; agents ranked below the candidate limit
are never delegated to although the conclusion says that no unused agent
matches; a synthesis agent may run before the work it is to combine; a custom
output key lets the fallback repeat an agent.

`ModelRouting` is `select` over the whole catalogue. A pinned model passes every
filter, the allowed providers included, and so is excepted from part of
`ConnectingOnlyHelps`. In production no caller passes an estimate of tokens.

`Conditions` has values of every JSON kind and strings as codes, which is enough
for paths, digits, signs and containment. `eq` and `ne` are both false of a
missing value, and so are `lt` and `gte` of values without an order: then no
branch is taken, and `BranchesPartition` says exactly when. A segment like `--1`
raises, as does looking a list up in a dict, although `_contains` is documented
never to; `True` equals 1.

`RemoteTools` has the client's requests with their numbers, the fair lock, both
pipes and a server that answers in any order, or never, writes other lines and
may end. A caller leaves at any await, as `Tool.invoke`'s deadline and a
cancelled node make it; then its request may still be carried out, and its
answer is read by whoever holds the lock next. The lock is not a variable:
numbers are taken on the way to it and it is fair, so it is with the smallest
number in flight. `close_app_state` closes the client after the runner has seen
its tasks end. A line that is JSON but no object (a log line `1`, say) makes
`message.get` raise an `AttributeError` in a call it has nothing to do with,
although the comment at `tools/mcp.py:169` has lines of logs ignored. A server
that fills its stderr stops, since nobody reads that pipe: to a caller it is one
that never answers. An application that does not start leaves the server to end
by itself. The client never starts its server again.

## 4. Runs

| run | what it checks | distinct states |
|---|---|---|
| `executor` | 6 invariants, the refinement of `DurableExecution`; every run ends | 408,990 |
| `executor_merge` | a violated expectation (see the findings) | counterexample |
| `executor_crash` | a violated expectation (see the findings) | counterexample |
| `approvals` | an acknowledged decision stands; refinement of `ApprovalLedger` | 363,014 (with symmetry) |
| `runner` | an invariant, an action property; decisions are taken up | 33,117 |
| `runner_wakeup` | a violated expectation (see the findings) | counterexample |
| `orchestrator` | 4 invariants; every run ends | 199,228 |
| `agent` | 4 invariants; every run settles | 267,227 |
| `redis` | 4 invariants of two modules; late connections close, leaks heal | 859,005 |
| `persistence` | skipped writes are stored; refinement of `CheckpointStore` | 374,409 |
| `gateway` | 3 invariants | 804,750 (with symmetry) |
| `decisions` | 3 invariants, 2 action properties of four modules | 531,695 |

**Bounds and why they are enough.**

- *Executor*: twelve workflows of three to five nodes, each made for one
  mechanism (a tolerant fan-in, a race, a quorum, a branch, a gate behind an
  agent and behind a branch, two gates at once, a gated and an optional agent, a
  late condition, a join numbered before its loser, a branch exit numbered after
  what follows it, two branch nodes whose exits meet in a node that is no join).
  Two permits make two handlers overlap and a third wait. Two
  attempts show a retry and its exhaustion. A limit of one agent step is passed
  by two agents together. One crash and two resumes give pause, resume, crash,
  resume. `MaxSteps` is larger than any of the workflows needs, so that the
  cut-off never hides anything. The inductive invariant of the proofs
  (`Consistent`, `AttemptsAreCounted`, `PathsAreKept`, `SuccessIsEarned`) was
  checked on the same instances before it was proved.
- *Approvals*: two gates on one request and one on another, with two reviewers,
  is the smallest instance in which every pair of actors meets on one request.
- *Runner*: two handlers race; three tasks are a first run, a resumed one and
  its rival; one crash. A handler sets out only if `MaxRuns` leaves room for the
  task it may start, so the bound never stops one that has set out. The wake-up
  needs one handler, two tasks and no crash.
- *Orchestrator*: three nodes, the terminal one numbered between the other two,
  so that a delegated id sorts before and after it. Two nodes to add give a
  delegation after a delegation, two agents at once, a plan after a delegation
  and a delegation after a plan; the plans are a tool on an attachment point, one
  that does not merge, a gate before a tool, and a terminal node, which gets the
  next delegation behind it. Three turns are a delegation, a
  retry or a plan of its result, and a conclusion; the resumed run has two. One
  crash and one resume meet every `pc`.
- *Agent*: two runs of one agent in one execution share counters, requests and
  meter; a batch is a call that may be made once, with two tool attempts, and a
  call for a human; two node attempts, one resume, one new registration without
  the gated tool; one permit, so that a kept one blocks the other run; a limit
  of one tool call, so that the second charge exhausts it.
- *Redis, events*: two emitters overlap, three events over a run and its resume make a
  repeated number visible, two faults are a lost row and a crash or a drop, and a
  stream that keeps one entry trims under the viewer.
- *Redis, locks and slots*: a lock's life of two ticks lets a late release meet a new
  owner; three tasks on two slots show a refusal and an admission too many.
- *Persistence*: two writers in two processes race with two contents, the one to
  go back to and the one that ends the execution; three versions are a create, a
  save and a rival's save or a rewind.
- *Gateway*: two operators' changes overlap, over a provider that needs a key and
  one that does not, with every stored start; one run captures before, between
  or after. Two attempts and one repair are four calls.
- *Decisions*: eight agents, more than the fallback looks at; four turns with one
  reply of the model, one failure and one edit of the registry; requests in
  every preference, with limits that exclude models and with a pin; all pairs of
  a value, a path and an expected value of each kind; two callers with three calls
  after the handshake, so that one may leave, call again and meet its own old
  answer, one stray line, and two tools whose names fold into one.

Deadlock is checked only in `approvals`: in the other runs executions end, and
so do the bounded numbers of requests, faults and saves.

**Fairness.** The liveness properties assume weak fairness of what the event
loop runs: the steps of a run (`RunsEnd`, twice), of each task and of each
handler that has set out (`DecisionsAreTakenUp`, `DecisionsAreActedOn`), of each agent run (`RunsSettle`), and
of each viewer's own steps (`LateConnectionsClose`). The asyncio loop runs every
ready coroutine, and an agent or tool call carries a deadline, the node's or
else its definition's. `LeaksHeal` assumes that time passes. Nothing is assumed
of people, requests, decisions of a model, cancellation, crashes or drops.

**Findings.** `executor_crash`: a crash between the checkpoints of two siblings
leaves one `RUNNING` in the row; the resumed run never schedules it and reports
success with everything behind it left undone.

`executor_merge`: `_skip_unreachable` promises to skip every node "whose every
inbound path is dead", but a skipped node counts as complete from the next pass
on. Two untaken exits skipped in different passes, and a node that waits for
both without being a join, give a dispatched node no path leads to; skipped in
one pass they give a skipped one. An attempt to prove the property for ids that
follow the paths came upon it. Hence `CutsAreWhole` (ids follow the edges, and
branches meet only in joins that wait for a success), under which
`DeadPathsDoNotRun` and `NothingPassesAGate` are proved without reservation;
for other workflows they say what must have happened before.

`runner_wakeup`: a comment of `tests/integration/test_api.py:646-648` has the
background task of a paused execution gone, and `/approve` resuming by itself.
The pause is durable, and its request visible, before the task has popped its
entry; a decision in that window is recorded, `resume` finds the entry and
returns `False`, the route ignores that (`api/routes/executions.py:268`), and the
execution waits for a decision it has until somebody posts a resume.

**Other steps that disagree with a text or are surprising**, each of which a
model takes, so that the properties are stated around it:

1. A node with an unconditional and a conditional input starts before the
   conditional one is decided (`workflow/graph.py:334`, against
   `workflow/executor.py:378-380`; workflow `LateCondition`).
2. A node behind an untaken branch runs if the skipped branch exit sorts after
   it (`workflow/executor.py:951`, against 942 and 394-395; workflow
   `Misnumbered`). Hence `IdsFollowPaths` in `CutsAreWhole`.
3. A loser of an ANY join whose task is queued already is dispatched after all
   (`workflow/executor.py:771`, against 764-765; workflow `JoinFirst`).
4. Two gates with one key both find no request, and the second insert raises out
   of `resolve`; so does an expiry that loses to a reviewer
   (`policies/approvals.py:156`; `gate[c] = "error"`).
5. Two resumes start two tasks over one state (`api/runner.py:114`). Hence the
   names that end in `UnlessRaced`.
6. A crash between a round's verdict and its recall leaves a row that looks
   finished, which no resume will take (`runtime/orchestrator.py:522`), in just
   the window that `docs/dynamic-orchestration.md:62-65` says is covered.
   `OnlyTheWindowStrands` shows, and is proved, that there is no other.
7. A plan may bring a terminal node; the next delegation hangs its agents on it,
   the graph is no longer valid, and the replan after that fails the execution
   for it (`runtime/orchestrator.py:381`), against the docstring at 82-84, which
   has the graph "always exactly as valid as a hand-authored one". `MCPlans` has
   such a plan, and `GraphIsSound` states the exception: behind an end that a plan
   brought there is nothing but agents delegated when it was there, and behind the
   seed's own end nothing.
8. Plans with a join on `any` break `RoundsAreOrdered`, hence
   `PlansAreStrict`: let a plan hang 3 on 1 and on a 4 of its own, with `any`. A
   crash between the checkpoints of 3 and of 4, which ran side by side, leaves 3
   done and 4 running in the row; resumed, the supervisor's next delegation hangs
   on 3 alone and starts beside 4, which is run again (TLC finds it when
   `MCPlans` has such a plan).
9. A quorum that counts on an untaken branch is never met: the join waits, the
   loop finds nothing ready and the run is reported a success without it
   (`workflow/executor.py:321`). So is a run that uses up `max_steps` (311).
   Hence the hypotheses of `CrashFreeSuccessIsComplete`.

## 5. Proofs

All proofs are for any values of the constants within the named assumptions of
each module (`ConstantsAssumption`, `AsksAssumption`, `RunnerAssumption`,
`OrchestratorAssumption`, `PolicyAssumption`, `RuntimeAssumption`,
`CoordinationAssumption`, `StreamAssumption`, `GatewayAssumption`,
`PersistenceAssumption`, `SupervisionAssumption`, `RoutingAssumption`,
`ConditionsAssumption`, `RemoteToolsAssumption`): finite sets
where something is counted, functions of the right type, natural bounds, JSON
values made of JSON values, well-formed workflows and plans. Workflows are acyclic, which the routes and the supervisor validate
before a workflow is stored or run (`workflow/graph.py:145`, called from
`api/routes/workflows.py:28` and `supervisor/supervisor.py:347`); of the
executor's theorems only `SuccessIsComplete` uses it. One theorem about dynamic
executions has a hypothesis on the plans, which a definition names and `MCPlans`
meets: `PlansAreStrict` in `DelegationsComeAfter`. Nothing else restricts the shape of workflows, plans,
rules or replies.

- **Executor.** Type correctness first. `Agreement` is inductive on top of it:
  what the row has settled memory has too, an idle execution is its row, a run
  is only on for an execution that is not over (`RowIsInMemory`); `pc` fixes the
  status (`StatusFollowsRun`); tasks belong to nodes the row has not settled
  (`TasksAreOpen`). Without it neither the refinement nor `SettledIsNotRepeated`
  is inductive: a dispatch could hit a node the row has settled. From it follow
  `Refinement` (each step is a step of `DurableExecution` or a stutter) and
  `NothingIsRepeated`. `InputsAreAlwaysDurable` adds that what has a task had
  durable inputs at launch and that completion is kept; `PausesCanBeAnswered`
  that every waiter's request exists; `OvershootIsAlwaysBounded` that usage plus
  the agents at work is within the limit plus the permits, with the
  cardinality lemmas this takes. `CancelIsRespected` follows from the actions.
  `DispatchesAreAlwaysBounded` counts: memory is never more than one task's
  attempts ahead of the row, so that is what a crash forgets, and a node that may
  still be started has room for one attempt more (`NodeIsCounted`).
  `PathsAreAlwaysKept` is the induction along the graph: what is launched has an
  input that holds from a settled source (`ReadySource`), that source was itself
  called or settled without running (`RanWasCalled`), and the sources before it
  are covered by the invariant, since they began earlier. Where cuts are whole the
  source even succeeded (`BegunAfterSuccess`), because a pass that skips a node
  skips what hangs on it alone (`PassCutsOff`, `SkipsCutOff`). It gives
  `DeadPathsAreNeverRun` and `GatesAreNeverPassed`. `SuccessIsComplete` takes the
  least node, in the order of the graph, that is neither settled nor behind a
  node that did not succeed: all its sources succeeded, so it is ready, or the
  last pass would have skipped it (`Swept`), or it waits and then is ready again
  (`BegunOnAnInput`); and the loop cannot stop at `max_steps` first, since each
  step spends a node (`StepsAreNodes`).
- **Approvals.** Type correctness, then: the row only advances along
  absent, pending, decided (`RowAdvances`), so a settled request stays
  (`SettledStays`) and an acknowledged decision is in the row. A gate that holds
  a final answer holds the row's (`AnswersHold`), so two gates agree
  (`AnswersAgree`). `Refinement` maps each step to a step of the ledger.
- **Runner.** Type correctness. `Consistent` is inductive:
  one handler gets past the header and there is no row before it saves
  (`CreatesOnce`); without a race the table names the one live task, and while
  a handler is about to start one there is none (`TableIsRightUnlessRaced`);
  whoever is about to write has an execution that is not over
  (`AloneUnlessRaced`). The first gives `CreatesOneTask`, the others
  `TableIsRight` and `EndIsFinal`: since every task writes without a version,
  a terminal status is safe only because the one live task is the writer.
- **Orchestrator.** Type correctness, with the lemmas that a delegation and a
  merged plan are workflows. `Statuses` is inductive: an idle execution is its
  row, `pc` fixes the status, a run is on only over a row that is not terminal
  (but for the window), and what was concluded is idle and terminal; it gives
  `WindowIsTheOnlyOne` and `EndsAreReal`. `SuccessIsKept` (memory has the row's
  successes, a ready set has none) gives `SuccessStands`: without its second
  part a fold could overwrite a success. `MemoryKnowsItsNodes` and
  `PauseHasReason` carry the graph and the reason of a pause through the steps
  before the save, for `RowsKnowTheirNodes` and `PausesCanBeAnswered`.
  `GraphsAlwaysGrow` follows the graph: a delegation and a merge keep it without
  a cycle, its edges between its nodes, its joins with two inputs and nothing
  behind the seed's end (`GraphIsGrown`), since paths survive growth and new
  edges lead only into new nodes, or from them to the end. `GraphsAreSound` adds
  what is behind ends (`EndsAreLast`): a plan hangs nothing on one, since then the
  merged graph would not pass; a delegation may, on one that is there, and then
  `earlier` has it. A node new in memory is in no other graph yet, so what
  `earlier` gains does not touch them.
  `DelegationsComeAfter` is the induction along those graphs. `Order`, checked
  by TLC first, says of memory and of the row (which may be one checkpoint
  behind, `MemoryIsAhead`, and is what a crash leaves) that what has begun comes
  after nodes that are settled or were reopened, and that what was there at a
  delegation lies upstream of the agents delegated: they hang on the frontier,
  and in a finite graph without a cycle every node leads to it (`SinkExists`, by
  a well-founded minimum). `OrderIsEnough` then walks from an unsettled earlier
  node down to the one about to start, and meets a node that began too soon.
- **Agent runtime.** `LayersOnlyNarrow`: with more rules, and later in the tally
  of calls, the verdict on a call is never laxer than before. `Typed` is type
  correctness with the fact that a busy slot holds a call. `GateHolds` needs that every slot
  past authorisation holds a call that was allowed outright or whose own request
  was approved, and that requests only move on (`SlotsAreCovered`,
  `RequestsMoveOn`). `WaitsForSomething` needs that a gated slot's request exists
  already when its run suspends. `BudgetStaysSpent` rests on charges that only
  grow. `CeilingIsNeverPassed`: the calls begun, plus those let through that have
  not begun, are within the engine's count, and the count is within a limit that
  some registration allowed; it is raised in the step that lets a call through,
  whoever drives the agent.
- **Services** (`ServicesProofs`, which extends three modules that share no
  state; two of them name their `Init`, `Next` and `Spec` apart for that).
  *Coordination*: `LocksExclude` is inductive with its type. `Counted` (unless
  the counter lapsed, it counts at least the tasks at work) gives
  `AdmissionIsBounded`.
  *Event stream*: `NumbersAlwaysContinue` needs that the counter is never below a
  number in the rows (`RowsAreCounted`) and that what emitters still have to
  write carries numbers nobody else has, above those of earlier runs
  (`DeliveriesAreNumbered`); a run that begins takes the highest persisted
  number, which exists since the numbers have a bound (`HighestIsHighest`).
  `NothingIsEverSkipped` keeps two promises for a connected viewer, up to its
  last id and up to the route's cursor (`ViewIsComplete`): a replay takes the id
  back behind the cursor, a reconnection takes the cursor back to the id.
  *Gateway*: `Sound` is type correctness with the fact that what runs and requests
  refer to is among the clients. `SettingsAlwaysTakeEffect` needs that a request
  that met no other is the only one at work (`AloneIsAlone`), so that what it has
  read is still stored when it installs (`ReadsAreCurrent`).
  `OffersAreAlwaysServed` needs the same of the installed pair
  (`InstalledOffersAreServed`), which a run captures whole, and that adapters come
  and go without changing a client's keys (`ClientUpdates`).
  `CallsAreAlwaysBounded` counts requests by round (`CallIsCounted`).
- **Persistence.** `IInv` has five parts: types; what a write in progress holds
  (`WriteInv`); whose insert is uncommitted, and that no two are for one sequence
  (`InsertInv`); which versions writers and checkpoints may carry (`VersionInv`);
  and what the memory of hashes may hold, by process (`CacheInv`). It gives
  `VersionsAreApart`, `SkipsAreSound`, and `StoreIsImplemented`, in which a
  commit is the store's one step and all else stutters; that no snapshot occurs
  twice rests on `InsertInv`, since the look for the hash and the insert are two
  statements.

- **Decisions** (`DecisionsProofs`, over the four modules that decide by
  themselves). `MinimalExists`, that a strict order on a finite set has a minimal
  member, and `IterationExists`, that what is computed step by step exists, carry
  the tables and recursions: both go by a least counterexample.
  *Router*: `ConnectingAlwaysHelps` rests on every preference being a strict order
  (`PreferredIsStrict`; the balanced one compares ratios crosswise), so that the
  first of some candidates is a best one (`FirstIsBest`), and on candidates only
  becoming more.
  *Conditions*: what a path leads to is a value, nothing or an error
  (`ResolveFinds`), strings are ordered totally (`TextOrder`), so opposite answers
  differ wherever the values compare (`OppositesDiffer`).
  *Supervisor*: `DecisionsAreSound` shows for the heuristic that its strongest
  candidate exists, since scores are numbers and ties break on the id, that its
  candidates are enabled, and that what it retries has an entry.
  `TurnsAreAlwaysPaidFor` keeps a ledger (`LedgerInv`, checked by TLC first): before
  a turn begins all others are paid for, and the one that is on is paid for or is
  about to do something that pays (`Worthwhile`). A retry takes a node out of those
  that are failed. A delegation starts only when no node failed, so when all are
  settled (`SettledInv`, which takes a minimal pending node: the graph has no
  cycle, `RoundsInv`), and hence its nodes are ready at once; each then fails, which
  pays, or succeeds for an agent that had not (`WavePaid`). That a failure always
  has an entry to be retried by rests on what sorted lists hold (`SortedLists`).
  *Remote tools*: a number in flight was given, to nobody else (`NumbersAreGiven`),
  and whatever carries it in a pipe carries what was asked under it
  (`PipesAgree`); so a line that matches by number is the answer to the question.
  It needs neither the lock nor the order of the pipes: what the lock protects is
  the reading, since a stream refuses a second reader.

Some proved properties are not among the runs' (`PauseHasRequest`,
`SettledIsNotRepeated`, `CancelStopsDispatch`, `NoTwoAnswers`, `SettledRequestIsFinal`,
`OneTaskPerCreate`, `EndIsReal`, `SuccessIsNotRedone`,
`RowKnowsItsNodes`, `VersionsTellWritesApart`, each `TypeOK`): the proof covers
the instances, and the definitions stand beside the others in their modules.

**Only model-checked:** the liveness properties `RunsEnd`, `DecisionsAreTakenUp`,
`RunsSettle`, `LateConnectionsClose` and `LeaksHeal`, since liveness under
fairness is beyond the prover.

## 6. Not modelled, and why

Prompts, outputs and event payloads are data no property speaks of. Provider
adapters, bodies of built-in tools, logging, metrics and spans are input and
output; the mock model and the builtin tools, two of the largest files, are
mostly canned text and formatting. The evaluation harness and the command line
are clients that run one request after the other. Migrations, table
declarations and schemas state shapes. Backoff durations, costs and wall-clock
limits are arithmetic on real time and money; that a deadline may strike at any
moment is in the models as a failure of the step. Templates are rendered for
prompts only. Redis losing its data, a database that loses what it committed,
and several API processes over one execution (which `docs/deployment.md` rules
out) are outside the fault model, except that `Persistence` has two processes.
The rows of agents and tools that are written beside the in-memory registries
(`api/routes/agents.py:27`) are left out: only the registries are read.
