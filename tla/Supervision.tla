----------------------------- MODULE Supervision -----------------------------
(***************************************************************************)
(* What the supervisor of a dynamic execution decides, turn by turn: the   *)
(* reply of its model if that can be used, and otherwise the decision of a *)
(* heuristic that knows only the registry and what has run so far          *)
(* (supervisor/supervisor.py, supervisor/heuristic.py, agents/registry.py, *)
(* domain/routing.py).                                                     *)
(*                                                                         *)
(* The loop around it is Orchestrator's, with its crashes, its requests to *)
(* humans and its replans left to that module.  Here agents have the       *)
(* skills of ReferenceAgents, a node belongs to an agent, and an output    *)
(* may leave gaps, because the heuristic goes by these.                    *)
(*                                                                         *)
(* The nth node of agent a is 10 * a + n, the order of the ids.            *)
(***************************************************************************)
EXTENDS WorkflowGraph, ReferenceAgents, SequencesExt

CONSTANTS
    Task,           \* the tasks, each the set of its words
    Gap,            \* what an output may say is still missing: sets of words
    Reply,          \* the schema-valid replies the model may give
    Unregistered,   \* agents nobody has registered yet
    Edited,         \* bound: the agents whose definitions are written
    MaxParallel,    \* max_parallel: branches of one fallback decision
    MaxTurns,       \* max_turns of the orchestrator
    MaxReplies,     \* bound: usable replies of the model
    MaxFailures,    \* bound: failures of nodes
    MaxEdits        \* bound: definitions written to the registry

Agent == DOMAIN ReferenceAgent
Final == 99
NodeOf(a, nth) == 10 * a + nth

\* DelegationTarget: an output key is an agent's id, the default, or another
\* name (0).
Target == [agent : Agent, key : Agent \cup {0}]

\* RoutingDecision, without replans and requests for approval.
Decision ==
    {d \in [action : {"delegate", "parallel_delegate", "retry", "finalize", "fail"},
            targets : SUBSET Target, node : Nat] :
        /\ d.action = "delegate" => Cardinality(d.targets) = 1
        /\ d.action = "parallel_delegate" => Cardinality(d.targets) >= 2}

Says(action) == [action |-> action, targets |-> {}, node |-> 0]
Delegation(targets) ==
    [Says(IF Cardinality(targets) = 1 THEN "delegate" ELSE "parallel_delegate")
        EXCEPT !.targets = targets]
Retrial(n) == [Says("retry") EXCEPT !.node = n]

ASSUME SupervisionAssumption ==
    /\ Task \subseteq SUBSET Word /\ Gap \subseteq SUBSET Word
    /\ Reply \subseteq Decision
    /\ Unregistered \subseteq Agent /\ Edited \subseteq Agent
    /\ MaxParallel \in Nat \ {0} /\ MaxTurns \in 1 .. 9

VARIABLES
    task, registry, \* the words of the task; the agents' definitions by state
    node, edges,    \* the nodes of the agents, with what became of them
    seen,           \* the keys of node_states in the order of their insertion
    pc, turn, decision,
    replies, failures, edits

graph == <<node, edges, seen>>
turnVars == <<task, registry, graph, pc, turn, decision, replies, failures, edits>>

\* A node: its agent, its output key, its status, whether its last error bars
\* a retry, and the gaps its output leaves.
NodeRecord ==
    [agent : Agent \cup {0}, key : Agent \cup {0}, status : NodeStatus,
     barred : BOOLEAN, gaps : SUBSET Word]

Fresh(a, key) ==
    [agent |-> a, key |-> key, status |-> "pending", barred |-> FALSE, gaps |-> {}]

TurnsInit ==
    /\ task \in Task
    /\ registry = [a \in Agent |-> IF a \in Unregistered THEN "absent" ELSE "enabled"]
    /\ node = [n \in {Final} |-> Fresh(0, 0)]
    /\ edges = {}
    /\ seen = <<>>
    /\ pc = "turn" /\ turn = 0
    /\ decision = Says("fail")
    /\ replies = 0 /\ failures = 0 /\ edits = 0

-----------------------------------------------------------------------------
(* What the decisions go by.                                                *)

AgentNodes == DOMAIN node \ {Final}
Succeeded == {n \in AgentNodes : node[n].status = "succeeded"}

\* capability_score: the words each skill matches, weighted by proficiency.
Score(a, text) ==
    LET skills == ReferenceAgent[a].skills
        Total[i \in 0 .. Len(skills)] ==
            IF i = 0 THEN 0
            ELSE Total[i - 1] + Cardinality(skills[i].words \cap text) * skills[i].proficiency
    IN  Total[Len(skills)]

\* matched_terms of an agent.
MatchedTerms(a, text) ==
    text \cap UNION {s.words : s \in Range(ReferenceAgent[a].skills)}

\* Mutant of Enabled: the disabled agents are listed as well.
Registered == {a \in Agent : registry[a] # "absent"}

\* list_agents.
Enabled == {a \in Agent : registry[a] = "enabled"}

\* The members of S one after the other.
Sorted(S) ==
    [i \in 1 .. Cardinality(S) |-> CHOOSE x \in S : Cardinality({y \in S : y < x}) = i - 1]

\* The order of candidates_for: scores descend, and ties break on the id.
RanksAbove(a, b, text) ==
    \/ Score(a, text) > Score(b, text)
    \/ Score(a, text) = Score(b, text) /\ a < b

\* candidates_for: the best of the enabled agents that match at all.
CandidatesFor(text, limit) ==
    LET matching == {a \in Enabled : Score(a, text) > 0}
    IN  {a \in matching : Cardinality({b \in matching : RanksAbove(b, a, text)}) < limit}

\* _routing_text: the task and what the outputs say is missing.
RoutingText == task \cup UNION {node[n].gaps : n \in Succeeded}

\* Mutant of AlreadyUsed: nothing is remembered from one turn to the next.
NobodyUsed == {}

\* _agents_already_used: ids that name a node that succeeded, or a variable.
AlreadyUsed ==
    {a \in Agent : NodeOf(a, 1) \in Succeeded \/ \E n \in Succeeded : node[n].key = a}

IsSynthesisAgent(a) == ReferenceAgent[a].kind \in {"analyst", "critic", "finalizer"}

\* _complementary_candidates: a greedy cover of the words of the task, from the
\* highest rank down.
ComplementaryCandidates(candidates, text) ==
    LET Chosen[a \in candidates] ==
            LET before == {b \in candidates : RanksAbove(b, a, text) /\ Chosen[b]}
                covered == UNION {MatchedTerms(b, text) : b \in before}
            IN  /\ ~IsSynthesisAgent(a)
                /\ before = {} \/ ~(MatchedTerms(a, text) \subseteq covered)
                /\ Cardinality(before) < MaxParallel
    IN  {a \in candidates : Chosen[a]}

\* _retryable_node: the entries of failures that may be retried.
Retryable == {i \in DOMAIN seen : node[seen[i]].status = "failed" /\ ~node[seen[i]].barred}

\* HeuristicRouter.decide.
Heuristic ==
    LET candidates == CandidatesFor(RoutingText, 2 * MaxParallel) \ AlreadyUsed
        parallel == ComplementaryCandidates(candidates, RoutingText)
        strongest == CHOOSE a \in candidates :
                        \A b \in candidates : ~RanksAbove(b, a, RoutingText)
        chosen == IF Cardinality(parallel) >= 2 THEN parallel ELSE {strongest}
    IN  CASE Retryable # {} -> Retrial(seen[Min(Retryable)])
          [] Retryable = {} /\ candidates # {} ->
                Delegation({[agent |-> a, key |-> a] : a \in chosen})
          [] Retryable = {} /\ candidates = {} ->
                Says(IF Succeeded # {} THEN "finalize" ELSE "fail")

\* _validate_retry: the node has a record, did not succeed, and may be retried.
CanRetry(n) ==
    n \in Range(seen) /\ node[n].status # "succeeded" /\ ~node[n].barred

\* validate_decision, and what the schema asks of the targets.
IsValid(d) ==
    /\ \A t \in d.targets : registry[t.agent] = "enabled"
    /\ \A t, u \in d.targets : t.agent = u.agent => t = u
    /\ d.action = "retry" => CanRetry(d.node)
    /\ Cardinality(d.targets) <= 8

-----------------------------------------------------------------------------
(* The turns.                                                               *)

\* A turn begins, and the model's reply is used.
FollowModel(d) ==
    /\ pc = "turn" /\ turn < MaxTurns
    /\ replies < MaxReplies
    /\ IsValid(d)
    /\ decision' = d
    /\ replies' = replies + 1
    /\ turn' = turn + 1
    /\ pc' = "apply"
    /\ UNCHANGED <<task, registry, graph, failures, edits>>

\* Without a usable reply the heuristic decides; nothing validates that.
FallBack ==
    /\ pc = "turn" /\ turn < MaxTurns
    /\ decision' = Heuristic
    /\ turn' = turn + 1
    /\ pc' = "apply"
    /\ UNCHANGED <<task, registry, graph, replies, failures, edits>>

RunOutOfTurns ==
    /\ pc = "turn" /\ turn = MaxTurns
    /\ pc' = "done"
    /\ UNCHANGED <<task, registry, graph, turn, decision, replies, failures, edits>>

Frontier == {n \in AgentNodes : \A e \in edges : e.src = n => e.dst = Final}
Arrow(s, d) == [src |-> s, dst |-> d, cond |-> FALSE]

\* _unique_node_id.
NextNode(a) ==
    NodeOf(a, CHOOSE k \in 1 .. MaxTurns :
        /\ NodeOf(a, k) \notin DOMAIN node
        /\ \A j \in 1 .. k - 1 : NodeOf(a, j) \in DOMAIN node)

\* _compile_delegation: agents are looked up when their nodes run, so one that
\* has been disabled since the decision runs all the same.
Delegate ==
    /\ pc = "apply" /\ decision.targets # {}
    /\ LET new == {NextNode(t.agent) : t \in decision.targets}
           TargetOf(n) == CHOOSE t \in decision.targets : NextNode(t.agent) = n
       IN  /\ node' = [n \in DOMAIN node \cup new |->
                          IF n \in new THEN Fresh(TargetOf(n).agent, TargetOf(n).key)
                                       ELSE node[n]]
           /\ edges' = edges \cup {Arrow(s, d) : s \in Frontier, d \in new}
                             \cup {Arrow(s, Final) : s \in new}
    /\ pc' = "round"
    /\ UNCHANGED <<task, registry, seen, turn, decision, replies, failures, edits>>

\* _reopen_node.
Reopen ==
    /\ pc = "apply" /\ decision.action = "retry"
    /\ node' = [node EXCEPT ![decision.node].status = "pending"]
    /\ pc' = "round"
    /\ UNCHANGED <<task, registry, edges, seen, turn, decision, replies, failures, edits>>

Conclude ==
    /\ pc = "apply" /\ decision.action \in {"finalize", "fail"}
    /\ pc' = "done"
    /\ UNCHANGED <<task, registry, graph, turn, decision, replies, failures, edits>>

-----------------------------------------------------------------------------
(* A round: the executor runs what is ready, wave by wave.                  *)

w == [nodes |-> DOMAIN node,
      kind |-> [n \in DOMAIN node |-> IF n = Final THEN "terminal" ELSE "agent"],
      policy |-> [n \in DOMAIN node |-> "all"],
      quorum |-> [n \in DOMAIN node |-> 1], optional |-> {}, gated |-> {},
      edges |-> edges]

Ready == ReadyNodes(w, [n \in DOMAIN node |-> node[n].status], edges)

\* _skip_unreachable: SkippedByPass of WorkflowGraph, in the one pass it is: a
\* node sees those skipped before it only.
Skipped(status) ==
    LET active == ActiveEdges(w, status, edges)
        pending == {n \in DOMAIN node : status[n] = "pending" /\ Inbound(w, n) # {}}
        IsSkipped[n \in pending] ==
            \A e \in Inbound(w, n) :
                /\ e \notin active
                /\ \/ status[e.src] \in TerminalNodeStatus
                   \/ e.src \in pending /\ e.src < n /\ IsSkipped[e.src]
    IN  {n \in pending : IsSkipped[n]}

\* One ready set with its outcomes, and the skip pass behind it.  Any failure
\* is a blocking one, for the graph has no joins, and ends the round.
RunWave ==
    /\ pc = "round" /\ Ready # {}
    /\ \E failed \in SUBSET (Ready \ {Final}), barred \in SUBSET Ready, gaps \in Gap :
        /\ barred \subseteq failed
        /\ failures + Cardinality(failed) <= MaxFailures
        /\ failures' = failures + Cardinality(failed)
        /\ LET ran == [n \in DOMAIN node |->
                  IF n \notin Ready THEN node[n]
                  ELSE IF n \in failed
                       THEN [node[n] EXCEPT !.status = "failed", !.barred = n \in barred]
                       ELSE [node[n] EXCEPT !.status = "succeeded", !.gaps = gaps]]
               status == [n \in DOMAIN node |-> ran[n].status]
               skipped == Skipped(status)
               recorded == Sorted(Ready \ Range(seen))
                           \o Sorted(skipped \ (Range(seen) \cup Ready))
           IN  /\ node' = [n \in DOMAIN node |->
                              IF n \in skipped THEN [ran[n] EXCEPT !.status = "skipped"]
                                               ELSE ran[n]]
               /\ seen' = seen \o recorded
               /\ pc' = IF \E n \in DOMAIN node : status[n] = "failed" THEN "turn"
                                                                       ELSE "round"
    /\ UNCHANGED <<task, registry, edges, turn, decision, replies, edits>>

Drain ==
    /\ pc = "round" /\ Ready = {}
    /\ pc' = "turn"
    /\ UNCHANGED <<task, registry, graph, turn, decision, replies, failures, edits>>

\* create_agent registers a definition or replaces one, at any time.
CreateAgent(a, enabled) ==
    /\ edits < MaxEdits /\ pc # "done"
    /\ registry' = [registry EXCEPT ![a] = IF enabled THEN "enabled" ELSE "disabled"]
    /\ registry' # registry
    /\ edits' = edits + 1
    /\ UNCHANGED <<task, graph, pc, turn, decision, replies, failures>>

Decide == FallBack \/ \E d \in Reply : FollowModel(d)

TurnsNext ==
    \/ Decide
    \/ RunOutOfTurns
    \/ Delegate
    \/ Reopen
    \/ Conclude
    \/ RunWave
    \/ Drain
    \/ \E a \in Edited, enabled \in BOOLEAN : CreateAgent(a, enabled)

TurnsSpec == TurnsInit /\ [][TurnsNext]_turnVars

-----------------------------------------------------------------------------
(* Properties.                                                              *)

\* Whatever the supervisor adopts can be carried out, also when it comes from
\* the fallback, which _degrade returns without validate_decision: a delegation
\* names agents that are enabled at that moment, no agent twice, and a retry a
\* node that has run, did not succeed and whose error allows another attempt.
DecisionsCanBeCarriedOut ==
    [][ pc = "turn" /\ pc' = "apply" =>
          /\ decision'.action \in {"delegate", "parallel_delegate"} =>
                /\ decision'.targets # {}
                /\ \A t \in decision'.targets : registry[t.agent] = "enabled"
                /\ \A t, u \in decision'.targets : t.agent = u.agent => t = u
          /\ decision'.action = "retry" =>
                /\ decision'.node \in Range(seen)
                /\ node[decision'.node].status # "succeeded"
                /\ ~node[decision'.node].barred ]_turnVars

\* The agents a node has succeeded for, under the agent's own id.
Served == {a \in Agent : \E n \in Succeeded : node[n].agent = a /\ node[n].key = a}

Failed == {n \in AgentNodes : node[n].status = "failed"}

\* The fallback comes to an end by itself, as _agents_already_used promises
\* ("Prevents the fallback delegating to the same agent forever"): until a node
\* fails for good, every turn is paid for.  A reply of the model pays for one, an
\* agent that had not succeeded before for one, a failure for the turn it spoils
\* and for the retry, which nodes that are still failed have ahead of them; and
\* the conclusion is free.
TurnsArePaidFor ==
    (\A n \in Failed : ~node[n].barred)
       => turn + Cardinality(Failed) <= replies + 2 * failures + Cardinality(Served) + 1
==============================================================================
