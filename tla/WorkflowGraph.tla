---------------------------- MODULE WorkflowGraph ----------------------------
(***************************************************************************)
(* The scheduling questions a workflow graph answers for the executor      *)
(* (workflow/graph.py and the graph helpers of workflow/executor.py), as   *)
(* operators over a workflow record w and a function st from nodes to      *)
(* NodeStatus.                                                             *)
(*                                                                         *)
(* Nodes are natural numbers: the code schedules nodes in the alphabetical *)
(* order of their ids, and < is that order.  A node with no record in      *)
(* node_states counts as pending, which is how every reader treats it.     *)
(* An edge's condition is abstracted to whether the edge is conditional    *)
(* (cond) and to the set holds of the edges whose condition evaluates true *)
(* (an unconditional edge always does).                                    *)
(***************************************************************************)
EXTENDS Integers, FiniteSets, ExecutionStates

NodeKind ==
    {"agent", "tool", "join", "branch", "approval", "terminal", "supervisor"}

JoinPolicy == {"all", "any", "quorum", "all_settled"}

\* Join policies that absorb a failed branch.
TolerantPolicy == {"any", "quorum", "all_settled"}

\* The workflow records over a set of node ids.
IsWorkflow(w, Node) ==
    /\ w.nodes \subseteq Node
    /\ w.kind \in [w.nodes -> NodeKind]
    /\ w.policy \in [w.nodes -> JoinPolicy]
    /\ w.quorum \in [w.nodes -> Nat \ {0}]
    /\ w.optional \subseteq w.nodes
    /\ w.gated \subseteq w.nodes
    /\ w.edges \subseteq [src : w.nodes, dst : w.nodes, cond : BOOLEAN]

Inbound(w, n) == {e \in w.edges : e.dst = n}
Successors(w, n) == {e.dst : e \in {x \in w.edges : x.src = n}}

\* _check_cycles: Kahn's algorithm never gets stuck, on any set of nodes.
IsAcyclic(w) ==
    \A S \in SUBSET w.nodes :
        S # {} => \E n \in S : \A e \in Inbound(w, n) : e.src \notin S

\* Mutant of ActiveEdges: the condition is not evaluated.
ActiveEdgesUnconditionally(w, st, holds) ==
    {e \in w.edges : st[e.src] \in CompleteNodeStatus}

\* _active_edge_ids: the source is complete and the condition holds.
ActiveEdges(w, st, holds) ==
    {e \in w.edges : st[e.src] \in CompleteNodeStatus /\ e \in holds}

\* _is_unreachable: every inbound edge has been decided against the node.
IsUnreachable(w, n, st, active) ==
    /\ Inbound(w, n) # {}
    /\ \A e \in Inbound(w, n) :
          st[e.src] \in TerminalNodeStatus /\ e \notin active

\* The inbound edges a scheduling decision looks at: a conditional edge that
\* is not active is left out, whether decided against or not yet decided.
RelevantEdges(w, n, active) ==
    {e \in Inbound(w, n) : e \in active \/ ~e.cond}

\* _join_satisfied, over the relevant edges.
JoinSatisfied(w, n, relevant, st) ==
    LET succeeded == {e \in relevant : st[e.src] = "succeeded"}
        settled == {e \in relevant : st[e.src] \in TerminalNodeStatus}
    IN  \/ w.policy[n] = "all" /\ succeeded = relevant
        \/ w.policy[n] = "any" /\ succeeded # {}
        \/ w.policy[n] = "quorum" /\ Cardinality(succeeded) >= w.quorum[n]
        \/ w.policy[n] = "all_settled" /\ settled = relevant

\* dependencies_satisfied.
DependenciesSatisfied(w, n, st, active) ==
    \/ Inbound(w, n) = {}
    \/ LET relevant == RelevantEdges(w, n, active)
       IN  /\ relevant # {}
           /\ IF w.kind[n] = "join"
              THEN JoinSatisfied(w, n, relevant, st)
              ELSE \A e \in relevant : st[e.src] \in CompleteNodeStatus

\* _ready_nodes: the nodes one scheduling step starts.
ReadyNodes(w, st, holds) ==
    LET active == ActiveEdges(w, st, holds)
    IN  {n \in w.nodes : /\ st[n] \in RunnableNodeStatus
                         /\ DependenciesSatisfied(w, n, st, active)
                         /\ ~IsUnreachable(w, n, st, active)}

\* Whether m is a node some path of edges leads to from n: it is in every set
\* that holds n's successors and is closed under successors.
Downstream(w, n) ==
    {m \in w.nodes : \A S \in SUBSET w.nodes :
        (/\ Successors(w, n) \subseteq S
         /\ \A k \in S : Successors(w, k) \subseteq S) => m \in S}

\* _has_tolerant_downstream and _is_blocking_failure.
HasTolerantDownstream(w, n) ==
    \E m \in Downstream(w, n) :
        w.kind[m] = "join" /\ w.policy[m] \in TolerantPolicy

IsBlockingFailure(w, n) == n \notin w.optional /\ ~HasTolerantDownstream(w, n)

\* _skip_unreachable: one pass over the pending nodes in id order.  The active
\* edges are computed once before the pass, the statuses are read as the pass
\* writes them, so a node sees the skips of smaller ids only.  The nodes a pass
\* skips are the least set closed under "every inbound edge is inactive and its
\* source is terminal or was skipped earlier in this pass".
SkippedByPass(w, st, holds) ==
    LET active == ActiveEdges(w, st, holds)
        candidates == {n \in w.nodes : st[n] = "pending" /\ Inbound(w, n) # {}}
        Dead(n, S) == \A e \in Inbound(w, n) :
                        /\ e \notin active
                        /\ \/ st[e.src] \in TerminalNodeStatus
                           \/ e.src \in S /\ e.src < n
    IN  {n \in candidates : \A S \in SUBSET candidates :
            (\A m \in candidates : Dead(m, S) => m \in S) => n \in S}

SkipUnreachable(w, st, holds) ==
    LET skipped == SkippedByPass(w, st, holds)
    IN  [n \in DOMAIN st |-> IF n \in skipped THEN "skipped" ELSE st[n]]
==============================================================================
