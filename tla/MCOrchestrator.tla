---------------------------- MODULE MCOrchestrator ----------------------------
(***************************************************************************)
(* Small instances of Orchestrator.  Node 2 is the seed's terminal node, so *)
(* that a delegated id may sort before it or after it.                     *)
(***************************************************************************)
EXTENDS Orchestrator

MCNode == 1..3
MCFinal == 2

\* A plan of one node.
Single(n, kind, attach) ==
    [nodes |-> {n}, kind |-> [m \in MCNode |-> kind], policy |-> "all",
     edges |-> {}, attach |-> attach]

\* A gate with the tool it protects, next to the rest of the graph.
GatedTool ==
    [nodes |-> {1, 3}, kind |-> [m \in MCNode |-> IF m = 3 THEN "approval" ELSE "tool"],
     policy |-> "all", edges |-> {To(3, 1)}, attach |-> {}]

\* A tool after node 1; a tool after the terminal node, which does not merge; a
\* terminal node next to the rest, on which a later delegation hangs.
MCPlans ==
    {Single(3, "tool", {1}), Single(3, "tool", {2}), Single(3, "terminal", {}),
     GatedTool}

==============================================================================
