-------------------------- MODULE MCWorkflowExecutor --------------------------
(***************************************************************************)
(* Small workflows on which TLC checks WorkflowExecutor.  Unless its name  *)
(* says otherwise a workflow numbers its nodes along its edges, as an      *)
(* author does who prefixes node ids with their position.                  *)
(***************************************************************************)
EXTENDS WorkflowExecutorProperties, Sequences

MCNode == 1..5

Always(s, d) == [src |-> s, dst |-> d, cond |-> FALSE]
When(s, d) == [src |-> s, dst |-> d, cond |-> TRUE]

\* A workflow from its kinds and edges; every join has the same policy.
Flow(kinds, joinPolicy, edges) ==
    [nodes |-> DOMAIN kinds,
     kind |-> kinds,
     policy |-> [n \in DOMAIN kinds |-> joinPolicy],
     quorum |-> [n \in DOMAIN kinds |-> 2],
     optional |-> {},
     gated |-> {},
     edges |-> edges]

\* Two tools in parallel, and a join of them.
FanIn(joinPolicy) ==
    Flow(<<"tool", "tool", "join", "terminal">>, joinPolicy,
         {Always(1, 3), Always(2, 3), Always(3, 4)})

\* A race of a short and a long branch: the join may fire while node 3 waits.
Race == Flow(<<"tool", "tool", "tool", "join">>, "any",
             {Always(1, 4), Always(2, 3), Always(3, 4)})

\* Two of three branches suffice; one of the tools may be lost.
Vote == Flow(<<"tool", "tool", "supervisor", "join">>, "quorum",
             {Always(1, 4), Always(2, 4), Always(3, 4)})

\* A branch node with two exits that meet again.
Choice == Flow(<<"branch", "tool", "tool", "join", "terminal">>, "all_settled",
               {When(1, 2), When(1, 3), Always(2, 4), Always(3, 4), Always(4, 5)})

\* An agent, a gate on its result, and the tool the gate protects.
Gate == Flow(<<"agent", "approval", "tool", "terminal">>, "all",
             {Always(1, 2), Always(2, 3), Always(3, 4)})

\* A gate on one exit of a branch node.
GateOnBranch == Flow(<<"branch", "approval", "tool", "terminal">>, "all",
                     {When(1, 2), Always(2, 3), When(1, 4)})

\* Two gates that pause in the same scheduling step.
TwoGates == Flow(<<"approval", "approval", "join", "terminal">>, "all",
                 {Always(1, 3), Always(2, 3), Always(3, 4)})

\* Two agents in parallel, one with a gated tool, the other optional.
Agents == [Flow(<<"agent", "agent", "supervisor">>, "all", {Always(1, 3)})
           EXCEPT !.gated = {1}, !.optional = {2}]

\* Node 4 has an unconditional and a conditional input.
LateCondition == Flow(<<"tool", "tool", "branch", "terminal">>, "all",
                      {Always(1, 4), Always(2, 3), When(3, 4)})

\* A race whose join is numbered, and so started, before the losing branch.
JoinFirst == Flow(<<"tool", "tool", "join", "tool", "terminal">>, "any",
                  {Always(1, 3), Always(2, 4), Always(4, 3), Always(3, 5)})

\* The branch exit 3 is numbered after the node 2 it leads to.
Misnumbered == Flow(<<"branch", "tool", "approval", "terminal">>, "all",
                    {When(1, 3), Always(3, 2), When(1, 4)})

\* Two branch nodes, one after the other, whose exits meet in a node that is no
\* join.
TwoBranches ==
    Flow(<<"branch", "tool", "branch", "tool", "terminal">>, "all",
         {When(1, 2), Always(1, 3), When(3, 4), Always(2, 5), Always(4, 5)})

MCWorkflows ==
    {FanIn("all_settled"), Race, Vote, Choice, Gate, GateOnBranch, TwoGates,
     Agents, LateCondition, JoinFirst, Misnumbered, TwoBranches}
MCFanIn == {FanIn("all")}
MCMerge == {TwoBranches}
===============================================================================
