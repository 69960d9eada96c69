----------------------------- MODULE MCDecisions -----------------------------
(***************************************************************************)
(* TLC instance of four parts that share no state: the supervisor's turns, *)
(* the model router, the conditions of edges and the tools of an MCP       *)
(* server.  A behaviour is one of one part; the others stay as they are.   *)
(***************************************************************************)
EXTENDS Supervision, ModelRouting, Conditions, RemoteTools

VARIABLES part

-----------------------------------------------------------------------------
(* The supervisor: a task that all agents match, more than the fallback     *)
(* looks at, one that is matched by accident, and outputs that ask for more.*)

MCTask == {{"search", "price", "feature", "quality", "compare", "summary", "test"},
           {"report"}}
MCGap == {{}, {"quality"}}

To(a, key) == [agent |-> a, key |-> key]
MCReply ==
    {[action |-> "delegate", targets |-> {To(7, 8)}, node |-> 0],
     [action |-> "parallel_delegate", targets |-> {To(8, 0), To(5, 5)}, node |-> 0],
     [action |-> "retry", targets |-> {}, node |-> 71],
     [action |-> "retry", targets |-> {}, node |-> 81]}

-----------------------------------------------------------------------------
(* The router: what only an agent someone has registered, or a caller who   *)
(* knows the size of its prompt, may ask.                                   *)

Plain ==
    [required |-> {}, prefer |-> "balanced", local |-> FALSE, minContext |-> None,
     maxCost |-> None, pinned |-> None, complexity |-> None, estimate |-> 0]
MCRequest ==
    {[Plain EXCEPT !.prefer = p, !.complexity = c] :
        p \in Preference, c \in {None, "trivial", "simple", "moderate", "complex"}}
    \cup {[Plain EXCEPT !.prefer = p, !.estimate = 120, !.maxCost = c] :
            p \in Preference, c \in {None, 300}}
    \cup {[Plain EXCEPT !.prefer = p, !.minContext = 150, !.required = {"vision"}] :
            p \in Preference}
    \cup {[Plain EXCEPT !.local = TRUE, !.complexity = c] : c \in {None, "complex"}}
    \cup {[Plain EXCEPT !.pinned = 6]}

-----------------------------------------------------------------------------
(* The conditions: {"11": x, "12": [x, 3]} for some values x.               *)

Scalar ==
    {<<"null", 0>>, <<"bool", FALSE>>, <<"bool", TRUE>>, <<"num", 0>>, <<"num", 1>>,
     <<"num", 3>>, <<"str", <<>>>>, <<"str", <<1>>>>, <<"str", <<3, 12>>>>}
Lists == {<<"list", <<>>>>, <<"list", <<<<"num", 1>>, <<"str", <<1>>>>>>>>}
Object(f) == <<"dict", f>>

Pair(x) == <<"list", <<x, <<"num", 3>>>>>>
MCContext ==
    {Object([s \in {<<12>>, <<13>>} |-> IF s = <<12>> THEN x ELSE Pair(x)]) :
        x \in Scalar \cup Lists}
MCPath ==
    {<<<<12>>>>, <<<<13>>, <<0>>>>, <<<<13>>, <<10, 1>>>>, <<<<13>>, <<10, 10, 1>>>>,
     <<<<14>>>>, <<<<12>>, <<0>>>>, <<<<12>>, <<0>>, <<0>>, <<0>>>>}
MCExpected ==
    Scalar \cup Lists \cup {Object([s \in {<<1>>} |-> <<"num", 1>>])}
MCValue == MCContext \cup MCExpected \cup {Pair(x) : x \in Scalar \cup Lists}

-----------------------------------------------------------------------------
(* The MCP server: two tools, whose names fold into one if both are listed.  *)

MCRemote == {"read.file", "read_file"}
MCSlug == [r \in Remote |-> "mcp_read_file"]

-----------------------------------------------------------------------------
\* A part that is not the one looked at begins in one state only.
Rests(name, first) == part = name \/ (part # name /\ first)

Init ==
    /\ part \in {"supervision", "routing", "conditions", "tools"}
    /\ Rests("supervision", task = {"report"})
    /\ Rests("routing", request = SupervisorRequest)
    /\ Rests("conditions", /\ context = CHOOSE c \in Context : TRUE
                           /\ path = CHOOSE p \in Path : TRUE
                           /\ expected = CHOOSE v \in Expected : TRUE)
    /\ TurnsInit /\ RoutingInit /\ EdgesInit /\ PipeInit

Next ==
    \/ /\ part = "supervision" /\ TurnsNext
       /\ UNCHANGED <<part, routingVars, edgeVars, pipeVars>>
    \/ /\ part = "routing" /\ RoutingNext
       /\ UNCHANGED <<part, turnVars, edgeVars, pipeVars>>
    \/ /\ part = "conditions" /\ EdgesNext
       /\ UNCHANGED <<part, turnVars, routingVars, pipeVars>>
    \/ /\ part = "tools" /\ PipeNext
       /\ UNCHANGED <<part, turnVars, routingVars, edgeVars>>
==============================================================================
