---------------------------- MODULE ModelRouting ----------------------------
(***************************************************************************)
(* Which model a call goes to (routing/model_router.py): the answer to one *)
(* request while providers are connected and disconnected.  How a change   *)
(* of the settings reaches the router is Gateway's part; a forced model,   *)
(* which settles every request, is left to it too.                         *)
(*                                                                         *)
(* A model is an index into Catalogue, whose order is that of the keys;    *)
(* sizes are in thousands of tokens, prices in hundredths of a dollar per  *)
(* million tokens.                                                         *)
(***************************************************************************)
EXTENDS Integers, ReferenceAgents

CONSTANTS
    Request,        \* what may be asked besides what agents and supervisor ask
    None

Key == DOMAIN Catalogue
Real == {Catalogue[k].provider : k \in Key} \ {"mock"}

\* TaskComplexity, or no hint.
Complexity == {"trivial", "simple", "moderate", "complex", None}

\* RoutingCriteria with the hint and the estimate that come along.
Criteria ==
    [required : SUBSET Capability, prefer : Preference, local : BOOLEAN,
     minContext : Nat \cup {None}, maxCost : Nat \cup {None},
     pinned : Key \cup {None}, complexity : Complexity, estimate : Nat]

ASSUME RoutingAssumption == Request \subseteq Criteria /\ None \notin Nat

VARIABLES
    connected,      \* the real providers the router may use
    request,
    selection       \* the model chosen, or None if select raises

routingVars == <<connected, request, selection>>

\* What an agent's call asks for: the complexity is guessed from the size of
\* the work, except for an agent whose kind tells it (_estimate_complexity).
AgentRequest(a, size) ==
    [required |-> ReferenceAgent[a].required, prefer |-> ReferenceAgent[a].prefer,
     local |-> FALSE, minContext |-> None, maxCost |-> None, pinned |-> None,
     complexity |-> IF ReferenceAgent[a].kind \in {"analyst", "critic", "finalizer"}
                    THEN "complex" ELSE size,
     estimate |-> 0]

\* What _decide_traced asks for.
SupervisorRequest ==
    [required |-> {}, prefer |-> "most_capable", local |-> FALSE,
     minContext |-> None, maxCost |-> None, pinned |-> None,
     complexity |-> "complex", estimate |-> 0]

Asked ==
    Request \cup {SupervisorRequest}
        \cup {AgentRequest(a, s) : a \in DOMAIN ReferenceAgent,
                                   s \in {"simple", "moderate", "complex"}}

-----------------------------------------------------------------------------
(* The candidates.                                                          *)

\* build_catalog: nothing but the mock models until a provider is connected.
Known(c) ==
    IF c = {} THEN {k \in Key : Catalogue[k].provider = "mock"} ELSE Key

\* Mutant of Allowed: the mock provider goes once a real one is there.
AllowedForReal(c) == IF c = {} THEN {"mock"} ELSE c

Allowed(c) == c \cup {"mock"}

\* _available: the chat models of the allowed providers.
Available(c) ==
    {k \in Known(c) : /\ Catalogue[k].provider \in Allowed(c)
                      /\ "chat" \in Catalogue[k].capabilities
                      /\ "embedding" \notin Catalogue[k].capabilities}

BlendedCost(k) == Catalogue[k].input + 3 * Catalogue[k].completion

\* Every need of the request on its own: capabilities, with reasoning for what
\* is complex, the window, with headroom for the answer, and the price.
Fits(k, r) ==
    LET m == Catalogue[k]
    IN  /\ r.local => "local" \in m.capabilities
        /\ r.required \subseteq m.capabilities
        /\ r.complexity = "complex" => "reasoning" \in m.capabilities
        /\ r.minContext # None => m.context >= r.minContext
        /\ r.estimate > 0 => m.context >= r.estimate + m.output
        /\ r.maxCost # None => BlendedCost(k) <= 4 * r.maxCost

-----------------------------------------------------------------------------
(* The order.                                                               *)

CapabilityWeight(k) ==
    LET has(c, points) == IF c \in Catalogue[k].capabilities THEN points ELSE 0
    IN  has("reasoning", 4) + has("long_context", 2) + has("tool_use", 1)
          + has("structured_output", 1) + has("vision", 1)

LatencyOrder == [fast |-> 0, standard |-> 1, slow |-> 2]
Latency(k) == LatencyOrder[Catalogue[k].latency]

\* A hint about the complexity decides only where the request is indifferent.
PreferenceOf(r) ==
    CASE r.prefer # "balanced" \/ r.complexity = None -> r.prefer
      [] r.prefer = "balanced" /\ r.complexity \in {"trivial", "simple"} -> "cheapest"
      [] r.prefer = "balanced" /\ r.complexity = "moderate" -> "balanced"
      [] r.prefer = "balanced" /\ r.complexity = "complex" -> "most_capable"

\* Whether k comes before m whatever their keys, in the order of _order; prices
\* are compared as (weight + 1) / (cost + a dollar).
Preferred(k, m, prefer) ==
    CASE prefer = "cheapest" -> BlendedCost(k) < BlendedCost(m)
      [] prefer = "fastest" ->
            \/ Latency(k) < Latency(m)
            \/ Latency(k) = Latency(m) /\ BlendedCost(k) < BlendedCost(m)
      [] prefer = "most_capable" ->
            \/ CapabilityWeight(k) > CapabilityWeight(m)
            \/ /\ CapabilityWeight(k) = CapabilityWeight(m)
               /\ Catalogue[k].context > Catalogue[m].context
      [] prefer = "balanced" ->
            (CapabilityWeight(k) + 1) * (BlendedCost(m) + 100)
              > (CapabilityWeight(m) + 1) * (BlendedCost(k) + 100)

\* The first of a set of candidates: the least key of those none is preferred to.
First(S, prefer) ==
    LET best == {k \in S : \A m \in S : ~Preferred(m, k, prefer)}
    IN  CHOOSE k \in best : \A m \in best : k <= m

\* select: a pinned model is taken as it is, whoever provides it.
Select(c, r) ==
    LET candidates == {k \in Available(c) : Fits(k, r)}
    IN  IF r.pinned # None
        THEN IF r.pinned \in Known(c) THEN r.pinned ELSE None
        ELSE IF candidates = {} THEN None ELSE First(candidates, PreferenceOf(r))

\* select_embedding_model, which no code calls yet.
SelectEmbedding(c) ==
    First({k \in Known(c) : /\ "embedding" \in Catalogue[k].capabilities
                            /\ Catalogue[k].provider \in Allowed(c)}, "cheapest")

-----------------------------------------------------------------------------
RoutingInit ==
    /\ connected = {}
    /\ request \in Asked
    /\ selection = Select(connected, request)

Install(c) ==
    /\ connected' = c
    /\ selection' = Select(c, request)
    /\ UNCHANGED request

Connect(p) == p \notin connected /\ Install(connected \cup {p})
Disconnect(p) == p \in connected /\ Install(connected \ {p})

RoutingNext == \E p \in Real : Connect(p) \/ Disconnect(p)

RoutingSpec == RoutingInit /\ [][RoutingNext]_routingVars

-----------------------------------------------------------------------------

\* One more provider never costs a caller anything: a request that could be
\* served still is, by a model that fits it and that its preference does not
\* place behind the one it had; and a model that nobody pinned is one of a
\* provider that is there ("Without this the router would happily return an
\* OpenAI model on an install with no OpenAI credential").
ConnectingOnlyHelps ==
    [][ /\ connected # connected' /\ connected \subseteq connected'
        /\ selection # None
        => /\ selection' # None
           /\ request.pinned = None =>
                 /\ Fits(selection', request)
                 /\ Catalogue[selection'].provider \in connected' \cup {"mock"}
                 /\ ~Preferred(selection, selection', PreferenceOf(request)) ]_routingVars
==============================================================================
