--------------------------- MODULE DecisionsProofs ---------------------------
(***************************************************************************)
(* What is proved about the four parts that decide by themselves: the      *)
(* model router, the conditions of edges, the turns of the supervisor, and *)
(* the client of remote tools.                                             *)
(***************************************************************************)
EXTENDS Supervision, ModelRouting, Conditions, RemoteTools,
        FiniteSetTheorems, SequenceTheorems, WellFoundedInduction, TLAPS

-----------------------------------------------------------------------------
(* Strict orders on finite sets, and the tables of the program.              *)

\* A finite set that is not empty has a member nothing comes before.
LEMMA MinimalExists ==
  ASSUME NEW S, IsFiniteSet(S), S # {}, NEW Before,
         \A x \in S : <<x, x>> \notin Before,
         \A x, y, z \in S :
            <<x, y>> \in Before /\ <<y, z>> \in Before => <<x, z>> \in Before
  PROVE  \E x \in S : \A y \in S : <<y, x>> \notin Before
<1> DEFINE Prior(x) == {y \in S : <<y, x>> \in Before}
           D == {Prior(x) : x \in S}
<1>1. IsWellFoundedOn(StrictSubsetOrdering(S), SUBSET S)
  BY FS_StrictSubsetOrderingWellFounded, FS_FiniteSubsetsOfFinite
<1>2. D \subseteq SUBSET S /\ D # {}
  <2>1. \A x \in S : Prior(x) \in SUBSET S /\ Prior(x) \in D
    OBVIOUS
  <2>2. \A X \in D : X \in SUBSET S
    OBVIOUS
  <2> QED BY <2>1, <2>2
<1>3. PICK X \in D : \A Y \in D : ~ (<<Y, X>> \in StrictSubsetOrdering(S))
  <2> HIDE DEF D
  <2> QED BY <1>1, <1>2, WFMin
<1>4. PICK x \in S : X = Prior(x)
  OBVIOUS
<1>5. ASSUME NEW y \in S, <<y, x>> \in Before PROVE FALSE
  <2>1. Prior(y) \subseteq Prior(x) /\ y \in Prior(x) /\ y \notin Prior(y)
    BY <1>5
  <2>2. Prior(y) \in D /\ Prior(y) \in SUBSET S /\ Prior(x) \in SUBSET S
    OBVIOUS
  <2> HIDE DEF Prior, D
  <2>3. <<Prior(y), Prior(x)>> \in StrictSubsetOrdering(S)
    BY <2>1, <2>2 DEF StrictSubsetOrdering
  <2> QED BY <1>3, <1>4, <2>2, <2>3
<1> QED BY <1>5

\* The least number of a set of naturals.
LEMMA LeastExists ==
  ASSUME NEW S, S \subseteq Nat, S # {}
  PROVE  Min(S) \in S /\ \A n \in S : Min(S) <= n
<1>1. PICK m \in S : TRUE
  OBVIOUS
<1> DEFINE T == {n \in S : n <= m}
           Before == {x \in Nat \X Nat : x[1] < x[2]}
<1>2. IsFiniteSet(T) /\ T # {}
  BY <1>1, FS_BoundedSetOfNaturals
<1>3. \A x, y \in Nat : <<x, y>> \in Before <=> x < y
  OBVIOUS
<1>4. /\ \A x \in T : <<x, x>> \notin Before
      /\ \A x, y, z \in T :
            <<x, y>> \in Before /\ <<y, z>> \in Before => <<x, z>> \in Before
  <2> HIDE DEF Before
  <2> QED BY <1>3
<1>5. \E x \in T : \A y \in T : <<y, x>> \notin Before
  <2> HIDE DEF T, Before
  <2> QED BY <1>2, <1>4, MinimalExists
<1>6. PICK x \in T : \A y \in T : ~(y < x)
  <2> HIDE DEF Before
  <2> QED BY <1>3, <1>5
<1>7. \A n \in S : x <= n
  BY <1>6
<1> QED BY <1>7 DEF Min

Provider == {"mock", "anthropic", "gemini", "openai", "groq", "ollama"}
ModelConfig ==
    [provider : Provider, context : Nat, output : Nat, input : Nat, completion : Nat,
     latency : {"fast", "standard", "slow"}, capabilities : SUBSET Capability]

\* The catalogue holds models.
LEMMA CatalogueIsTyped == Catalogue \in Seq(ModelConfig)
<1>1. ASSUME NEW provider \in Provider, NEW size \in Nat, NEW output \in Nat,
             NEW in \in Nat, NEW out \in Nat, NEW latency \in {"fast", "standard", "slow"},
             NEW capabilities \in SUBSET Capability
      PROVE  Model(provider, size, output, in, out, latency, capabilities) \in ModelConfig
  BY <1>1 DEF Model, ModelConfig
<1>2. Talks \subseteq Capability
  BY DEF Talks, Capability
<1>3. MockModels \in Seq(ModelConfig)
  <2>1. Model("mock", 8, 1, 0, 0, "fast", {"embedding"}) \in ModelConfig
    BY <1>1 DEF Capability, Provider
  <2>2. Model("mock", 128, 4, 0, 0, "fast", Talks \cup {"fast", "cheap"}) \in ModelConfig
    BY <1>1, <1>2 DEF Capability, Provider
  <2>3. Model("mock", 200, 8, 0, 0, "standard", Talks \cup {"reasoning", "long_context"})
          \in ModelConfig
    BY <1>1, <1>2 DEF Capability, Provider
  <2> QED BY <2>1, <2>2, <2>3 DEF MockModels
<1>4. AnthropicModels \in Seq(ModelConfig)
  <2>1. Model("anthropic", 200, 8, 100, 500, "fast",
              Talks \cup {"fast", "cheap", "long_context"}) \in ModelConfig
    BY <1>1, <1>2 DEF Capability, Provider
  <2>2. Model("anthropic", 200, 32, 500, 2500, "standard",
              Talks \cup {"reasoning", "long_context", "vision"}) \in ModelConfig
    BY <1>1, <1>2 DEF Capability, Provider
  <2>3. Model("anthropic", 200, 16, 300, 1500, "standard",
              Talks \cup {"reasoning", "long_context", "vision"}) \in ModelConfig
    BY <1>1, <1>2 DEF Capability, Provider
  <2> QED BY <2>1, <2>2, <2>3 DEF AnthropicModels
<1>5. GeminiModels \in Seq(ModelConfig)
  BY <1>1, <1>2 DEF GeminiModels, Capability, Provider
<1>6. OpenAIModels \in Seq(ModelConfig)
  BY <1>1, <1>2 DEF OpenAIModels, Capability, Provider
<1>7. <<GroqModel>> \in Seq(ModelConfig)
  BY <1>1, <1>2 DEF GroqModel, Capability, Provider
<1>8. LocalModels[1] \in ModelConfig /\ LocalModels[2] \in ModelConfig
  BY <1>1, <1>2 DEF LocalModels, Capability, Provider
<1>9. EmbeddingModel \in ModelConfig
  BY <1>1, <1>2 DEF EmbeddingModel, Capability, Provider
<1>10. <<LocalModels[1]>> \in Seq(ModelConfig)
       /\ <<LocalModels[2], EmbeddingModel>> \in Seq(ModelConfig)
  BY <1>8, <1>9
<1> QED BY <1>3, <1>4, <1>5, <1>6, <1>7, <1>10 DEF Catalogue

\* The agents' table holds definitions.
LEMMA AgentsAreTyped == ReferenceAgent \in Seq(AgentDefinition) /\ Agent = 1 .. 8
<1>1. \A words \in SUBSET Word, proficiency \in 0 .. 100 :
         Good(words, proficiency) \in Skill
  BY DEF Good, Skill
<1> USE DEF Word, AgentDefinition, AgentKind, Capability, Preference
<1>3. Research \in AgentDefinition
  BY <1>1 DEF Research
<1>4. \A words \in SUBSET Word : Focused(words) \in AgentDefinition
  <2> SUFFICES ASSUME NEW words \in SUBSET Word PROVE Focused(words) \in AgentDefinition
    OBVIOUS
  <2>1. <<Good(words, 90)>> \o Research.skills \in Seq(Skill)
    <3>1. <<Good(words, 90)>> \in Seq(Skill)
      BY <1>1
    <3>2. Research.skills \in Seq(Skill)
      BY <1>3
    <3> QED BY <3>1, <3>2
  <2> QED BY <1>3, <2>1 DEF Focused
<1>5. Pricing \in AgentDefinition /\ Feature \in AgentDefinition
  BY <1>4 DEF Pricing, Feature
<1>6. Data \in AgentDefinition
  BY <1>1 DEF Data
<1>7. Code \in AgentDefinition
  BY <1>1 DEF Code
<1>8. Analyst \in AgentDefinition /\ Critic \in AgentDefinition
  BY <1>1 DEF Analyst, Critic
<1>9. Finalizer \in AgentDefinition
  BY <1>1 DEF Finalizer
<1> HIDE DEF Word, AgentDefinition, AgentKind, Capability, Preference
<1> QED BY <1>3, <1>5, <1>6, <1>7, <1>8, <1>9 DEF ReferenceAgent, Agent

\* What is computed step by step, each step from a set into itself, exists.
LEMMA IterationExists ==
  ASSUME NEW X, NEW first \in X, NEW n \in Nat, NEW step \in [1 .. n -> [X -> X]]
  PROVE  \E f \in [0 .. n -> X] :
            f[0] = first /\ \A i \in 1 .. n : f[i] = step[i][f[i - 1]]
<1> DEFINE Upto(m) == \E f \in [0 .. m -> X] :
                        f[0] = first /\ \A i \in 1 .. m : f[i] = step[i][f[i - 1]]
           S == {m \in 0 .. n : ~Upto(m)}
<1>1. Upto(0)
  <2> DEFINE g == [i \in 0 .. 0 |-> first]
  <2>1. g \in [0 .. 0 -> X] /\ g[0] = first /\ \A i \in 1 .. 0 : g[i] = step[i][g[i - 1]]
    OBVIOUS
  <2> HIDE DEF g
  <2> QED BY <2>1
<1>2. ASSUME NEW m \in 0 .. n, m + 1 \in 0 .. n, Upto(m) PROVE Upto(m + 1)
  <2>1. PICK f \in [0 .. m -> X] : f[0] = first /\ \A i \in 1 .. m : f[i] = step[i][f[i - 1]]
    BY <1>2
  <2> DEFINE g == [i \in 0 .. m + 1 |-> IF i <= m THEN f[i] ELSE step[m + 1][f[m]]]
  <2>2. m + 1 \in 1 .. n /\ m \in 0 .. m /\ step[m + 1][f[m]] \in X
    <3>1. m + 1 \in 1 .. n /\ m \in 0 .. m
      BY <1>2
    <3>2. f[m] \in X /\ step[m + 1] \in [X -> X]
      BY <3>1
    <3> QED BY <3>1, <3>2
  <2>3. g \in [0 .. m + 1 -> X]
    BY <2>2
  <2>4. g[0] = first
    BY <2>1
  <2>5. ASSUME NEW i \in 1 .. m + 1 PROVE g[i] = step[i][g[i - 1]]
    <3>1. CASE i <= m
      <4>1. i \in 1 .. m /\ i \in 0 .. m + 1 /\ i - 1 \in 0 .. m + 1 /\ i - 1 <= m
        BY <3>1
      <4> QED BY <2>1, <3>1, <4>1
    <3>2. CASE i = m + 1
      <4>1. i \in 0 .. m + 1 /\ ~(i <= m) /\ i - 1 = m /\ m \in 0 .. m + 1 /\ m <= m
        BY <3>2
      <4> QED BY <3>2, <4>1
    <3> QED BY <3>1, <3>2
  <2> HIDE DEF g
  <2> QED BY <2>3, <2>4, <2>5
<1>3. CASE S = {}
  <2> HIDE DEF Upto
  <2>1. Upto(n)
    BY <1>3
  <2> QED BY <2>1 DEF Upto
<1>4. CASE S # {}
  <2> HIDE DEF Upto
  <2>1. S \subseteq Nat
    OBVIOUS
  <2>2. PICK m \in S : \A k \in S : m <= k
    BY <1>4, <2>1, LeastExists
  <2>3. m \in 0 .. n /\ m # 0 /\ ~Upto(m)
    BY <1>1
  <2>4. m - 1 \in 0 .. n /\ (m - 1) + 1 = m /\ ~(m <= m - 1)
    BY <2>3
  <2>5. Upto(m - 1)
    BY <2>2, <2>4
  <2> QED BY <1>2, <2>3, <2>4, <2>5
<1> QED BY <1>3, <1>4

\* ... and nothing else satisfies its equations.
LEMMA IterationStays ==
  ASSUME NEW X, NEW first \in X, NEW n \in Nat, NEW step \in [1 .. n -> [X -> X]],
         NEW f, f[0] = first,
         \A i \in 1 .. n : f[i - 1] \in X => f[i] = step[i][f[i - 1]]
  PROVE  \A i \in 0 .. n : f[i] \in X
<1> DEFINE S == {i \in 0 .. n : f[i] \notin X}
<1>1. SUFFICES ASSUME S # {} PROVE FALSE
  OBVIOUS
<1>2. S \subseteq Nat
  OBVIOUS
<1>3. PICK m \in S : \A k \in S : m <= k
  <2> HIDE DEF S
  <2> QED BY <1>1, <1>2, LeastExists
<1>4. m \in 1 .. n /\ m - 1 \in 0 .. n /\ ~(m <= m - 1)
  OBVIOUS
<1>5. f[m - 1] \in X
  BY <1>3, <1>4
<1>6. f[m] \in X
  <2>1. step[m] \in [X -> X]
    BY <1>4
  <2> QED BY <1>4, <1>5, <2>1
<1> QED BY <1>6

-----------------------------------------------------------------------------
(* The model router: one provider more never costs a caller anything.        *)

\* A key is a number with a model behind it.
LEMMA KeysAreNumbers ==
  ASSUME NEW k \in Key
  PROVE  k \in Nat /\ k # None /\ Catalogue[k] \in ModelConfig
<1>1. Key \subseteq Nat /\ Catalogue[k] \in ModelConfig
  BY CatalogueIsTyped DEF Key
<1> QED BY <1>1, RoutingAssumption

\* There are finitely many keys.
LEMMA KeysAreFinite == IsFiniteSet(Key)
<1>1. Len(Catalogue) \in Nat /\ Key = 1 .. Len(Catalogue)
  BY CatalogueIsTyped DEF Key
<1> QED BY <1>1, FS_Interval

\* Costs, weights and latencies are numbers.
LEMMA MeasuresAreNumbers ==
  ASSUME NEW k \in Key
  PROVE  /\ BlendedCost(k) \in Nat /\ CapabilityWeight(k) \in Nat /\ Latency(k) \in Nat
         /\ Catalogue[k].context \in Nat
<1>1. Catalogue[k] \in ModelConfig
  BY KeysAreNumbers
<1>2. BlendedCost(k) \in Nat /\ Catalogue[k].context \in Nat
  BY <1>1 DEF BlendedCost, ModelConfig
<1>3. Catalogue[k].latency \in {"fast", "standard", "slow"}
  BY <1>1 DEF ModelConfig
<1>4. Latency(k) \in Nat
  BY <1>3 DEF Latency, LatencyOrder
<1>5. CapabilityWeight(k) \in Nat
  BY DEF CapabilityWeight
<1> QED BY <1>2, <1>4, <1>5

\* Ratios compared crosswise: of three, the first is above the third if each is
\* above the next.
LEMMA RatiosAreOrdered ==
  ASSUME NEW a \in Nat, NEW b \in Nat, NEW c \in Nat,
         NEW x \in Nat, NEW y \in Nat, NEW z \in Nat, x > 0, y > 0, z > 0,
         a * y > b * x, b * z > c * y
  PROVE  a * z > c * x
<1>1. \A m, n, k \in Nat : k > 0 /\ m > n => m * k > n * k
  OBVIOUS
<1>2. \A m, n, k \in Nat : m <= n => m * k <= n * k
  OBVIOUS
<1>3. /\ a * y \in Nat /\ b * x \in Nat /\ b * z \in Nat /\ c * y \in Nat
      /\ a * z \in Nat /\ c * x \in Nat
  OBVIOUS
<1>4. (a * y) * z > (b * x) * z
  BY <1>1, <1>3
<1>5. (b * z) * x > (c * y) * x
  BY <1>1, <1>3
<1>6. (a * y) * z = (a * z) * y /\ (b * x) * z = (b * z) * x /\ (c * y) * x = (c * x) * y
  OBVIOUS
<1>7. (a * z) * y \in Nat /\ (b * z) * x \in Nat /\ (c * x) * y \in Nat
  BY <1>3
<1>8. (a * z) * y > (c * x) * y
  BY <1>4, <1>5, <1>6, <1>7
<1>9. SUFFICES ASSUME ~(a * z > c * x) PROVE FALSE
  OBVIOUS
<1>10. (a * z) * y <= (c * x) * y
  BY <1>2, <1>3, <1>9
<1> QED BY <1>7, <1>8, <1>10

\* Every preference is a strict order of the models (_order).
LEMMA PreferredIsStrict ==
  ASSUME NEW prefer \in Preference
  PROVE  /\ \A k \in Key : ~Preferred(k, k, prefer)
         /\ \A k, m, n \in Key :
               Preferred(k, m, prefer) /\ Preferred(m, n, prefer) => Preferred(k, n, prefer)
<1>1. /\ \A k \in Key : BlendedCost(k) \in Nat /\ CapabilityWeight(k) \in Nat
                        /\ Latency(k) \in Nat /\ Catalogue[k].context \in Nat
  BY MeasuresAreNumbers
<1>2. CASE prefer = "cheapest"
  BY <1>1, <1>2 DEF Preferred
<1>3. CASE prefer = "fastest"
  BY <1>1, <1>3 DEF Preferred
<1>4. CASE prefer = "most_capable"
  BY <1>1, <1>4 DEF Preferred
<1>5. CASE prefer = "balanced"
  <2> DEFINE a(k) == CapabilityWeight(k) + 1
             x(k) == BlendedCost(k) + 100
  <2>1. \A k \in Key : a(k) \in Nat /\ x(k) \in Nat /\ x(k) > 0
    BY <1>1
  <2>2. \A k, m \in Key : Preferred(k, m, prefer) <=> a(k) * x(m) > a(m) * x(k)
    BY <1>5 DEF Preferred
  <2> HIDE DEF a, x
  <2>3. \A k \in Key : ~Preferred(k, k, prefer)
    <3> SUFFICES ASSUME NEW k \in Key PROVE ~(a(k) * x(k) > a(k) * x(k))
      BY <2>2
    <3>1. a(k) * x(k) \in Nat
      BY <2>1
    <3> QED BY <3>1
  <2>4. ASSUME NEW k \in Key, NEW m \in Key, NEW n \in Key,
               Preferred(k, m, prefer), Preferred(m, n, prefer)
        PROVE  Preferred(k, n, prefer)
    <3>1. a(k) * x(m) > a(m) * x(k) /\ a(m) * x(n) > a(n) * x(m)
      BY <2>2, <2>4
    <3>2. a(k) * x(n) > a(n) * x(k)
      BY <2>1, <3>1, RatiosAreOrdered
    <3> QED BY <2>2, <3>2
  <2> QED BY <2>3, <2>4
<1> QED BY <1>2, <1>3, <1>4, <1>5 DEF Preference

\* The first of some candidates is one of them, and none is preferred to it.
LEMMA FirstIsBest ==
  ASSUME NEW S, S \subseteq Key, S # {}, NEW prefer \in Preference
  PROVE  First(S, prefer) \in S /\ \A m \in S : ~Preferred(m, First(S, prefer), prefer)
<1> DEFINE Before == {x \in Key \X Key : Preferred(x[1], x[2], prefer)}
           best == {k \in S : \A m \in S : ~Preferred(m, k, prefer)}
<1>1. \A k, m \in Key : <<k, m>> \in Before <=> Preferred(k, m, prefer)
  OBVIOUS
<1>2. /\ \A k \in S : <<k, k>> \notin Before
      /\ \A k, m, n \in S : <<k, m>> \in Before /\ <<m, n>> \in Before => <<k, n>> \in Before
  <2> HIDE DEF Before
  <2> QED BY <1>1, PreferredIsStrict
<1>3. IsFiniteSet(S)
  BY KeysAreFinite, FS_Subset
<1>4. \E k \in S : \A m \in S : <<m, k>> \notin Before
  <2> HIDE DEF Before
  <2> QED BY <1>2, <1>3, MinimalExists
<1>5. best # {}
  <2> HIDE DEF Before
  <2> QED BY <1>1, <1>4
<1>6. best \subseteq Nat
  BY KeysAreNumbers
<1>7. \E k \in best : \A m \in best : k <= m
  <2> HIDE DEF best
  <2> QED BY <1>5, <1>6, LeastExists
<1>8. First(S, prefer) \in best
  BY <1>7 DEF First
<1> QED BY <1>8

\* A provider more makes no model unknown and none unavailable.
LEMMA MoreIsAvailable ==
  ASSUME NEW c, NEW d, c \subseteq d
  PROVE  Known(c) \subseteq Known(d) /\ Available(c) \subseteq Available(d)
         /\ Available(d) \subseteq Key
BY DEF Known, Available, Allowed

\* What agents, the supervisor and others ask for has a preference.
LEMMA AskedPrefers ==
  ASSUME NEW r \in Asked
  PROVE  PreferenceOf(r) \in Preference
<1>1. r.prefer \in Preference /\ r.complexity \in Complexity
  <2>1. CASE r \in Request
    BY <2>1, RoutingAssumption DEF Criteria
  <2>2. CASE r = SupervisorRequest
    BY <2>2 DEF SupervisorRequest, Preference, Complexity
  <2>3. ASSUME NEW a \in DOMAIN ReferenceAgent, NEW s \in {"simple", "moderate", "complex"},
               r = AgentRequest(a, s)
        PROVE  r.prefer \in Preference /\ r.complexity \in Complexity
    <3>1. ReferenceAgent[a] \in AgentDefinition
      BY AgentsAreTyped
    <3> QED BY <2>3, <3>1 DEF AgentRequest, AgentDefinition, Complexity
  <2> QED BY <2>1, <2>2, <2>3 DEF Asked
<1> QED BY <1>1 DEF PreferenceOf, Preference, Complexity

\* The router answers to the providers that are connected.
RoutingInv ==
    /\ request \in Asked
    /\ selection = Select(connected, request)

\* For any further requests: connecting a provider leaves every request served,
\* and no worse (routing/model_router.py:186).
THEOREM ConnectingAlwaysHelps == RoutingSpec => ConnectingOnlyHelps
<1>1. RoutingInit => RoutingInv
  BY DEF RoutingInit, RoutingInv
<1>2. RoutingInv /\ [RoutingNext]_routingVars => RoutingInv'
  BY DEF RoutingInv, RoutingNext, Connect, Disconnect, Install, routingVars
<1> DEFINE Helps ==
        /\ connected # connected' /\ connected \subseteq connected'
        /\ selection # None
        => /\ selection' # None
           /\ request.pinned = None =>
                 /\ Fits(selection', request)
                 /\ Catalogue[selection'].provider \in connected' \cup {"mock"}
                 /\ ~Preferred(selection, selection', PreferenceOf(request))
<1>3. ASSUME RoutingInv, RoutingInv', [RoutingNext]_routingVars PROVE Helps
  <2> SUFFICES ASSUME connected # connected', connected \subseteq connected', selection # None
               PROVE  Helps
    OBVIOUS
  <2>1. request' = request
    BY <1>3 DEF RoutingNext, Connect, Disconnect, Install, routingVars
  <2>2. /\ selection = Select(connected, request) /\ selection' = Select(connected', request)
        /\ request \in Asked /\ PreferenceOf(request) \in Preference
    BY <1>3, <2>1, AskedPrefers DEF RoutingInv
  <2>3. CASE request.pinned # None
    BY <2>2, <2>3, MoreIsAvailable DEF Select
  <2>4. CASE request.pinned = None
    <3> DEFINE now == {k \in Available(connected) : Fits(k, request)}
               then == {k \in Available(connected') : Fits(k, request)}
               prefer == PreferenceOf(request)
    <3>1. now # {} /\ selection = First(now, prefer)
      BY <2>2, <2>4 DEF Select
    <3>2. now \subseteq then /\ then \subseteq Key
      BY MoreIsAvailable
    <3>3. selection' = First(then, prefer)
      BY <2>2, <2>4, <3>1, <3>2 DEF Select
    <3>4. selection \in now /\ selection' \in then /\ ~Preferred(selection, selection', prefer)
      <4> HIDE DEF now, then, prefer
      <4> QED BY <2>2, <3>1, <3>2, <3>3, FirstIsBest DEF prefer
    <3>5. selection' # None
      BY <3>2, <3>4, KeysAreNumbers
    <3>6. Catalogue[selection'].provider \in connected' \cup {"mock"}
      BY <3>4 DEF Available, Allowed
    <3> QED BY <3>4, <3>5, <3>6
  <2> QED BY <2>3, <2>4
<1>4. RoutingInv /\ RoutingInv' /\ [RoutingNext]_routingVars => [Helps]_routingVars
  BY <1>3
<1> QED BY <1>1, <1>2, <1>4, PTL DEF RoutingSpec, ConnectingOnlyHelps

-----------------------------------------------------------------------------
(* The conditions: of two opposite edges at most one is taken.               *)

\* What a lookup may come to.
Found == Value \cup {Missing, Failure}

\* One segment of a path finds a value, nothing, or an error (resolve_path).
LEMMA EnterFinds ==
  ASSUME NEW v \in Found, NEW s \in Text
  PROVE  Enter(v, s) \in Found
<1>1. CASE v[1] = "dict"
  <2>1. v \in Value
    BY <1>1 DEF Found, Missing, Failure
  <2>2. \A k \in DOMAIN v[2] : v[2][k] \in Value
    BY <1>1, <2>1, ConditionsAssumption
  <2> QED BY <1>1, <2>1, <2>2 DEF Enter, Found, Failure
<1>2. CASE v[1] = "list"
  <2>1. v \in Value
    BY <1>2 DEF Found, Missing, Failure
  <2>2. v[2] \in Seq(Value)
    BY <1>2, <2>1, ConditionsAssumption
  <2> DEFINE n == Len(v[2])
             i == IF Index(s) < 0 THEN n + Index(s) + 1 ELSE Index(s) + 1
  <2>3. IsIndex(s) => Index(s) \in Int
    <3> SUFFICES ASSUME IsIndex(s) PROVE Index(s) \in Int
      OBVIOUS
    <3>1. Len(s) \in {1, 2}
      <4> DEFINE k == Len(s)
      <4>1. s # <<>> /\ k <= 2
        BY DEF IsIndex, LooksLikeIndex
      <4>2. k \in Nat /\ k # 0
        BY <4>1, EmptySeq DEF Text
      <4> HIDE DEF k
      <4>3. k \in {1, 2}
        BY <4>1, <4>2
      <4> QED BY <4>3 DEF k
    <3>2. s[1] \in 0 .. 15 /\ (Len(s) = 2 => s[2] \in 0 .. 15)
      BY <3>1 DEF Text
    <3> QED BY <3>1, <3>2 DEF Index
  <2>4. ASSUME IsIndex(s), -n <= Index(s), Index(s) < n
        PROVE  v[2][i] \in Value
    <3>1. n \in Nat /\ Index(s) \in Int
      BY <2>2, <2>3, <2>4
    <3>2. i \in 1 .. n
      BY <2>4, <3>1
    <3> HIDE DEF i
    <3> QED BY <2>2, <3>2
  <2> QED BY <1>2, <2>4 DEF Enter, Found, Missing, Failure
<1>3. CASE v[1] # "dict" /\ v[1] # "list"
  BY <1>3 DEF Enter, Found
<1> QED BY <1>1, <1>2, <1>3

\* What a path leads to is a value, nothing, or an error (resolve_path).
LEMMA ResolveFinds ==
  ASSUME NEW c \in Context, NEW p \in Path
  PROVE  ResolvePath(c, p) \in Found
<1> DEFINE n == Len(p)
           Equation(f) == f = [i \in 0 .. n |-> IF i = 0 THEN c ELSE Enter(f[i - 1], p[i])]
           At == CHOOSE f : Equation(f)
           step == [i \in 1 .. n |-> [v \in Found |-> Enter(v, p[i])]]
<1>1. n \in Nat /\ p \in Seq(Text) /\ c \in Found
  BY ConditionsAssumption DEF Found
<1>2. \A i \in 1 .. n : p[i] \in Text
  BY <1>1
<1>3. step \in [1 .. n -> [Found -> Found]]
  BY <1>2, EnterFinds
<1>4. \A i \in 1 .. n, v \in Found : step[i][v] = Enter(v, p[i])
  OBVIOUS
<1>5. PICK f \in [0 .. n -> Found] :
        f[0] = c /\ \A i \in 1 .. n : f[i] = step[i][f[i - 1]]
  <2>1. n \in Nat /\ c \in Found
    BY <1>1
  <2> HIDE DEF n, step, Found, At, Equation
  <2> QED BY <1>3, <2>1, IterationExists
<1>6. Equation(f)
  <2>1. ASSUME NEW i \in 0 .. n PROVE f[i] = IF i = 0 THEN c ELSE Enter(f[i - 1], p[i])
    <3>1. CASE i = 0
      BY <3>1, <1>5
    <3>2. CASE i # 0
      <4>1. i \in 1 .. n /\ f[i - 1] \in Found
        BY <3>2
      <4> HIDE DEF n, step
      <4> QED BY <3>2, <4>1, <1>4, <1>5
    <3> QED BY <3>1, <3>2
  <2> HIDE DEF n
  <2>2. f = [i \in 0 .. n |-> f[i]]
    OBVIOUS
  <2> QED BY <2>1, <2>2
<1>7. Equation(At)
  <2> HIDE DEF Equation
  <2> QED BY <1>6
<1>8. At[0] = c /\ \A i \in 1 .. n : At[i] = Enter(At[i - 1], p[i])
  <2>1. \A i \in 0 .. n : At[i] = IF i = 0 THEN c ELSE Enter(At[i - 1], p[i])
    <3> HIDE DEF n, At
    <3> QED BY <1>7
  <2>2. 0 \in 0 .. n /\ \A i \in 1 .. n : i \in 0 .. n /\ i # 0
    BY <1>1
  <2> HIDE DEF At, n
  <2> QED BY <2>1, <2>2
<1>9. \A i \in 0 .. n : At[i] \in Found
  <2>1. n \in Nat /\ c \in Found
    BY <1>1
  <2>2. \A i \in 1 .. n : At[i - 1] \in Found => At[i] = step[i][At[i - 1]]
    <3> HIDE DEF At, n, step, Found
    <3> QED BY <1>4, <1>8
  <2>3. At[0] = c
    BY <1>8
  <2> HIDE DEF At, n, step, Found, Equation
  <2> QED BY <1>3, <2>1, <2>2, <2>3, IterationStays
<1>10. At[n] \in Found
  <2> HIDE DEF At
  <2> QED BY <1>1, <1>9
<1> QED BY <1>10 DEF ResolvePath, Found

\* Strings are ordered by the first place where they differ.
LEMMA TextOrder ==
  ASSUME NEW s \in Text, NEW t \in Text
  PROVE  /\ s = t \/ TextBefore(s, t) \/ TextBefore(t, s)
         /\ ~(TextBefore(s, t) /\ TextBefore(t, s)) /\ ~TextBefore(s, s)
<1>1. ASSUME NEW x \in Text, NEW y \in Text
      PROVE  IsPrefix(x, y) <=> /\ Len(x) <= Len(y)
                                /\ \A i \in 1 .. Len(x) : x[i] = y[i]
  <2>1. /\ Len(x) \in Nat /\ Len(y) \in Nat /\ SubSeq(x, 1, Len(x)) = x
        /\ DOMAIN x = 1 .. Len(x) /\ DOMAIN y = 1 .. Len(y)
    BY DEF Text
  <2>2. CASE Len(x) <= Len(y)
    <3>1. SubSeq(y, 1, Len(x)) = [i \in 1 .. Len(x) |-> y[i]]
      BY <2>1, <2>2 DEF Text
    <3>2. x = [i \in 1 .. Len(x) |-> x[i]]
      BY DEF Text
    <3>3. x = [i \in 1 .. Len(x) |-> y[i]] <=> \A i \in 1 .. Len(x) : x[i] = y[i]
      BY <3>2
    <3> QED BY <2>1, <2>2, <3>1, <3>3 DEF IsPrefix
  <2>3. CASE ~(Len(x) <= Len(y))
    BY <2>3 DEF IsPrefix
  <2> QED BY <2>2, <2>3
<1> DEFINE D == {i \in DOMAIN s \cap DOMAIN t : s[i] # t[i]}
<1>2. /\ Len(s) \in Nat /\ Len(t) \in Nat
      /\ DOMAIN s = 1 .. Len(s) /\ DOMAIN t = 1 .. Len(t)
      /\ \A i \in DOMAIN s : s[i] \in Int
      /\ \A i \in DOMAIN t : t[i] \in Int
  BY DEF Text
<1>3. CASE D = {}
  <2>1. \A i \in DOMAIN s \cap DOMAIN t : s[i] = t[i]
    BY <1>3
  <2>2. IsPrefix(s, t) \/ IsPrefix(t, s)
    BY <1>1, <1>2, <2>1
  <2>3. IsPrefix(s, t) /\ IsPrefix(t, s) => s = t
    <3> SUFFICES ASSUME IsPrefix(s, t), IsPrefix(t, s) PROVE s = t
      OBVIOUS
    <3>1. \A i \in 1 .. Len(s) : s[i] = t[i]
      BY <1>1
    <3>2. Len(s) <= Len(t) /\ Len(t) <= Len(s)
      BY <1>1
    <3>3. Len(s) = Len(t)
      BY <3>2 DEF Text
    <3> QED BY <3>1, <3>3 DEF Text
  <2>4. /\ TextBefore(s, t) <=> IsStrictPrefix(s, t)
        /\ TextBefore(t, s) <=> IsStrictPrefix(t, s)
    BY <1>2, <2>1 DEF TextBefore
  <2>5. ~TextBefore(s, s)
    BY <1>2 DEF TextBefore, IsStrictPrefix
  <2> QED BY <2>2, <2>3, <2>4, <2>5 DEF IsStrictPrefix
<1>4. CASE D # {}
  <2>1. D \subseteq Nat
    BY <1>2
  <2>2. PICK m \in D : \A i \in D : m <= i
    <3> HIDE DEF D
    <3> QED BY <1>4, <2>1, LeastExists
  <2>3. /\ m \in 1 .. Len(s) /\ m \in 1 .. Len(t) /\ s[m] # t[m]
        /\ s[m] \in Int /\ t[m] \in Int
    BY <1>2, <2>2
  <2>4. ASSUME NEW i \in 1 .. m - 1 PROVE s[i] = t[i]
    <3>1. i \in DOMAIN s /\ i \in DOMAIN t /\ ~(m <= i)
      BY <1>2, <2>3
    <3> QED BY <2>2, <3>1
  <2>5. ~IsPrefix(s, t) /\ ~IsPrefix(t, s)
    BY <1>1, <2>3
  <2>6. /\ TextBefore(s, t) <=> s[m] < t[m]
        /\ TextBefore(t, s) <=> t[m] < s[m]
    <3>1. ASSUME NEW i \in DOMAIN s \cap DOMAIN t, s[i] # t[i],
                 \A j \in 1 .. i - 1 : s[j] = t[j]
          PROVE  i = m
      <4>1. i \in D /\ m <= i /\ i \in Nat /\ m \in Nat
        BY <2>1, <2>2, <3>1
      <4>2. ~(m \in 1 .. i - 1)
        BY <2>3, <3>1
      <4> QED BY <2>3, <4>1, <4>2
    <3>2. m \in DOMAIN s \cap DOMAIN t
      BY <1>2, <2>3
    <3>3. ASSUME TextBefore(s, t) PROVE s[m] < t[m]
      <4>1. PICK i \in DOMAIN s \cap DOMAIN t : s[i] < t[i] /\ \A j \in 1 .. i - 1 : s[j] = t[j]
        BY <2>5, <3>3 DEF TextBefore, IsStrictPrefix
      <4>2. s[i] # t[i]
        BY <1>2, <4>1
      <4> QED BY <3>1, <4>1, <4>2
    <3>4. ASSUME TextBefore(t, s) PROVE t[m] < s[m]
      <4>1. PICK i \in DOMAIN s \cap DOMAIN t : t[i] < s[i] /\ \A j \in 1 .. i - 1 : t[j] = s[j]
        BY <2>5, <3>4 DEF TextBefore, IsStrictPrefix
      <4>2. s[i] # t[i]
        BY <1>2, <4>1
      <4> QED BY <3>1, <4>1, <4>2
    <3>5. s[m] < t[m] => TextBefore(s, t)
      BY <2>4, <3>2 DEF TextBefore
    <3>6. t[m] < s[m] => TextBefore(t, s)
      BY <2>4, <3>2 DEF TextBefore
    <3> QED BY <3>3, <3>4, <3>5, <3>6
  <2>7. ~TextBefore(s, s)
    BY <1>2 DEF TextBefore, IsStrictPrefix
  <2> QED BY <2>3, <2>6, <2>7
<1> QED BY <1>3, <1>4

\* Of two values that can be compared exactly one is less, or they are equal.
LEMMA ValueOrder ==
  ASSUME NEW v \in Value, NEW u \in Value, Comparable(v, u)
  PROVE  /\ Less(v, u) \/ Less(u, v) \/ v = u
         /\ ~(Less(v, u) /\ Less(u, v)) /\ ~(Less(v, u) /\ v = u)
<1>1. v = <<v[1], v[2]>> /\ u = <<u[1], u[2]>> /\ v[1] = u[1] /\ v[1] \in {"num", "str"}
  BY ConditionsAssumption DEF Comparable
<1>2. v = u <=> v[2] = u[2]
  BY <1>1
<1>3. Comparable(u, v)
  BY DEF Comparable
<1>4. CASE v[1] = "num"
  <2>1. v[2] \in 0 .. 9 /\ u[2] \in 0 .. 9
    BY <1>1, <1>4, ConditionsAssumption
  <2>2. (Less(v, u) <=> v[2] < u[2]) /\ (Less(u, v) <=> u[2] < v[2])
    BY <1>1, <1>3, <1>4 DEF Less, IsNumber
  <2> QED BY <1>2, <2>1, <2>2
<1>5. CASE v[1] = "str"
  <2>1. v[2] \in Text /\ u[2] \in Text
    BY <1>1, <1>5, ConditionsAssumption
  <2>2. (Less(v, u) <=> TextBefore(v[2], u[2])) /\ (Less(u, v) <=> TextBefore(u[2], v[2]))
    BY <1>1, <1>3, <1>5 DEF Less, IsNumber
  <2> QED BY <1>2, <2>1, <2>2, TextOrder
<1> QED BY <1>1, <1>4, <1>5

\* Groups of two conditions (evaluate_group).
LEMMA PairsAreSettled ==
  ASSUME NEW x, NEW y
  PROVE  /\ EvaluateGroup("all", <<x, y>>) = IF x # "yes" THEN x ELSE y
         /\ EvaluateGroup("any", <<x, y>>) = IF x # "no" THEN x ELSE y
<1> DEFINE answers == <<x, y>>
           Settling(goesOn) == {i \in DOMAIN answers : answers[i] # goesOn}
<1>1. answers # <<>> /\ DOMAIN answers = {1, 2} /\ answers[1] = x /\ answers[2] = y
  OBVIOUS
<1> HIDE DEF answers
<1>2. ASSUME NEW goesOn
      PROVE  (CASE answers = <<>> -> "yes"
                [] answers # <<>> /\ Settling(goesOn) = {} -> goesOn
                [] Settling(goesOn) # {} -> answers[Min(Settling(goesOn))])
             = IF x # goesOn THEN x ELSE y
  <2>0. Settling(goesOn) \subseteq Nat
    BY <1>1
  <2>1. CASE x # goesOn
    <3>1. 1 \in Settling(goesOn) /\ Settling(goesOn) \subseteq {1, 2}
      BY <1>1, <2>1
    <3>2. Min(Settling(goesOn)) = 1
      <4> HIDE DEF Settling
      <4>1. Min(Settling(goesOn)) \in Settling(goesOn) /\ Min(Settling(goesOn)) <= 1
        BY <2>0, <3>1, LeastExists
      <4> QED BY <3>1, <4>1
    <3> HIDE DEF Settling
    <3> QED BY <1>1, <2>1, <3>1, <3>2
  <2>2. CASE x = goesOn /\ y # goesOn
    <3>1. Settling(goesOn) = {2}
      BY <1>1, <2>2
    <3>2. Min(Settling(goesOn)) = 2
      <4> HIDE DEF Settling
      <4>1. Min(Settling(goesOn)) \in Settling(goesOn)
        BY <2>0, <3>1, LeastExists
      <4> QED BY <3>1, <4>1
    <3> HIDE DEF Settling
    <3> QED BY <1>1, <2>2, <3>1, <3>2
  <2>3. CASE x = goesOn /\ y = goesOn
    <3>1. Settling(goesOn) = {}
      BY <1>1, <2>3
    <3> HIDE DEF Settling
    <3> QED BY <1>1, <2>3, <3>1
  <2> QED BY <2>1, <2>2, <2>3
<1>3. EvaluateGroup("all", answers) = IF x # "yes" THEN x ELSE y
  <2>1. EvaluateGroup("all", answers)
          = CASE answers = <<>> -> "yes"
              [] answers # <<>> /\ Settling("yes") = {} -> "yes"
              [] Settling("yes") # {} -> answers[Min(Settling("yes"))]
    BY DEF EvaluateGroup
  <2> HIDE DEF Settling
  <2> QED BY <1>2, <2>1
<1>4. EvaluateGroup("any", answers) = IF x # "no" THEN x ELSE y
  <2>1. EvaluateGroup("any", answers)
          = CASE answers = <<>> -> "yes"
              [] answers # <<>> /\ Settling("no") = {} -> "no"
              [] Settling("no") # {} -> answers[Min(Settling("no"))]
    BY DEF EvaluateGroup
  <2> HIDE DEF Settling
  <2> QED BY <1>2, <2>1
<1> QED BY <1>3, <1>4 DEF answers

\* The opposite conditions at a value that was found.
LEMMA OppositesDiffer ==
  ASSUME NEW v \in Found, NEW u \in Value, NEW op \in DOMAIN Opposite
  PROVE  LET x == EvaluateCondition(op, v, u)
             y == EvaluateCondition(Opposite[op], v, u)
         IN  /\ (x = "raises") = (y = "raises")
             /\ ~(x = "yes" /\ y = "yes")
             /\ x = "no" /\ y = "no" =>
                   /\ op \notin {"exists", "truthy"}
                   /\ v = Missing \/ (op \in {"lt", "lte"} /\ ~Comparable(v, u))
             /\ x \in {"yes", "no", "raises"} /\ y \in {"yes", "no", "raises"}
<1> DEFINE x == EvaluateCondition(op, v, u)
           y == EvaluateCondition(Opposite[op], v, u)
           Differ == /\ (x = "raises") = (y = "raises")
                     /\ ~(x = "yes" /\ y = "yes")
                     /\ x = "no" /\ y = "no" =>
                           /\ op \notin {"exists", "truthy"}
                           /\ v = Missing \/ (op \in {"lt", "lte"} /\ ~Comparable(v, u))
                     /\ x \in {"yes", "no", "raises"} /\ y \in {"yes", "no", "raises"}
<1>0. SUFFICES Differ
  OBVIOUS
<1>1. op \in {"exists", "truthy", "eq", "lt", "lte", "in"}
  BY DEF Opposite
<1>2. CASE v = Failure
  <2>1. x = "raises" /\ y = "raises"
    BY <1>2 DEF EvaluateCondition
  <2> HIDE DEF x, y
  <2> QED BY <2>1
<1>3. CASE v # Failure /\ op = "exists"
  <2>1. Opposite[op] = "not_exists"
    BY <1>3 DEF Opposite
  <2>2. x = Bool(v # Missing) /\ y = Bool(v = Missing)
    BY <1>3, <2>1 DEF EvaluateCondition
  <2> HIDE DEF x, y
  <2> QED BY <1>3, <2>2 DEF Bool
<1>4. CASE v # Failure /\ op = "truthy"
  <2>1. Opposite[op] = "falsy"
    BY <1>4 DEF Opposite
  <2>2. x = Bool(v # Missing /\ ~IsEmpty(v)) /\ y = Bool(v = Missing \/ IsEmpty(v))
    BY <1>4, <2>1 DEF EvaluateCondition
  <2> HIDE DEF x, y
  <2>3. x = "yes" <=> v # Missing /\ ~IsEmpty(v)
    BY <2>2 DEF Bool
  <2>4. y = "yes" <=> v = Missing \/ IsEmpty(v)
    BY <2>2 DEF Bool
  <2>5. x \in {"yes", "no"} /\ y \in {"yes", "no"}
    BY <2>2 DEF Bool
  <2>6. (x = "yes") # (y = "yes")
    BY <2>3, <2>4
  <2> QED BY <1>4, <2>5, <2>6
<1>5. CASE v # Failure /\ v = Missing /\ op \in {"eq", "lt", "lte", "in"}
  <2>1. Opposite[op] \in {"ne", "gte", "gt", "not_in"}
    BY <1>5 DEF Opposite
  <2>2. x = "no" /\ y = "no"
    BY <1>5, <2>1 DEF EvaluateCondition
  <2> HIDE DEF x, y
  <2> QED BY <1>5, <2>2
<1>6. CASE v # Failure /\ v # Missing /\ op = "eq"
  <2>1. Opposite[op] = "ne"
    BY <1>6 DEF Opposite
  <2>2. x = Bool(LooseEqual(v, u)) /\ y = Bool(~LooseEqual(v, u))
    BY <1>6, <2>1 DEF EvaluateCondition, Compared
  <2> HIDE DEF x, y
  <2> QED BY <1>6, <2>2 DEF Bool
<1>7. CASE v # Failure /\ v # Missing /\ op = "in"
  <2>1. Opposite[op] = "not_in"
    BY <1>7 DEF Opposite
  <2>2. x = Membership(u, v) /\ y = Not(Membership(u, v))
    BY <1>7, <2>1 DEF EvaluateCondition, Compared
  <2>3. Membership(u, v) \in {"yes", "no", "raises"}
    BY DEF Membership, Bool
  <2> HIDE DEF x, y
  <2> QED BY <1>7, <2>2, <2>3 DEF Not
<1>8. CASE v # Failure /\ v # Missing /\ op \in {"lt", "lte"}
  <2>1. v \in Value
    BY <1>8 DEF Found
  <2>2. \/ op = "lt" /\ x = Bool(Less(v, u)) /\ y = Bool(LessOrEqual(u, v))
        \/ op = "lte" /\ x = Bool(LessOrEqual(v, u)) /\ y = Bool(Less(u, v))
    <3>1. CASE op = "lt"
      <4>1. Opposite[op] = "gte"
        BY <3>1 DEF Opposite
      <4> QED BY <1>8, <3>1, <4>1 DEF EvaluateCondition, Compared
    <3>2. CASE op = "lte"
      <4>1. Opposite[op] = "gt"
        BY <3>2 DEF Opposite
      <4> QED BY <1>8, <3>2, <4>1 DEF EvaluateCondition, Compared
    <3> QED BY <1>8, <3>1, <3>2
  <2>3. x \in {"yes", "no"} /\ y \in {"yes", "no"}
    BY <2>2 DEF Bool
  <2>4. Comparable(u, v) <=> Comparable(v, u)
    BY DEF Comparable
  <2>5. CASE ~Comparable(v, u)
    <3>1. ~Less(v, u) /\ ~Less(u, v) /\ ~LessOrEqual(v, u) /\ ~LessOrEqual(u, v)
      BY <2>4, <2>5 DEF Less, LessOrEqual
    <3>2. x = "no" /\ y = "no"
      BY <2>2, <3>1 DEF Bool
    <3> HIDE DEF x, y
    <3> QED BY <1>8, <2>5, <3>2
  <2>6. CASE Comparable(v, u)
    <3>1. /\ Less(v, u) \/ Less(u, v) \/ v = u
          /\ ~(Less(v, u) /\ Less(u, v))
          /\ ~(Less(v, u) /\ v = u) /\ ~(Less(u, v) /\ v = u)
      BY <2>1, <2>4, <2>6, ValueOrder
    <3>2. /\ LessOrEqual(v, u) <=> Less(v, u) \/ v = u
          /\ LessOrEqual(u, v) <=> Less(u, v) \/ v = u
      BY <2>4, <2>6 DEF LessOrEqual
    <3>3. ~(x = "yes" /\ y = "yes") /\ ~(x = "no" /\ y = "no")
      <4>1. (Less(v, u) <=> ~LessOrEqual(u, v)) /\ (LessOrEqual(v, u) <=> ~Less(u, v))
        BY <3>1, <3>2
      <4> HIDE DEF x, y
      <4> QED BY <2>2, <4>1 DEF Bool
    <3> HIDE DEF x, y
    <3> QED BY <2>3, <3>3
  <2> QED BY <2>5, <2>6
<1> HIDE DEF Differ
<1> QED BY <1>1, <1>2, <1>3, <1>4, <1>5, <1>6, <1>7, <1>8

\* The answers are to the conditions, once they have been evaluated.
EdgesInv ==
    /\ context \in Context /\ path \in Path /\ expected \in Expected
    /\ holds # Unasked =>
          holds = [op \in Operator |-> EvaluateCondition(op, ResolvePath(context, path), expected)]

\* The answers to opposite conditions part the two edges, in each kind of group.
LEMMA EdgesPartition == EdgesInv => BranchesPartition
<1> DEFINE v == ResolvePath(context, path)
<1> SUFFICES ASSUME EdgesInv, holds # Unasked, NEW op \in DOMAIN Opposite
             PROVE  /\ EvaluateGroup("all", <<holds[op], holds[Opposite[op]]>>) # "yes"
                    /\ EvaluateGroup("any", <<holds[op], holds[Opposite[op]]>>) = "no" =>
                          /\ op \notin {"exists", "truthy"}
                          /\ \/ v = Missing
                             \/ op \in {"lt", "lte"} /\ ~Comparable(v, expected)
                    /\ (holds[op] = "raises") = (holds[Opposite[op]] = "raises")
  BY DEF BranchesPartition
<1>1. v \in Found /\ expected \in Value
  BY ResolveFinds, ConditionsAssumption DEF EdgesInv
<1>2. op \in Operator /\ Opposite[op] \in Operator
  BY DEF Opposite, Operator
<1> DEFINE x == holds[op]
           y == holds[Opposite[op]]
<1> HIDE DEF v
<1>3. x = EvaluateCondition(op, v, expected) /\ y = EvaluateCondition(Opposite[op], v, expected)
  BY <1>2 DEF EdgesInv, v
<1>4. /\ (x = "raises") = (y = "raises")
      /\ ~(x = "yes" /\ y = "yes")
      /\ x = "no" /\ y = "no" =>
            /\ op \notin {"exists", "truthy"}
            /\ v = Missing \/ (op \in {"lt", "lte"} /\ ~Comparable(v, expected))
      /\ x \in {"yes", "no", "raises"} /\ y \in {"yes", "no", "raises"}
  <2> HIDE DEF x, y
  <2> QED BY <1>1, <1>3, OppositesDiffer
<1>5. /\ EvaluateGroup("all", <<x, y>>) = IF x # "yes" THEN x ELSE y
      /\ EvaluateGroup("any", <<x, y>>) = IF x # "no" THEN x ELSE y
  <2> HIDE DEF x, y
  <2> QED BY PairsAreSettled
<1>6. EvaluateGroup("all", <<x, y>>) # "yes"
  <2> HIDE DEF x, y
  <2> QED BY <1>4, <1>5
<1>7. EvaluateGroup("any", <<x, y>>) = "no" => x = "no" /\ y = "no"
  <2> HIDE DEF x, y
  <2> QED BY <1>5
<1> QED BY <1>4, <1>6, <1>7

\* For whatever values, paths and contexts: of two edges with opposite
\* conditions never both are taken, and one is unless nothing was found, what
\* was found has no order with what is expected, or the evaluation raises
\* (workflow/conditions.py:71).
THEOREM BranchesAlwaysPartition == EdgesSpec => []BranchesPartition
<1>1. EdgesInit => EdgesInv
  BY DEF EdgesInit, EdgesInv
<1>2. EdgesInv /\ [EdgesNext]_edgeVars => EdgesInv'
  BY DEF EdgesInv, EdgesNext, Evaluate, Proceed, edgeVars
<1> QED BY <1>1, <1>2, EdgesPartition, PTL DEF EdgesSpec

-----------------------------------------------------------------------------
(* The supervisor: what it decides can be carried out.                       *)

\* There are finitely many words.
LEMMA WordsAreFinite == IsFiniteSet(Word)
<1> DEFINE f == [i \in 1 .. 11 |->
                    CASE i = 1 -> "search" [] i = 2 -> "sources" [] i = 3 -> "summary"
                      [] i = 4 -> "price" [] i = 5 -> "feature" [] i = 6 -> "chart"
                      [] i = 7 -> "table" [] i = 8 -> "quality" [] i = 9 -> "test"
                      [] i = 10 -> "report" [] i = 11 -> "compare"]
<1>1. f \in [1 .. 11 -> Word]
  BY DEF Word
<1>2. \A x \in Word : \E i \in 1 .. 11 : f[i] = x
  BY DEF Word
<1>3. f \in Surjection(1 .. 11, Word)
  <2> HIDE DEF f
  <2> QED BY <1>1, <1>2 DEF Surjection
<1>4. IsFiniteSet(1 .. 11)
  <2>1. 1 \in Int /\ 11 \in Int
    OBVIOUS
  <2> QED BY <2>1, FS_Interval
<1> QED BY <1>3, <1>4, FS_Surjection

\* There are finitely many agents.
LEMMA AgentsAreFinite == IsFiniteSet(Agent)
<1>1. 1 \in Int /\ 8 \in Int
  OBVIOUS
<1> QED BY <1>1, AgentsAreTyped, FS_Interval

\* An agent has a definition.
LEMMA AgentIsDefined == \A a \in Agent : ReferenceAgent[a] \in AgentDefinition
<1>1. ReferenceAgent \in Seq(AgentDefinition) /\ Agent = DOMAIN ReferenceAgent
  BY AgentsAreTyped DEF Agent
<1>2. Agent = 1 .. Len(ReferenceAgent)
  BY <1>1
<1> QED BY <1>1, <1>2

\* Scores are numbers (capability_score).
LEMMA ScoresAreNumbers ==
  ASSUME NEW a \in Agent, NEW text
  PROVE  Score(a, text) \in Nat
<1> DEFINE skills == ReferenceAgent[a].skills
           n == Len(skills)
           Matches1(i) == Cardinality(skills[i].words \cap text) * skills[i].proficiency
           Equation(f) == f = [i \in 0 .. n |-> IF i = 0 THEN 0 ELSE f[i - 1] + Matches1(i)]
           Total == CHOOSE f : Equation(f)
           N == Nat
           first == 0
           step == [i \in 1 .. n |-> [x \in N |-> x + Matches1(i)]]
<1>1. skills \in Seq(Skill) /\ n \in Nat
  <2>1. ReferenceAgent[a] \in AgentDefinition
    BY AgentIsDefined
  <2> QED BY <2>1 DEF AgentDefinition
<1>2. ASSUME NEW i \in 1 .. n PROVE Matches1(i) \in Nat
  <2>1. skills[i] \in Skill
    BY <1>1
  <2> HIDE DEF skills
  <2>2. skills[i].words \in SUBSET Word /\ skills[i].proficiency \in 0 .. 100
    BY <2>1 DEF Skill
  <2>3. IsFiniteSet(skills[i].words \cap text)
    BY <2>2, WordsAreFinite, FS_Subset
  <2>4. Cardinality(skills[i].words \cap text) \in Nat
    BY <2>3, FS_CardinalityType
  <2>5. \A x \in Nat, y \in 0 .. 100 : x * y \in Nat
    OBVIOUS
  <2> QED BY <2>2, <2>4, <2>5
<1> HIDE DEF Matches1, n, skills
<1>3. step \in [1 .. n -> [N -> N]]
  BY <1>2
<1>4. \A i \in 1 .. n, x \in N : step[i][x] = x + Matches1(i)
  OBVIOUS
<1>5. PICK f \in [0 .. n -> N] :
        f[0] = first /\ \A i \in 1 .. n : f[i] = step[i][f[i - 1]]
  <2>1. n \in Nat /\ first \in N
    BY <1>1
  <2> HIDE DEF step, Total, Equation, N, first
  <2> QED BY <1>3, <2>1, IterationExists
<1>6. Equation(f)
  <2>1. ASSUME NEW i \in 0 .. n PROVE f[i] = IF i = 0 THEN 0 ELSE f[i - 1] + Matches1(i)
    <3>1. CASE i = 0
      BY <3>1, <1>5
    <3>2. CASE i # 0
      <4>1. i \in 1 .. n /\ f[i - 1] \in Nat
        BY <3>2, <1>1
      <4> HIDE DEF step
      <4> QED BY <3>2, <4>1, <1>4, <1>5
    <3> QED BY <3>1, <3>2
  <2>2. f = [i \in 0 .. n |-> f[i]]
    OBVIOUS
  <2> QED BY <2>1, <2>2
<1>7. Equation(Total)
  <2> HIDE DEF Equation
  <2> QED BY <1>6
<1>8. Total[0] = 0 /\ \A i \in 1 .. n : Total[i] = Total[i - 1] + Matches1(i)
  <2>1. \A i \in 0 .. n : Total[i] = IF i = 0 THEN 0 ELSE Total[i - 1] + Matches1(i)
    <3> HIDE DEF Total
    <3> QED BY <1>7
  <2>2. 0 \in 0 .. n /\ \A i \in 1 .. n : i \in 0 .. n /\ i # 0
    BY <1>1
  <2> HIDE DEF Total
  <2> QED BY <2>1, <2>2
<1>9. \A i \in 0 .. n : Total[i] \in N
  <2>1. n \in Nat /\ first \in N
    BY <1>1
  <2>2. \A i \in 1 .. n : Total[i - 1] \in N => Total[i] = step[i][Total[i - 1]]
    <3> HIDE DEF Total, step
    <3> QED BY <1>4, <1>8
  <2>3. Total[0] = first
    BY <1>8
  <2> HIDE DEF Total, step, Equation, N, first
  <2> QED BY <1>3, <2>1, <2>2, <2>3, IterationStays
<1>10. Total[n] \in Nat
  <2> HIDE DEF Total
  <2> QED BY <1>1, <1>9
<1> QED BY <1>10 DEF Score, Matches1, n, skills

\* There is a strongest candidate (candidates_for).
LEMMA StrongestExists ==
  ASSUME NEW S, S \subseteq Agent, S # {}, NEW text
  PROVE  \E a \in S : \A b \in S : ~RanksAbove(b, a, text)
<1> DEFINE Before == {x \in Agent \X Agent : RanksAbove(x[1], x[2], text)}
<1>1. \A a \in Agent : Score(a, text) \in Nat /\ a \in Nat
  BY ScoresAreNumbers, AgentsAreTyped
<1>2. \A a, b \in Agent : <<a, b>> \in Before <=> RanksAbove(a, b, text)
  OBVIOUS
<1>3. /\ \A a \in S : <<a, a>> \notin Before
      /\ \A a, b, c \in S : <<a, b>> \in Before /\ <<b, c>> \in Before => <<a, c>> \in Before
  <2> HIDE DEF Before
  <2>1. \A a \in S : ~RanksAbove(a, a, text)
    BY <1>1 DEF RanksAbove
  <2>2. \A a, b, c \in S :
           RanksAbove(a, b, text) /\ RanksAbove(b, c, text) => RanksAbove(a, c, text)
    BY <1>1 DEF RanksAbove
  <2> QED BY <1>2, <2>1, <2>2
<1>4. IsFiniteSet(S)
  BY AgentsAreFinite, FS_Subset
<1>5. \E a \in S : \A b \in S : <<b, a>> \notin Before
  <2> HIDE DEF Before
  <2> QED BY <1>3, <1>4, MinimalExists
<1> HIDE DEF Before
<1> QED BY <1>2, <1>5

\* There are finitely many targets.
LEMMA TargetsAreFinite == IsFiniteSet(Target)
<1> DEFINE P == Agent \X (Agent \cup {0})
           f == [x \in P |-> [agent |-> x[1], key |-> x[2]]]
<1>1. IsFiniteSet(Agent)
  BY AgentsAreFinite
<1>2. IsFiniteSet(Agent \cup {0})
  BY <1>1, FS_AddElement
<1>3. IsFiniteSet(P)
  BY <1>1, <1>2, FS_Product
<1>4. f \in Surjection(P, Target)
  <2>1. f \in [P -> Target]
    BY DEF Target
  <2>2. ASSUME NEW t \in Target PROVE \E x \in P : f[x] = t
    <3>1. <<t.agent, t.key>> \in P /\ f[<<t.agent, t.key>>] = t
      BY DEF Target
    <3> QED BY <3>1
  <2> HIDE DEF f, P
  <2> QED BY <2>1, <2>2 DEF Surjection
<1> HIDE DEF f, P
<1> QED BY <1>3, <1>4, FS_Surjection

\* What finitely many things are mapped to is finite.
LEMMA ImageIsFinite ==
  ASSUME NEW S, IsFiniteSet(S), NEW f, DOMAIN f = S
  PROVE  IsFiniteSet({f[x] : x \in S})
<1> DEFINE T == {f[x] : x \in S}
           g == [x \in S |-> f[x]]
<1>1. g \in Surjection(S, T)
  BY DEF Surjection
<1> QED BY <1>1, FS_Surjection

\* Lists of members of finite sets are sequences, one behind another too.
LEMMA ListsAreSequences ==
  ASSUME NEW S, NEW T, IsFiniteSet(S), IsFiniteSet(T), NEW U, NEW list \in Seq(U)
  PROVE  \E V : list \o (Sorted(S) \o Sorted(T)) \in Seq(V)
<1> DEFINE s == Sorted(S)
           t == Sorted(T)
           A == {s[i] : i \in 1 .. Cardinality(S)}
           B == {t[i] : i \in 1 .. Cardinality(T)}
<1>1. Cardinality(S) \in Nat /\ Cardinality(T) \in Nat
  BY FS_CardinalityType
<1>2. s \in [1 .. Cardinality(S) -> A] /\ t \in [1 .. Cardinality(T) -> B]
  BY DEF Sorted
<1> HIDE DEF s, t, A, B
<1>3. s \in Seq(A) /\ t \in Seq(B)
  BY <1>1, <1>2
<1>4. s \in Seq(A \cup B \cup U) /\ t \in Seq(A \cup B \cup U) /\ list \in Seq(A \cup B \cup U)
  BY <1>3
<1>5. list \o (s \o t) \in Seq(A \cup B \cup U)
  BY <1>4
<1>6. \E V : list \o (s \o t) \in Seq(V)
  BY <1>5
<1> QED BY <1>6 DEF s, t

\* The nodes are finitely many, and so are the targets of a decision.
TurnsInv ==
    /\ IsFiniteSet(DOMAIN node)
    /\ \E S : seen \in Seq(S)
    /\ decision.targets \subseteq Target

\* The candidates of the fallback are enabled, and targets can be made of them.
LEMMA CandidatesAreTargets ==
  ASSUME NEW chosen, chosen \subseteq CandidatesFor(RoutingText, 2 * MaxParallel)
  PROVE  LET targets == {[agent |-> a, key |-> a] : a \in chosen}
         IN  /\ targets \subseteq Target
             /\ chosen # {} => targets # {}
             /\ \A t \in targets : registry[t.agent] = "enabled"
             /\ \A t, u \in targets : t.agent = u.agent => t = u
<1>1. \A a \in chosen : a \in Agent /\ registry[a] = "enabled"
  BY DEF CandidatesFor, Enabled
<1> DEFINE targets == {[agent |-> a, key |-> a] : a \in chosen}
<1>2. targets \subseteq Target
  BY <1>1 DEF Target
<1>3. \A a \in chosen : [agent |-> a, key |-> a] \in targets
  OBVIOUS
<1>4. \A t \in targets : registry[t.agent] = "enabled"
  BY <1>1
<1>5. \A t, u \in targets : t.agent = u.agent => t = u
  OBVIOUS
<1>6. chosen # {} => targets # {}
  BY <1>3
<1> QED BY <1>2, <1>4, <1>5, <1>6

\* The fallback decides what can be carried out, unchecked as it is
\* (HeuristicRouter.decide).
LEMMA HeuristicIsSound ==
  ASSUME TurnsInv
  PROVE  /\ Heuristic.targets \subseteq Target
         /\ Heuristic.action \in {"delegate", "parallel_delegate"} =>
               /\ Heuristic.targets # {}
               /\ \A t \in Heuristic.targets : registry[t.agent] = "enabled"
               /\ \A t, u \in Heuristic.targets : t.agent = u.agent => t = u
         /\ Heuristic.action = "retry" =>
               /\ Heuristic.node \in Range(seen)
               /\ node[Heuristic.node].status # "succeeded"
               /\ ~node[Heuristic.node].barred
<1> DEFINE candidates == CandidatesFor(RoutingText, 2 * MaxParallel) \ AlreadyUsed
           parallel == ComplementaryCandidates(candidates, RoutingText)
           strongest == CHOOSE a \in candidates :
                           \A b \in candidates : ~RanksAbove(b, a, RoutingText)
           chosen == IF Cardinality(parallel) >= 2 THEN parallel ELSE {strongest}
           targets == {[agent |-> a, key |-> a] : a \in chosen}
<1>1. CASE Retryable # {}
  <2>1. Heuristic = Retrial(seen[Min(Retryable)])
    BY <1>1 DEF Heuristic
  <2>2. Retryable \subseteq DOMAIN seen /\ DOMAIN seen \subseteq Nat
    BY DEF TurnsInv, Retryable
  <2>3. Min(Retryable) \in Retryable
    BY <1>1, <2>2, LeastExists
  <2> DEFINE n == seen[Min(Retryable)]
  <2>4. n \in Range(seen) /\ node[n].status = "failed" /\ ~node[n].barred
    BY <2>3 DEF Retryable, Range
  <2> HIDE DEF n
  <2>5. Heuristic.action = "retry" /\ Heuristic.targets = {} /\ Heuristic.node = n
    BY <2>1 DEF Retrial, Says, n
  <2> QED BY <2>4, <2>5
<1>2. CASE Retryable = {} /\ candidates # {}
  <2>1. Heuristic = Delegation(targets)
    BY <1>2 DEF Heuristic
  <2>2. strongest \in candidates
    <3>1. candidates \subseteq Agent
      BY DEF CandidatesFor, Enabled
    <3> HIDE DEF candidates
    <3>2. \E a \in candidates : \A b \in candidates : ~RanksAbove(b, a, RoutingText)
      BY <1>2, <3>1, StrongestExists
    <3> QED BY <3>2
  <2>3. parallel \subseteq candidates
    BY DEF ComplementaryCandidates
  <2>4. Cardinality(parallel) >= 2 => parallel # {}
    <3> HIDE DEF parallel
    <3>1. parallel = {} => Cardinality(parallel) = 0
      BY FS_EmptySet
    <3> QED BY <3>1
  <2>5. chosen \subseteq candidates /\ chosen # {}
    <3> HIDE DEF candidates, parallel, strongest
    <3> QED BY <2>2, <2>3, <2>4
  <2>6. chosen \subseteq CandidatesFor(RoutingText, 2 * MaxParallel)
    <3> HIDE DEF chosen
    <3> QED BY <2>5
  <2>7. /\ targets \subseteq Target /\ targets # {}
        /\ \A t \in targets : registry[t.agent] = "enabled"
        /\ \A t, u \in targets : t.agent = u.agent => t = u
    <3> HIDE DEF chosen
    <3> QED BY <2>5, <2>6, CandidatesAreTargets
  <2> HIDE DEF targets
  <2>8. Heuristic.targets = targets /\ Heuristic.action \in {"delegate", "parallel_delegate"}
    BY <2>1 DEF Delegation, Says
  <2> QED BY <2>7, <2>8
<1>3. CASE Retryable = {} /\ candidates = {}
  <2>1. Heuristic = Says(IF Succeeded # {} THEN "finalize" ELSE "fail")
    BY <1>3 DEF Heuristic
  <2>2. Heuristic.targets = {} /\ Heuristic.action \in {"finalize", "fail"}
    BY <2>1 DEF Says
  <2> QED BY <2>2
<1> QED BY <1>1, <1>2, <1>3

\* Every step leaves finitely many nodes, and the entries in a sequence.
LEMMA TurnsPreserve ==
  ASSUME TurnsInv, [TurnsNext]_turnVars
  PROVE  TurnsInv'
<1>1. CASE Decide
  <2>1. CASE FallBack
    BY <2>1, HeuristicIsSound DEF FallBack, TurnsInv, graph
  <2>2. ASSUME NEW d \in Reply, FollowModel(d) PROVE TurnsInv'
    <3>1. d.targets \subseteq Target
      BY SupervisionAssumption DEF Decision
    <3> QED BY <2>2, <3>1 DEF FollowModel, TurnsInv, graph
  <2> QED BY <1>1, <2>1, <2>2 DEF Decide
<1>2. CASE Delegate
  <2> DEFINE targets == decision.targets
             f == [t \in targets |-> NextNode(t.agent)]
             new == {NextNode(t.agent) : t \in targets}
  <2>1. IsFiniteSet(targets)
    BY TargetsAreFinite, FS_Subset DEF TurnsInv
  <2>2. new = {f[t] : t \in targets} /\ DOMAIN f = targets
    OBVIOUS
  <2>3. IsFiniteSet(new)
    <3> HIDE DEF f, new, targets
    <3> QED BY <2>1, <2>2, ImageIsFinite
  <2>4. DOMAIN node' = DOMAIN node \cup new
    BY <1>2 DEF Delegate
  <2>5. IsFiniteSet(DOMAIN node')
    <3> HIDE DEF new
    <3> QED BY <2>3, <2>4, FS_Union DEF TurnsInv
  <2> QED BY <1>2, <2>5 DEF Delegate, TurnsInv
<1>3. CASE Reopen
  BY <1>3 DEF Reopen, TurnsInv
<1>4. CASE RunWave
  <2>1. DOMAIN node' = DOMAIN node /\ decision' = decision
    BY <1>4 DEF RunWave
  <2>2. PICK status : seen' = seen \o (Sorted(Ready \ Range(seen))
                                \o Sorted(Skipped(status) \ (Range(seen) \cup Ready)))
    BY <1>4 DEF RunWave
  <2>3. Ready \subseteq DOMAIN node
    BY DEF Ready, ReadyNodes, w
  <2>4. Skipped(status) \subseteq DOMAIN node
    BY DEF Skipped
  <2>5. /\ IsFiniteSet(Ready \ Range(seen))
        /\ IsFiniteSet(Skipped(status) \ (Range(seen) \cup Ready))
    BY <2>3, <2>4, FS_Subset DEF TurnsInv
  <2>6. PICK U : seen \in Seq(U)
    BY DEF TurnsInv
  <2>7. \E V : seen' \in Seq(V)
    BY <2>2, <2>5, <2>6, ListsAreSequences
  <2> QED BY <2>1, <2>7 DEF TurnsInv
<1>5. CASE \/ RunOutOfTurns \/ Conclude \/ Drain \/ UNCHANGED turnVars
           \/ \E a \in Edited, enabled \in BOOLEAN : CreateAgent(a, enabled)
  BY <1>5 DEF RunOutOfTurns, Conclude, Drain, CreateAgent, turnVars, graph, TurnsInv
<1> QED BY <1>1, <1>2, <1>3, <1>4, <1>5 DEF TurnsNext

\* Whatever tasks, replies and definitions of agents there are: what the
\* supervisor adopts can be carried out, also what nothing validates
\* (supervisor/supervisor.py:373).
THEOREM DecisionsAreSound == TurnsSpec => DecisionsCanBeCarriedOut
<1> DEFINE CarriedOut ==
       pc = "turn" /\ pc' = "apply" =>
          /\ decision'.action \in {"delegate", "parallel_delegate"} =>
                /\ decision'.targets # {}
                /\ \A t \in decision'.targets : registry[t.agent] = "enabled"
                /\ \A t, u \in decision'.targets : t.agent = u.agent => t = u
          /\ decision'.action = "retry" =>
                /\ decision'.node \in Range(seen)
                /\ node[decision'.node].status # "succeeded"
                /\ ~node[decision'.node].barred
<1>1. TurnsInit => TurnsInv
  <2>1. IsFiniteSet({Final})
    BY FS_Singleton
  <2>2. <<>> \in Seq({})
    OBVIOUS
  <2> QED BY <2>1, <2>2 DEF TurnsInit, TurnsInv, Says
<1>2. TurnsInv /\ [TurnsNext]_turnVars => TurnsInv'
  BY TurnsPreserve
<1>3. ASSUME TurnsInv, [TurnsNext]_turnVars, pc = "turn", pc' = "apply" PROVE CarriedOut
  <2>1. FallBack \/ \E d \in Reply : FollowModel(d)
    BY <1>3 DEF TurnsNext, Decide, RunOutOfTurns, Delegate, Reopen, Conclude, RunWave, Drain,
                CreateAgent, turnVars
  <2>2. CASE FallBack
    BY <2>2, <1>3, HeuristicIsSound DEF FallBack
  <2>3. ASSUME NEW d \in Reply, FollowModel(d) PROVE CarriedOut
    <3>1. decision' = d /\ IsValid(d)
      BY <2>3 DEF FollowModel
    <3>2. d.action \in {"delegate", "parallel_delegate"} => d.targets # {}
      <4>1. /\ d.action = "delegate" => Cardinality(d.targets) = 1
            /\ d.action = "parallel_delegate" => Cardinality(d.targets) >= 2
        BY SupervisionAssumption DEF Decision
      <4>2. d.targets = {} => Cardinality(d.targets) = 0
        BY FS_EmptySet
      <4> QED BY <4>1, <4>2
    <3> QED BY <3>1, <3>2 DEF IsValid, CanRetry
  <2> QED BY <2>1, <2>2, <2>3
<1>4. TurnsInv /\ [TurnsNext]_turnVars => [CarriedOut]_turnVars
  BY <1>3
<1> QED BY <1>1, <1>2, <1>4, PTL DEF TurnsSpec, DecisionsCanBeCarriedOut

-----------------------------------------------------------------------------
(* The supervisor: every turn is paid for.                                   *)

\* How far the numbers of nodes have come.
Opened == IF pc = "apply" THEN turn - 1 ELSE turn

\* Edges lead from nodes of agents, and to these never in a circle.
TurnsTyped ==
    /\ pc \in {"turn", "apply", "round", "done"}
    /\ Final \in DOMAIN node
    /\ node \in [DOMAIN node -> NodeRecord]
    /\ \A n \in DOMAIN node : node[n].status \in {"pending", "succeeded", "failed", "skipped"}
    /\ node[Final].status # "failed"
    /\ \A n \in AgentNodes : \E a \in Agent, k \in 1 .. Opened : n = NodeOf(a, k)
    /\ turn \in 0 .. MaxTurns /\ (pc = "apply" => turn # 0)
    /\ replies \in Nat /\ failures \in Nat

RoundsInv ==
    /\ \A e \in edges : e.src \in AgentNodes /\ e.dst \in DOMAIN node /\ e.cond = FALSE
    /\ \A S \in SUBSET AgentNodes : S # {} =>
          \E n \in S : \A e \in edges : e.dst = n => e.src \notin S

\* What failed has an entry, and entries are of nodes.
EntriesInv == Failed \subseteq Range(seen) /\ Range(seen) \subseteq DOMAIN node

\* What is about to be retried did not succeed, and its error allows it.
RetryInv ==
    pc = "apply" /\ decision.action = "retry" /\ decision.node \in DOMAIN node =>
        node[decision.node].status # "succeeded" /\ ~node[decision.node].barred

\* A round goes on until a node fails or all are settled.
SettledInv ==
    pc = "turn" /\ Failed = {} => \A n \in AgentNodes : node[n].status # "pending"

Paid == replies + 2 * failures + Cardinality(Served) - Cardinality(Failed)

\* A node whose success pays for a turn.
Promising(n) ==
    node[n].agent \in Agent /\ node[n].key = node[n].agent /\ node[n].key \notin Served

\* What the fallback decides: the conclusion, a retry of a node that is failed, or
\* a delegation, when nothing is in its way, to agents that have not succeeded.
Worthwhile ==
    \/ /\ decision.targets = {}
       /\ decision.action = "retry" /\ decision.node \in Failed
    \/ decision.targets = {} /\ decision.action \in {"finalize", "fail"}
    \/ /\ decision.targets # {} /\ decision.action \in {"delegate", "parallel_delegate"}
       /\ \A n \in AgentNodes : node[n].status \in {"succeeded", "skipped"}
       /\ \A t \in decision.targets :
            t.agent \in Agent /\ t.key = t.agent /\ t.key \notin Served

\* Every turn is paid for before the next begins; the one that is on may be paid
\* for by what it is about to do.
LedgerInv ==
    (\A n \in Failed : ~node[n].barred) =>
        /\ pc = "turn" => turn <= Paid
        /\ pc = "apply" => turn <= Paid \/ (turn <= Paid + 1 /\ Worthwhile)
        /\ pc = "round" =>
              \/ turn <= Paid
              \/ turn <= Paid + 1 /\ \E n \in Ready \ {Final} : Promising(n)
        /\ pc = "done" => turn <= Paid + 1

\* Numbers of agents and of their nodes can be told from the id, which is not the
\* end's.
LEMMA IdsAreApart ==
  /\ \A a, b \in Agent : \A j, k \in 1 .. 9 : NodeOf(a, j) = NodeOf(b, k) => a = b /\ j = k
  /\ \A a \in Agent, k \in 1 .. 9 : NodeOf(a, k) \in Nat /\ NodeOf(a, k) # Final
BY AgentsAreTyped DEF NodeOf, Final

\* A new node gets a number that is free, and the numbers do not run ahead of the
\* turns (_unique_node_id).
LEMMA NextIsFree ==
  ASSUME TurnsTyped, pc = "apply", NEW a \in Agent
  PROVE  /\ NextNode(a) \notin DOMAIN node
         /\ \E k \in 1 .. turn : NextNode(a) = NodeOf(a, k)
<1> DEFINE Free(k) == /\ NodeOf(a, k) \notin DOMAIN node
                      /\ \A j \in 1 .. k - 1 : NodeOf(a, j) \in DOMAIN node
           K == {k \in 1 .. MaxTurns : NodeOf(a, k) \notin DOMAIN node}
<1>1. MaxTurns \in 1 .. 9 /\ turn \in 1 .. MaxTurns /\ Opened = turn - 1
  BY SupervisionAssumption DEF TurnsTyped, Opened
<1>2. turn \in K
  <2>1. SUFFICES ASSUME NodeOf(a, turn) \in DOMAIN node PROVE FALSE
    BY <1>1
  <2>2. NodeOf(a, turn) \in AgentNodes
    BY <1>1, <2>1, IdsAreApart DEF AgentNodes
  <2>3. PICK b \in Agent, k \in 1 .. Opened : NodeOf(a, turn) = NodeOf(b, k)
    BY <2>2 DEF TurnsTyped
  <2> QED BY <1>1, <2>3, IdsAreApart
<1>3. K \subseteq Nat
  BY <1>1
<1>4. Min(K) \in K /\ \A k \in K : Min(K) <= k
  <2> HIDE DEF K
  <2> QED BY <1>2, <1>3, LeastExists
<1>5. Min(K) \in 1 .. MaxTurns /\ Free(Min(K)) /\ Min(K) <= turn
  <2>1. Min(K) \in 1 .. MaxTurns /\ NodeOf(a, Min(K)) \notin DOMAIN node /\ Min(K) <= turn
    BY <1>2, <1>4
  <2>2. ASSUME NEW j \in 1 .. Min(K) - 1, NodeOf(a, j) \notin DOMAIN node PROVE FALSE
    <3>1. j \in K
      BY <1>1, <2>1, <2>2
    <3> HIDE DEF K
    <3> QED BY <1>1, <2>1, <2>2, <3>1, <1>4
  <2> QED BY <2>1, <2>2
<1>6. \A k \in 1 .. MaxTurns : Free(k) => k <= turn
  BY <1>1, <1>2
<1>7. \E k \in 1 .. MaxTurns : Free(k)
  BY <1>5
<1> DEFINE c == CHOOSE k \in 1 .. MaxTurns : Free(k)
<1>8. c \in 1 .. MaxTurns /\ Free(c)
  <2> HIDE DEF Free
  <2> QED BY <1>7
<1>9. NextNode(a) = NodeOf(a, c)
  BY DEF NextNode
<1> HIDE DEF c
<1>10. c \in 1 .. turn
  BY <1>1, <1>6, <1>8
<1> QED BY <1>8, <1>9, <1>10

\* A sorted list lists the members of the set.
LEMMA SortedLists ==
  ASSUME NEW S, S \subseteq Nat, IsFiniteSet(S)
  PROVE  /\ Sorted(S) = [i \in 1 .. Cardinality(S) |-> Sorted(S)[i]]
         /\ DOMAIN Sorted(S) = 1 .. Cardinality(S)
         /\ \A x : (\E i \in 1 .. Cardinality(S) : Sorted(S)[i] = x) <=> x \in S
<1> DEFINE n == Cardinality(S)
           Below(x) == {y \in S : y < x}
           c == [x \in S |-> Cardinality(Below(x)) + 1]
<1>1. n \in Nat
  BY FS_CardinalityType
<1>2. ASSUME NEW x \in S
      PROVE  Cardinality(Below(x)) \in Nat /\ Cardinality(Below(x)) < n
  <2>1. Below(x) \in SUBSET S /\ x \notin Below(x)
    BY <1>2
  <2> HIDE DEF Below
  <2>2. /\ IsFiniteSet(Below(x)) /\ Cardinality(Below(x)) <= n
        /\ n = Cardinality(Below(x)) => S = Below(x)
    BY <2>1, FS_Subset
  <2>3. Cardinality(Below(x)) \in Nat
    BY <2>2, FS_CardinalityType
  <2>4. n # Cardinality(Below(x))
    BY <2>1, <2>2
  <2> HIDE DEF n
  <2> QED BY <1>1, <2>2, <2>3, <2>4
<1>3. ASSUME NEW x \in S, NEW y \in S, x < y
      PROVE  Cardinality(Below(x)) < Cardinality(Below(y))
  <2>0. x \in Nat /\ y \in Nat /\ \A z \in Nat : z < x => z < y
    BY <1>3
  <2>1. Below(x) \in SUBSET Below(y) /\ x \in Below(y) /\ x \notin Below(x)
    <3>1. \A z \in Below(x) : z \in Below(y)
      BY <1>3, <2>0
    <3>2. x \in Below(y) /\ x \notin Below(x)
      BY <1>3, <2>0
    <3> HIDE DEF Below
    <3> QED BY <3>1, <3>2
  <2>2. Below(y) \in SUBSET S
    OBVIOUS
  <2> HIDE DEF Below
  <2>3. IsFiniteSet(Below(y))
    BY <2>2, FS_Subset
  <2>4. /\ Cardinality(Below(x)) <= Cardinality(Below(y))
        /\ Cardinality(Below(y)) = Cardinality(Below(x)) => Below(y) = Below(x)
    BY <2>1, <2>3, FS_Subset
  <2>5. Cardinality(Below(x)) # Cardinality(Below(y))
    BY <2>1, <2>4
  <2> QED BY <2>4, <2>5, <1>2
<1> HIDE DEF Below
<1>4. c \in Injection(S, 1 .. n)
  <2>1. c \in [S -> 1 .. n]
    <3>1. \A x \in S : Cardinality(Below(x)) + 1 \in 1 .. n
      <4> HIDE DEF n
      <4> QED BY <1>1, <1>2
    <3> HIDE DEF n
    <3> QED BY <3>1
  <2>2. ASSUME NEW x \in S, NEW y \in S, c[x] = c[y] PROVE x = y
    <3>1. Cardinality(Below(x)) = Cardinality(Below(y))
      BY <2>2, <1>2
    <3>2. ~(x < y) /\ ~(y < x)
      BY <3>1, <1>2, <1>3
    <3> QED BY <3>2
  <2> HIDE DEF c, n
  <2> QED BY <2>1, <2>2 DEF Injection, IsInjective
<1>5. c \in Surjection(S, 1 .. n)
  <2>1. IsFiniteSet(1 .. n) /\ Cardinality(1 .. n) = n
    BY <1>1, FS_Interval
  <2> HIDE DEF c
  <2> QED BY <1>4, <2>1, FS_Injection
<1>6. Sorted(S) = [i \in 1 .. n |-> CHOOSE x \in S : Cardinality(Below(x)) = i - 1]
  BY DEF Sorted, Below
<1>7. ASSUME NEW i \in 1 .. n PROVE Sorted(S)[i] \in S
  <2>1. PICK x \in S : c[x] = i
    <3> HIDE DEF c
    <3> QED BY <1>5 DEF Surjection
  <2>2. Cardinality(Below(x)) = i - 1
    BY <1>1, <1>2, <2>1
  <2> QED BY <1>6, <2>2
<1>8. ASSUME NEW x \in S PROVE \E i \in 1 .. n : Sorted(S)[i] = x
  <2> DEFINE i == Cardinality(Below(x)) + 1
             z == CHOOSE y \in S : Cardinality(Below(y)) = i - 1
  <2>1. i \in 1 .. n /\ Cardinality(Below(x)) = i - 1
    BY <1>1, <1>2
  <2>2. z \in S /\ Cardinality(Below(z)) = i - 1
    <3> HIDE DEF i
    <3> QED BY <2>1
  <2>3. Sorted(S)[i] = z
    <3> HIDE DEF i
    <3> QED BY <1>6, <2>1
  <2>4. z = x
    <3> HIDE DEF z, i
    <3>1. ~(x < z) /\ ~(z < x)
      BY <2>1, <2>2, <1>2, <1>3
    <3> QED BY <3>1, <2>2
  <2> HIDE DEF z
  <2> QED BY <2>1, <2>3, <2>4
<1>9. DOMAIN Sorted(S) = 1 .. n /\ Sorted(S) = [i \in 1 .. n |-> Sorted(S)[i]]
  <2> DEFINE Entry(i) == CHOOSE x \in S : Cardinality(Below(x)) = i - 1
  <2>1. Sorted(S) = [i \in 1 .. n |-> Entry(i)]
    BY <1>6
  <2> HIDE DEF Entry, n
  <2> QED BY <2>1
<1> QED BY <1>7, <1>8, <1>9

\* Where no edge has a condition, a node that is no join is ready when all the
\* sources of its edges are complete (_ready_nodes).
LEMMA ReadyNodesAre ==
  ASSUME NEW v, NEW st, \A e \in v.edges : e.cond = FALSE,
         NEW n \in v.nodes, v.kind[n] # "join"
  PROVE  n \in ReadyNodes(v, st, v.edges) <=>
            /\ st[n] \in RunnableNodeStatus
            /\ \A e \in v.edges : e.dst = n => st[e.src] \in CompleteNodeStatus
<1> DEFINE active == ActiveEdges(v, st, v.edges)
<1>1. \A e : e \in active <=> e \in v.edges /\ st[e.src] \in CompleteNodeStatus
  BY DEF ActiveEdges
<1>2. \A e : e \in Inbound(v, n) <=> e \in v.edges /\ e.dst = n
  BY DEF Inbound
<1> HIDE DEF active
<1>3. RelevantEdges(v, n, active) = Inbound(v, n)
  BY <1>2 DEF RelevantEdges
<1>4. DependenciesSatisfied(v, n, st, active)
         <=> \A e \in Inbound(v, n) : st[e.src] \in CompleteNodeStatus
  BY <1>3 DEF DependenciesSatisfied
<1>5. (\A e \in Inbound(v, n) : st[e.src] \in CompleteNodeStatus)
         => ~IsUnreachable(v, n, st, active)
  BY <1>1, <1>2 DEF IsUnreachable
<1>6. n \in ReadyNodes(v, st, v.edges)
         <=> /\ st[n] \in RunnableNodeStatus
             /\ DependenciesSatisfied(v, n, st, active)
             /\ ~IsUnreachable(v, n, st, active)
  BY DEF ReadyNodes, active
<1> QED BY <1>2, <1>4, <1>5, <1>6

\* What is ready: pending nodes without a source that is not complete.
LEMMA ReadyIs ==
  ASSUME TurnsTyped, RoundsInv, NEW n \in DOMAIN node
  PROVE  n \in Ready <=>
            /\ node[n].status = "pending"
            /\ \A e \in edges : e.dst = n => node[e.src].status \in {"succeeded", "skipped"}
<1> DEFINE st == [m \in DOMAIN node |-> node[m].status]
<1>1. w.edges = edges /\ w.nodes = DOMAIN node /\ w.kind[n] # "join"
  BY DEF w
<1>2. n \in Ready <=> /\ st[n] \in RunnableNodeStatus
                      /\ \A e \in edges : e.dst = n => st[e.src] \in CompleteNodeStatus
  <2>1. Ready = ReadyNodes(w, st, w.edges)
    BY <1>1 DEF Ready
  <2>2. \A e \in w.edges : e.cond = FALSE
    BY <1>1 DEF RoundsInv
  <2> HIDE DEF st
  <2> QED BY <1>1, <2>1, <2>2, ReadyNodesAre
<1>3. \A e \in edges : e.src \in DOMAIN node
  BY DEF RoundsInv, AgentNodes
<1> QED BY <1>2, <1>3 DEF TurnsTyped, RunnableNodeStatus, CompleteNodeStatus

\* The same of the state after a step.
LEMMA ReadyIsThen ==
  ASSUME TurnsTyped', RoundsInv', NEW n \in DOMAIN node'
  PROVE  n \in Ready' <=>
            /\ node'[n].status = "pending"
            /\ \A e \in edges' : e.dst = n => node'[e.src].status \in {"succeeded", "skipped"}
<1> DEFINE st == [m \in DOMAIN node' |-> node'[m].status]
<1>1. w'.edges = edges' /\ w'.nodes = DOMAIN node' /\ w'.kind[n] # "join"
  BY DEF w
<1>2. n \in Ready' <=> /\ st[n] \in RunnableNodeStatus
                       /\ \A e \in edges' : e.dst = n => st[e.src] \in CompleteNodeStatus
  <2>1. Ready' = ReadyNodes(w', st, w'.edges)
    BY <1>1 DEF Ready
  <2>2. \A e \in w'.edges : e.cond = FALSE
    BY <1>1 DEF RoundsInv
  <2> HIDE DEF st
  <2> QED BY <1>1, <2>1, <2>2, ReadyNodesAre
<1>3. \A e \in edges' : e.src \in DOMAIN node'
  BY DEF RoundsInv, AgentNodes
<1> QED BY <1>2, <1>3 DEF TurnsTyped, RunnableNodeStatus, CompleteNodeStatus

\* Only nodes are ready.
LEMMA ReadyAreNodes == Ready \subseteq DOMAIN node
BY DEF Ready, ReadyNodes, w

\* A round that is drained has settled the nodes of agents, unless one failed.
LEMMA DrainedIsSettled ==
  ASSUME TurnsTyped, RoundsInv, Ready = {}, Failed = {}
  PROVE  \A n \in AgentNodes : node[n].status # "pending"
<1> DEFINE P == {n \in AgentNodes : node[n].status = "pending"}
<1>1. SUFFICES ASSUME P # {} PROVE FALSE
  OBVIOUS
<1>2. PICK n \in P : \A e \in edges : e.dst = n => e.src \notin P
  BY <1>1 DEF RoundsInv
<1>3. n \in DOMAIN node /\ node[n].status = "pending"
  BY DEF AgentNodes
<1>4. ASSUME NEW e \in edges, e.dst = n
      PROVE  node[e.src].status \in {"succeeded", "skipped"}
  <2>1. e.src \in AgentNodes /\ e.src \in DOMAIN node
    BY DEF RoundsInv, AgentNodes
  <2>2. node[e.src].status # "pending" /\ node[e.src].status # "failed"
    BY <1>2, <1>4, <2>1 DEF Failed
  <2> QED BY <2>1, <2>2 DEF TurnsTyped
<1>5. n \in Ready
  <2> HIDE DEF P
  <2> QED BY <1>3, <1>4, ReadyIs
<1> QED BY <1>5

\* The ids are numbers.
LEMMA IdsAreNumbers ==
  ASSUME TurnsTyped
  PROVE  DOMAIN node \subseteq Nat
<1>1. Opened \in Int /\ Opened <= 9
  BY SupervisionAssumption DEF TurnsTyped, Opened
<1>2. ASSUME NEW n \in AgentNodes PROVE n \in Nat
  <2>1. PICK a \in Agent, k \in 1 .. Opened : n = NodeOf(a, k)
    BY DEF TurnsTyped
  <2>2. k \in 1 .. 9
    BY <1>1
  <2> QED BY <2>1, <2>2, IdsAreApart
<1>3. Final \in Nat
  BY DEF Final
<1> QED BY <1>2, <1>3 DEF AgentNodes

\* What is recorded behind a list joins its members.
LEMMA RecordedJoin ==
  ASSUME NEW U, NEW list \in Seq(U), NEW S, NEW T,
         S \subseteq Nat, T \subseteq Nat, IsFiniteSet(S), IsFiniteSet(T)
  PROVE  Range(list \o (Sorted(S) \o Sorted(T))) = Range(list) \cup S \cup T
<1> DEFINE s == Sorted(S)
           t == Sorted(T)
           all == list \o (s \o t)
<1>1. Cardinality(S) \in Nat /\ Cardinality(T) \in Nat
  BY FS_CardinalityType
<1>2. /\ DOMAIN s = 1 .. Cardinality(S)
      /\ \A x : (\E i \in 1 .. Cardinality(S) : s[i] = x) <=> x \in S
  BY SortedLists
<1>3. /\ DOMAIN t = 1 .. Cardinality(T)
      /\ \A x : (\E i \in 1 .. Cardinality(T) : t[i] = x) <=> x \in T
  BY SortedLists
<1>4. s = [i \in 1 .. Cardinality(S) |-> s[i]] /\ t = [i \in 1 .. Cardinality(T) |-> t[i]]
  BY SortedLists
<1> HIDE DEF s, t
<1>5. s \in Seq(S) /\ t \in Seq(T) /\ Len(s) = Cardinality(S) /\ Len(t) = Cardinality(T)
  <2>1. s \in [1 .. Cardinality(S) -> S] /\ t \in [1 .. Cardinality(T) -> T]
    BY <1>2, <1>3, <1>4
  <2> QED BY <1>1, <2>1
<1> DEFINE V == U \cup S \cup T
<1>6. list \in Seq(V) /\ s \in Seq(V) /\ t \in Seq(V)
  BY <1>5
<1>7. /\ all \in Seq(V) /\ Len(all) = Len(list) + (Len(s) + Len(t))
      /\ \A i \in 1 .. Len(list) : all[i] = list[i]
      /\ \A i \in 1 .. Len(s) : all[Len(list) + i] = s[i]
      /\ \A i \in 1 .. Len(t) : all[Len(list) + (Len(s) + i)] = t[i]
  <2>1. /\ s \o t \in Seq(V) /\ Len(s \o t) = Len(s) + Len(t)
        /\ \A i \in 1 .. Len(s) : (s \o t)[i] = s[i]
        /\ \A i \in 1 .. Len(t) : (s \o t)[Len(s) + i] = t[i]
    BY <1>6
  <2> DEFINE st == s \o t
  <2> HIDE DEF st, V
  <2>2. /\ list \o st \in Seq(V) /\ Len(list \o st) = Len(list) + Len(st)
        /\ \A i \in 1 .. Len(list) : (list \o st)[i] = list[i]
        /\ \A i \in 1 .. Len(st) : (list \o st)[Len(list) + i] = st[i]
    BY <1>6, <2>1 DEF st
  <2>3. Len(s) \in Nat /\ Len(t) \in Nat
    BY <1>6
  <2>4. /\ st \in Seq(V) /\ Len(st) = Len(s) + Len(t)
        /\ \A i \in 1 .. Len(s) : st[i] = s[i]
        /\ \A i \in 1 .. Len(t) : st[Len(s) + i] = t[i]
    BY <2>1 DEF st
  <2>5. /\ \A i \in 1 .. Len(s) : i \in 1 .. Len(st)
        /\ \A i \in 1 .. Len(t) : Len(s) + i \in 1 .. Len(st)
    BY <2>3, <2>4
  <2>6. all = list \o st
    BY DEF st
  <2> HIDE DEF all
  <2>7. \A i \in 1 .. Len(s) : all[Len(list) + i] = s[i]
    BY <2>2, <2>4, <2>5, <2>6
  <2>8. \A i \in 1 .. Len(t) : all[Len(list) + (Len(s) + i)] = t[i]
    BY <2>2, <2>4, <2>5, <2>6
  <2> QED BY <2>2, <2>4, <2>6, <2>7, <2>8
<1>8. Len(list) \in Nat /\ Len(s) \in Nat /\ Len(t) \in Nat
  BY <1>6
<1>9. \A x : (\E i \in 1 .. Len(all) : all[i] = x)
         <=> \/ \E i \in 1 .. Len(list) : list[i] = x
             \/ \E i \in 1 .. Len(s) : s[i] = x
             \/ \E i \in 1 .. Len(t) : t[i] = x
  <2> HIDE DEF all, V
  <2>1. ASSUME NEW i \in 1 .. Len(all)
        PROVE  \/ i \in 1 .. Len(list)
               \/ \E j \in 1 .. Len(s) : i = Len(list) + j
               \/ \E j \in 1 .. Len(t) : i = Len(list) + (Len(s) + j)
    <3>1. CASE i <= Len(list)
      BY <3>1, <1>7, <1>8
    <3>2. CASE i > Len(list) /\ i <= Len(list) + Len(s)
      <4>1. i - Len(list) \in 1 .. Len(s) /\ i = Len(list) + (i - Len(list))
        BY <3>2, <1>7, <1>8
      <4> QED BY <4>1
    <3>3. CASE i > Len(list) + Len(s)
      <4> DEFINE j == i - (Len(list) + Len(s))
      <4>1. j \in 1 .. Len(t) /\ i = Len(list) + (Len(s) + j)
        BY <3>3, <1>7, <1>8
      <4> QED BY <4>1
    <3> QED BY <3>1, <3>2, <3>3, <1>7, <1>8
  <2>2. /\ \A i \in 1 .. Len(list) : i \in 1 .. Len(all)
        /\ \A i \in 1 .. Len(s) : Len(list) + i \in 1 .. Len(all)
        /\ \A i \in 1 .. Len(t) : Len(list) + (Len(s) + i) \in 1 .. Len(all)
    BY <1>7, <1>8
  <2>3. \A x : (\E i \in 1 .. Len(all) : all[i] = x)
           => \/ \E i \in 1 .. Len(list) : list[i] = x
              \/ \E i \in 1 .. Len(s) : s[i] = x
              \/ \E i \in 1 .. Len(t) : t[i] = x
    <3>1. ASSUME NEW x, NEW i \in 1 .. Len(all), all[i] = x
          PROVE  \/ \E j \in 1 .. Len(list) : list[j] = x
                 \/ \E j \in 1 .. Len(s) : s[j] = x
                 \/ \E j \in 1 .. Len(t) : t[j] = x
      <4>1. CASE i \in 1 .. Len(list)
        BY <1>7, <3>1, <4>1
      <4>2. ASSUME NEW j \in 1 .. Len(s), i = Len(list) + j PROVE s[j] = x
        BY <1>7, <3>1, <4>2
      <4>3. ASSUME NEW j \in 1 .. Len(t), i = Len(list) + (Len(s) + j) PROVE t[j] = x
        BY <1>7, <3>1, <4>3
      <4> QED BY <2>1, <4>1, <4>2, <4>3
    <3> QED BY <3>1
  <2> QED BY <1>7, <2>2, <2>3
<1>10. \A x : /\ (\E i \in 1 .. Len(s) : s[i] = x) <=> x \in S
              /\ (\E i \in 1 .. Len(t) : t[i] = x) <=> x \in T
  BY <1>2, <1>3, <1>5
<1>11. /\ Range(all) = {all[i] : i \in 1 .. Len(all)}
       /\ Range(list) = {list[i] : i \in 1 .. Len(list)}
  <2>1. DOMAIN all = 1 .. Len(all) /\ DOMAIN list = 1 .. Len(list)
    BY <1>7
  <2> HIDE DEF all
  <2> QED BY <2>1 DEF Range
<1>12. Range(all) = Range(list) \cup S \cup T
  <2> HIDE DEF all
  <2> QED BY <1>9, <1>10, <1>11
<1> QED BY <1>12 DEF all, s, t

\* What a wave does to the nodes: the ready ones have run, and of the others some
\* that were pending may have been skipped.
Ran(failed) ==
    /\ failures' = failures + Cardinality(failed)
    /\ DOMAIN node' = DOMAIN node
    /\ node' \in [DOMAIN node -> NodeRecord]
    /\ \A n \in DOMAIN node :
        /\ node'[n].agent = node[n].agent /\ node'[n].key = node[n].key
        /\ n \in failed => node'[n].status = "failed"
        /\ n \in Ready \ failed => node'[n].status = "succeeded"
        /\ n \notin Ready =>
              /\ node'[n].barred = node[n].barred
              /\ \/ node'[n].status = node[n].status
                 \/ node[n].status = "pending" /\ node'[n].status = "skipped"
    /\ pc' = IF \E n \in DOMAIN node : node'[n].status = "failed" THEN "turn" ELSE "round"
    /\ Ready \subseteq Range(seen') /\ Range(seen) \subseteq Range(seen')
    /\ Range(seen') \subseteq Range(seen) \cup DOMAIN node

LEMMA WavesRun ==
  ASSUME TurnsInv, TurnsTyped, RoundsInv, RunWave
  PROVE  \E failed \in SUBSET (Ready \ {Final}) : Ran(failed)
<1>1. PICK failed \in SUBSET (Ready \ {Final}), barred \in SUBSET Ready, gaps \in Gap :
        /\ barred \subseteq failed
        /\ failures + Cardinality(failed) <= MaxFailures
        /\ failures' = failures + Cardinality(failed)
        /\ LET ran == [n \in DOMAIN node |->
                  IF n \notin Ready THEN node[n]
                  ELSE IF n \in failed
                       THEN [node[n] EXCEPT !.status = "failed", !.barred = n \in barred]
                       ELSE [node[n] EXCEPT !.status = "succeeded", !.gaps = gaps]]
               status == [n \in DOMAIN node |-> ran[n].status]
               skipped == Skipped(status)
               recorded == Sorted(Ready \ Range(seen))
                           \o Sorted(skipped \ (Range(seen) \cup Ready))
           IN  /\ node' = [n \in DOMAIN node |->
                              IF n \in skipped THEN [ran[n] EXCEPT !.status = "skipped"]
                                               ELSE ran[n]]
               /\ seen' = seen \o recorded
               /\ pc' = IF \E n \in DOMAIN node : status[n] = "failed" THEN "turn"
                                                                       ELSE "round"
  BY DEF RunWave
<1> DEFINE ran == [n \in DOMAIN node |->
                  IF n \notin Ready THEN node[n]
                  ELSE IF n \in failed
                       THEN [node[n] EXCEPT !.status = "failed", !.barred = n \in barred]
                       ELSE [node[n] EXCEPT !.status = "succeeded", !.gaps = gaps]]
           status == [n \in DOMAIN node |-> ran[n].status]
           skipped == Skipped(status)
           A == Ready \ Range(seen)
           B == skipped \ (Range(seen) \cup Ready)
<1>2. /\ node' = [n \in DOMAIN node |->
                    IF n \in skipped THEN [ran[n] EXCEPT !.status = "skipped"] ELSE ran[n]]
      /\ seen' = seen \o (Sorted(A) \o Sorted(B))
      /\ pc' = IF \E n \in DOMAIN node : status[n] = "failed" THEN "turn" ELSE "round"
  BY <1>1
<1>3. ASSUME NEW n \in DOMAIN node
      PROVE  /\ ran[n] \in NodeRecord
             /\ ran[n].agent = node[n].agent /\ ran[n].key = node[n].key
             /\ n \in failed => ran[n].status = "failed"
             /\ n \in Ready \ failed => ran[n].status = "succeeded"
             /\ n \notin Ready => ran[n] = node[n]
             /\ status[n] = ran[n].status
  <2>1. node[n] \in NodeRecord /\ gaps \in SUBSET Word
    BY SupervisionAssumption DEF TurnsTyped
  <2>2. {"failed", "succeeded"} \subseteq NodeStatus
    BY DEF NodeStatus
  <2>3. CASE n \notin Ready
    BY <2>1, <2>3
  <2>4. CASE n \in failed
    <3>1. ran[n] = [node[n] EXCEPT !.status = "failed", !.barred = n \in barred]
      BY <2>4
    <3>2. (n \in barred) \in BOOLEAN /\ n \in Ready
      BY <2>4
    <3>3. status[n] = ran[n].status
      OBVIOUS
    <3> HIDE DEF ran, status
    <3> QED BY <2>1, <2>2, <2>4, <3>1, <3>2, <3>3 DEF NodeRecord
  <2>5. CASE n \in Ready \ failed
    <3>1. ran[n] = [node[n] EXCEPT !.status = "succeeded", !.gaps = gaps]
      BY <2>5
    <3>2. status[n] = ran[n].status
      OBVIOUS
    <3> HIDE DEF ran, status
    <3> QED BY <2>1, <2>2, <2>5, <3>1, <3>2 DEF NodeRecord
  <2> QED BY <2>3, <2>4, <2>5
<1>4. skipped \subseteq DOMAIN node /\ \A n \in skipped : status[n] = "pending"
  <2> HIDE DEF status
  <2> QED BY DEF Skipped
<1> HIDE DEF ran, status, skipped
<1>5. ASSUME NEW n \in DOMAIN node
      PROVE  /\ node'[n] \in NodeRecord
             /\ node'[n].agent = node[n].agent /\ node'[n].key = node[n].key
             /\ node'[n].barred = ran[n].barred
             /\ n \notin skipped => node'[n].status = ran[n].status
             /\ n \in skipped => node'[n].status = "skipped" /\ ran[n].status = "pending"
  <2>1. "skipped" \in NodeStatus
    BY DEF NodeStatus
  <2> QED BY <1>2, <1>3, <1>4, <2>1 DEF NodeRecord
<1>6. DOMAIN node' = DOMAIN node /\ node' \in [DOMAIN node -> NodeRecord]
  <2>1. DOMAIN node' = DOMAIN node /\ node' = [n \in DOMAIN node |-> node'[n]]
    BY <1>2
  <2> QED BY <1>5, <2>1
<1>7. \A n \in DOMAIN node : node'[n].status = "failed" <=> status[n] = "failed"
  BY <1>3, <1>5
<1>8. /\ Range(seen') = Range(seen) \cup A \cup B
      /\ A \subseteq DOMAIN node /\ B \subseteq DOMAIN node
  <2>1. A \subseteq DOMAIN node /\ B \subseteq DOMAIN node /\ DOMAIN node \subseteq Nat
    BY <1>4, ReadyAreNodes, IdsAreNumbers
  <2>2. IsFiniteSet(A) /\ IsFiniteSet(B)
    BY <2>1, FS_Subset DEF TurnsInv
  <2>3. PICK U : seen \in Seq(U)
    BY DEF TurnsInv
  <2> HIDE DEF A, B
  <2> QED BY <1>2, <2>1, <2>2, <2>3, RecordedJoin
<1>9. \A n \in DOMAIN node :
        /\ node'[n].agent = node[n].agent /\ node'[n].key = node[n].key
        /\ n \in failed => node'[n].status = "failed"
        /\ n \in Ready \ failed => node'[n].status = "succeeded"
        /\ n \notin Ready =>
              /\ node'[n].barred = node[n].barred
              /\ \/ node'[n].status = node[n].status
                 \/ node[n].status = "pending" /\ node'[n].status = "skipped"
  <2>1. ASSUME NEW n \in DOMAIN node
        PROVE  /\ n \in failed => node'[n].status = "failed"
               /\ n \in Ready \ failed => node'[n].status = "succeeded"
    BY <1>3, <1>5
  <2>2. ASSUME NEW n \in DOMAIN node, n \notin Ready
        PROVE  /\ node'[n].barred = node[n].barred
               /\ \/ node'[n].status = node[n].status
                  \/ node[n].status = "pending" /\ node'[n].status = "skipped"
    BY <1>3, <1>5, <2>2
  <2> QED BY <1>5, <2>1, <2>2
<1>10. pc' = IF \E n \in DOMAIN node : node'[n].status = "failed" THEN "turn" ELSE "round"
  BY <1>2, <1>7
<1>11. /\ Ready \subseteq Range(seen') /\ Range(seen) \subseteq Range(seen')
       /\ Range(seen') \subseteq Range(seen) \cup DOMAIN node
  BY <1>8
<1> QED BY <1>1, <1>6, <1>9, <1>10, <1>11 DEF Ran

\* The fallback decides something worth its turn: it retries the first failure,
\* and delegates when there is none, to agents that have not succeeded.
LEMMA HeuristicIsWorthwhile ==
  ASSUME TurnsInv, TurnsTyped, EntriesInv, SettledInv, pc = "turn",
         \A n \in Failed : ~node[n].barred
  PROVE  \/ Heuristic.targets = {} /\ Heuristic.action = "retry" /\ Heuristic.node \in Failed
         \/ Heuristic.targets = {} /\ Heuristic.action \in {"finalize", "fail"}
         \/ /\ Heuristic.targets # {}
            /\ Heuristic.action \in {"delegate", "parallel_delegate"}
            /\ \A n \in AgentNodes : node[n].status \in {"succeeded", "skipped"}
            /\ \A t \in Heuristic.targets :
                 t.agent \in Agent /\ t.key = t.agent /\ t.key \notin Served
<1> DEFINE candidates == CandidatesFor(RoutingText, 2 * MaxParallel) \ AlreadyUsed
           parallel == ComplementaryCandidates(candidates, RoutingText)
           strongest == CHOOSE a \in candidates :
                           \A b \in candidates : ~RanksAbove(b, a, RoutingText)
           chosen == IF Cardinality(parallel) >= 2 THEN parallel ELSE {strongest}
           targets == {[agent |-> a, key |-> a] : a \in chosen}
<1>1. CASE Retryable # {}
  <2>1. Heuristic = Retrial(seen[Min(Retryable)])
    BY <1>1 DEF Heuristic
  <2>2. Retryable \subseteq DOMAIN seen /\ DOMAIN seen \subseteq Nat
    BY DEF TurnsInv, Retryable
  <2>3. Min(Retryable) \in Retryable
    BY <1>1, <2>2, LeastExists
  <2> DEFINE n == seen[Min(Retryable)]
  <2>4. n \in Range(seen) /\ node[n].status = "failed"
    BY <2>3 DEF Retryable, Range
  <2> HIDE DEF n
  <2>5. Heuristic.action = "retry" /\ Heuristic.targets = {} /\ Heuristic.node = n
    BY <2>1 DEF Retrial, Says, n
  <2>6. n \in Failed
    BY <2>4 DEF EntriesInv, TurnsTyped, Failed, AgentNodes
  <2> QED BY <2>5, <2>6
<1>2. CASE Retryable = {} /\ candidates # {}
  <2>1. Heuristic = Delegation(targets)
    BY <1>2 DEF Heuristic
  <2>2. strongest \in candidates
    <3>1. candidates \subseteq Agent
      BY DEF CandidatesFor, Enabled
    <3> HIDE DEF candidates
    <3>2. \E a \in candidates : \A b \in candidates : ~RanksAbove(b, a, RoutingText)
      BY <1>2, <3>1, StrongestExists
    <3> QED BY <3>2
  <2>3. parallel \subseteq candidates
    BY DEF ComplementaryCandidates
  <2>4. Cardinality(parallel) >= 2 => parallel # {}
    <3> HIDE DEF parallel
    <3>1. parallel = {} => Cardinality(parallel) = 0
      BY FS_EmptySet
    <3> QED BY <3>1
  <2>5. chosen \subseteq candidates /\ chosen # {}
    <3> HIDE DEF candidates, parallel, strongest
    <3> QED BY <2>2, <2>3, <2>4
  <2>6. \A a \in candidates : a \in Agent /\ a \notin Served
    BY DEF CandidatesFor, Enabled, AlreadyUsed, Served
  <2>7. targets # {} /\ \A t \in targets : t.agent \in Agent /\ t.key = t.agent /\ t.key \notin Served
    <3> HIDE DEF chosen, candidates
    <3>1. \A a \in chosen : a \in Agent /\ a \notin Served
      BY <2>5, <2>6
    <3>2. PICK a \in chosen : TRUE
      BY <2>5
    <3>3. [agent |-> a, key |-> a] \in targets
      BY <3>2
    <3>4. \A t \in targets : \E b \in chosen : t = [agent |-> b, key |-> b]
      OBVIOUS
    <3> HIDE DEF targets
    <3> QED BY <3>1, <3>3, <3>4
  <2>8. Failed = {}
    <3>1. SUFFICES ASSUME NEW n \in Failed PROVE FALSE
      OBVIOUS
    <3>2. PICK i \in DOMAIN seen : seen[i] = n
      BY DEF EntriesInv, Range
    <3>3. i \in Retryable
      BY <3>2 DEF Retryable, Failed
    <3> QED BY <3>3, <1>2
  <2>9. \A n \in AgentNodes : node[n].status \in {"succeeded", "skipped"}
    BY <2>8 DEF SettledInv, TurnsTyped, Failed, AgentNodes
  <2> HIDE DEF targets
  <2>10. Heuristic.targets = targets /\ Heuristic.action \in {"delegate", "parallel_delegate"}
    BY <2>1 DEF Delegation, Says
  <2> QED BY <2>7, <2>9, <2>10
<1>3. CASE Retryable = {} /\ candidates = {}
  <2>1. Heuristic = Says(IF Succeeded # {} THEN "finalize" ELSE "fail")
    BY <1>3 DEF Heuristic
  <2>2. Heuristic.targets = {} /\ Heuristic.action \in {"finalize", "fail"}
    BY <2>1 DEF Says
  <2> QED BY <2>2
<1> QED BY <1>1, <1>2, <1>3

\* What pays can be counted.
LEMMA LedgerIsFinite ==
  ASSUME TurnsInv
  PROVE  /\ IsFiniteSet(Failed) /\ Cardinality(Failed) \in Nat
         /\ IsFiniteSet(Served) /\ Cardinality(Served) \in Nat
<1>1. Failed \in SUBSET (DOMAIN node) /\ Served \in SUBSET Agent
  BY DEF Failed, AgentNodes, Served
<1>2. IsFiniteSet(Failed) /\ IsFiniteSet(Served)
  BY <1>1, AgentsAreFinite, FS_Subset DEF TurnsInv
<1> QED BY <1>2, FS_CardinalityType

PaidInv ==
    /\ TurnsInv /\ TurnsTyped /\ RoundsInv /\ EntriesInv
    /\ RetryInv /\ SettledInv /\ LedgerInv

\* A step that leaves the graph alone leaves what is counted there.
LEMMA GraphStays ==
  ASSUME UNCHANGED graph
  PROVE  /\ AgentNodes' = AgentNodes /\ Failed' = Failed /\ Served' = Served
         /\ Ready' = Ready /\ node' = node /\ edges' = edges /\ seen' = seen
         /\ RoundsInv' = RoundsInv /\ EntriesInv' = EntriesInv
BY DEF graph, AgentNodes, Failed, Served, Succeeded, Ready, w, RoundsInv, EntriesInv

LEMMA DecidePaid ==
  ASSUME PaidInv, Decide
  PROVE  TurnsTyped' /\ RoundsInv' /\ EntriesInv' /\ RetryInv' /\ SettledInv' /\ LedgerInv'
<1>1. /\ UNCHANGED <<graph, failures>> /\ turn' = turn + 1 /\ turn < MaxTurns
      /\ pc = "turn" /\ pc' = "apply"
      /\ \/ replies' = replies /\ decision' = Heuristic
         \/ /\ replies' = replies + 1
            /\ decision'.action = "retry" =>
                  node[decision'.node].status # "succeeded" /\ ~node[decision'.node].barred
  <2>1. CASE FallBack
    BY <2>1 DEF FallBack
  <2>2. ASSUME NEW d \in Reply, FollowModel(d)
        PROVE  /\ UNCHANGED <<graph, failures>> /\ turn' = turn + 1 /\ turn < MaxTurns
               /\ pc = "turn" /\ pc' = "apply" /\ replies' = replies + 1 /\ decision' = d
               /\ IsValid(d)
    BY <2>2 DEF FollowModel
  <2> QED BY <2>1, <2>2 DEF Decide, IsValid, CanRetry
<1>2. /\ AgentNodes' = AgentNodes /\ Failed' = Failed /\ Served' = Served
      /\ node' = node /\ edges' = edges /\ seen' = seen
      /\ RoundsInv' /\ EntriesInv'
  BY <1>1, GraphStays DEF PaidInv
<1>3. TurnsTyped'
  <2>1. Opened' = Opened /\ turn' \in 0 .. MaxTurns /\ turn' # 0 /\ replies' \in Nat
    BY <1>1, SupervisionAssumption DEF Opened, PaidInv, TurnsTyped
  <2> QED BY <1>1, <1>2, <2>1 DEF PaidInv, TurnsTyped
<1>4. RetryInv'
  <2>1. decision'.action = "retry" =>
           node[decision'.node].status # "succeeded" /\ ~node[decision'.node].barred
    BY <1>1, HeuristicIsSound DEF PaidInv
  <2> QED BY <1>2, <2>1 DEF RetryInv
<1>5. SettledInv'
  BY <1>1 DEF SettledInv
<1>6. LedgerInv'
  <2>1. SUFFICES ASSUME \A n \in Failed : ~node[n].barred
                 PROVE  turn' <= Paid' \/ (turn' <= Paid' + 1 /\ Worthwhile')
    BY <1>1, <1>2 DEF LedgerInv
  <2>2. turn <= Paid /\ turn \in Nat /\ Paid \in Int
    <3>1. turn <= Paid
      BY <1>1, <2>1 DEF PaidInv, LedgerInv
    <3>2. turn \in Nat /\ Paid \in Int
      BY LedgerIsFinite DEF PaidInv, TurnsTyped, Paid
    <3> QED BY <3>1, <3>2
  <2>3. Paid' = replies' + 2 * failures + Cardinality(Served) - Cardinality(Failed)
    BY <1>1, <1>2 DEF Paid
  <2>4. CASE replies' = replies + 1
    <3>1. Paid' = Paid + 1
      BY <2>3, <2>4, LedgerIsFinite DEF Paid, PaidInv, TurnsTyped
    <3> QED BY <1>1, <2>2, <3>1
  <2>5. CASE replies' = replies /\ decision' = Heuristic
    <3>1. Paid' = Paid
      BY <2>3, <2>5 DEF Paid
    <3>2. \/ Heuristic.targets = {} /\ Heuristic.action = "retry" /\ Heuristic.node \in Failed
          \/ Heuristic.targets = {} /\ Heuristic.action \in {"finalize", "fail"}
          \/ /\ Heuristic.targets # {}
             /\ Heuristic.action \in {"delegate", "parallel_delegate"}
             /\ \A n \in AgentNodes : node[n].status \in {"succeeded", "skipped"}
             /\ \A t \in Heuristic.targets :
                  t.agent \in Agent /\ t.key = t.agent /\ t.key \notin Served
      BY <1>1, <2>1, HeuristicIsWorthwhile DEF PaidInv
    <3>3. Worthwhile'
      BY <1>2, <2>5, <3>2 DEF Worthwhile
    <3> QED BY <1>1, <2>2, <3>1, <3>3
  <2> QED BY <1>1, <2>4, <2>5
<1> QED BY <1>2, <1>3, <1>4, <1>5, <1>6

LEMMA RestPaid ==
  ASSUME PaidInv,
         \/ RunOutOfTurns \/ Conclude \/ Drain \/ UNCHANGED turnVars
         \/ \E a \in Edited, enabled \in BOOLEAN : CreateAgent(a, enabled)
  PROVE  TurnsTyped' /\ RoundsInv' /\ EntriesInv' /\ RetryInv' /\ SettledInv' /\ LedgerInv'
<1>1. /\ UNCHANGED <<graph, turn, decision, replies, failures>>
      /\ \/ pc = "turn" /\ pc' = "done"
         \/ pc = "apply" /\ pc' = "done" /\ decision.action \in {"finalize", "fail"}
         \/ pc = "round" /\ pc' = "turn" /\ Ready = {}
         \/ pc' = pc
  BY DEF RunOutOfTurns, Conclude, Drain, CreateAgent, turnVars
<1>2. /\ AgentNodes' = AgentNodes /\ Failed' = Failed /\ Served' = Served /\ Ready' = Ready
      /\ node' = node /\ edges' = edges /\ seen' = seen
      /\ RoundsInv' /\ EntriesInv'
  BY <1>1, GraphStays DEF PaidInv
<1>3. TurnsTyped'
  <2>1. \A n \in AgentNodes : \E a \in Agent, k \in 1 .. Opened' : n = NodeOf(a, k)
    <3>1. Opened \in Int /\ Opened' \in Int /\ Opened <= Opened'
      BY <1>1 DEF Opened, PaidInv, TurnsTyped
    <3>2. 1 .. Opened \subseteq 1 .. Opened'
      BY <3>1
    <3> QED BY <3>2 DEF PaidInv, TurnsTyped
  <2> QED BY <1>1, <1>2, <2>1 DEF PaidInv, TurnsTyped
<1>4. RetryInv'
  BY <1>1, <1>2 DEF PaidInv, RetryInv
<1>5. SettledInv'
  <2>1. CASE pc = "round" /\ pc' = "turn" /\ Ready = {}
    BY <1>2, <2>1, DrainedIsSettled DEF PaidInv, SettledInv
  <2>2. CASE pc' = pc
    BY <1>2, <2>2 DEF PaidInv, SettledInv
  <2> QED BY <1>1, <2>1, <2>2 DEF SettledInv
<1>6. LedgerInv'
  <2>1. Paid' = Paid /\ Worthwhile' = Worthwhile /\ turn' = turn
    BY <1>1, <1>2 DEF Paid, Worthwhile
  <2>2. \A n : Promising(n)' = Promising(n)
    BY <1>2 DEF Promising
  <2>3. turn \in Nat /\ Paid \in Int
    BY LedgerIsFinite DEF PaidInv, TurnsTyped, Paid
  <2> QED BY <1>1, <1>2, <2>1, <2>2, <2>3 DEF PaidInv, LedgerInv
<1> QED BY <1>2, <1>3, <1>4, <1>5, <1>6

LEMMA ReopenPaid ==
  ASSUME PaidInv, Reopen
  PROVE  TurnsTyped' /\ RoundsInv' /\ EntriesInv' /\ RetryInv' /\ SettledInv' /\ LedgerInv'
<1> DEFINE dn == decision.node
<1>1. /\ pc = "apply" /\ pc' = "round" /\ decision.action = "retry"
      /\ node' = [node EXCEPT ![dn].status = "pending"]
      /\ UNCHANGED <<edges, seen, turn, decision, replies, failures>>
  BY DEF Reopen
<1>2. /\ DOMAIN node' = DOMAIN node /\ AgentNodes' = AgentNodes
      /\ \A n \in DOMAIN node : n # dn => node'[n] = node[n]
  BY <1>1 DEF AgentNodes
<1>3. dn \in DOMAIN node =>
         /\ node'[dn] = [node[dn] EXCEPT !.status = "pending"]
         /\ node'[dn] \in NodeRecord /\ node'[dn].status = "pending"
         /\ node[dn].status # "succeeded" /\ ~node[dn].barred
         /\ node'[dn].barred = node[dn].barred
  <2>1. SUFFICES ASSUME dn \in DOMAIN node
                 PROVE  /\ node'[dn] = [node[dn] EXCEPT !.status = "pending"]
                        /\ node'[dn] \in NodeRecord /\ node'[dn].status = "pending"
                        /\ node[dn].status # "succeeded" /\ ~node[dn].barred
                        /\ node'[dn].barred = node[dn].barred
    OBVIOUS
  <2>2. node[dn].status # "succeeded" /\ ~node[dn].barred
    BY <1>1, <2>1 DEF PaidInv, RetryInv
  <2>3. node[dn] \in NodeRecord /\ "pending" \in NodeStatus
    BY <2>1 DEF PaidInv, TurnsTyped, NodeStatus
  <2>4. node'[dn] = [node[dn] EXCEPT !.status = "pending"]
    BY <1>1, <2>1
  <2> HIDE DEF dn
  <2> QED BY <2>2, <2>3, <2>4 DEF NodeRecord
<1> HIDE DEF dn
<1>4. Failed' = Failed \ {dn} /\ Served' = Served
  <2>1. Failed' = Failed \ {dn}
    BY <1>2, <1>3 DEF Failed, AgentNodes
  <2>2. Succeeded' = Succeeded /\ dn \notin Succeeded
    BY <1>2, <1>3 DEF Succeeded, AgentNodes
  <2>3. \A n \in Succeeded : node'[n] = node[n]
    BY <1>2, <2>2 DEF Succeeded, AgentNodes
  <2>4. Served' = {a \in Agent : \E n \in Succeeded : node'[n].agent = a /\ node'[n].key = a}
    BY <2>2 DEF Served
  <2> QED BY <2>1, <2>3, <2>4 DEF Served
<1>5. TurnsTyped'
  <2>1. \A n \in AgentNodes : \E a \in Agent, k \in 1 .. Opened' : n = NodeOf(a, k)
    <3>1. Opened \in Int /\ Opened' \in Int /\ Opened <= Opened'
      BY <1>1 DEF Opened, PaidInv, TurnsTyped
    <3>2. 1 .. Opened \subseteq 1 .. Opened'
      BY <3>1
    <3> QED BY <3>2 DEF PaidInv, TurnsTyped
  <2>2. node' \in [DOMAIN node' -> NodeRecord]
    <3>1. \A n \in DOMAIN node : node'[n] \in NodeRecord
      BY <1>2, <1>3 DEF PaidInv, TurnsTyped
    <3>2. node' = [n \in DOMAIN node |-> node'[n]]
      BY <1>1
    <3> QED BY <1>2, <3>1, <3>2
  <2>3. /\ \A n \in DOMAIN node' :
             node'[n].status \in {"pending", "succeeded", "failed", "skipped"}
        /\ node'[Final].status # "failed"
    BY <1>2, <1>3 DEF PaidInv, TurnsTyped
  <2> QED BY <1>1, <1>2, <2>1, <2>2, <2>3 DEF PaidInv, TurnsTyped
<1>6. RoundsInv' /\ EntriesInv'
  BY <1>1, <1>2, <1>4 DEF PaidInv, RoundsInv, EntriesInv
<1>7. RetryInv' /\ SettledInv'
  BY <1>1 DEF RetryInv, SettledInv
<1>8. LedgerInv'
  <2>1. SUFFICES ASSUME \A n \in Failed' : ~node'[n].barred PROVE turn' <= Paid'
    BY <1>1 DEF LedgerInv
  <2>2. \A n \in Failed : ~node[n].barred
    BY <2>1, <1>2, <1>3, <1>4 DEF Failed, AgentNodes
  <2>3. turn <= Paid \/ (turn <= Paid + 1 /\ dn \in Failed)
    BY <1>1, <2>2 DEF PaidInv, LedgerInv, Worthwhile, dn
  <2>4. /\ Cardinality(Failed') = IF dn \in Failed THEN Cardinality(Failed) - 1
                                                   ELSE Cardinality(Failed)
    BY <1>4, LedgerIsFinite, FS_RemoveElement DEF PaidInv
  <2>5. /\ turn \in Nat /\ replies \in Nat /\ failures \in Nat
        /\ Cardinality(Failed) \in Nat /\ Cardinality(Served) \in Nat
    BY LedgerIsFinite DEF PaidInv, TurnsTyped
  <2>6. /\ Paid = replies + 2 * failures + Cardinality(Served) - Cardinality(Failed)
        /\ Paid' = replies + 2 * failures + Cardinality(Served) - Cardinality(Failed')
    BY <1>1, <1>4 DEF Paid
  <2> QED BY <1>1, <2>3, <2>4, <2>5, <2>6
<1> QED BY <1>5, <1>6, <1>7, <1>8

LEMMA DelegatePaid ==
  ASSUME PaidInv, Delegate
  PROVE  TurnsTyped' /\ RoundsInv' /\ EntriesInv' /\ RetryInv' /\ SettledInv' /\ LedgerInv'
<1> DEFINE targets == decision.targets
           new == {NextNode(t.agent) : t \in targets}
           TargetOf(n) == CHOOSE t \in targets : NextNode(t.agent) = n
<1>1. /\ pc = "apply" /\ pc' = "round" /\ targets # {}
      /\ node' = [n \in DOMAIN node \cup new |->
                    IF n \in new THEN Fresh(TargetOf(n).agent, TargetOf(n).key) ELSE node[n]]
      /\ edges' = edges \cup {Arrow(s, d) : s \in Frontier, d \in new}
                        \cup {Arrow(s, Final) : s \in new}
      /\ UNCHANGED <<seen, turn, decision, replies, failures>>
  BY DEF Delegate
<1>2. targets \subseteq Target /\ \A t \in targets : t.agent \in Agent
  BY DEF PaidInv, TurnsInv, Target
<1>3. ASSUME NEW n \in new
      PROVE  /\ n \notin DOMAIN node
             /\ \E a \in Agent, k \in 1 .. turn : n = NodeOf(a, k)
             /\ TargetOf(n) \in targets
  <2>1. PICK t \in targets : n = NextNode(t.agent)
    BY <1>3
  <2>2. t.agent \in Agent
    BY <1>2
  <2>3. /\ NextNode(t.agent) \notin DOMAIN node
        /\ \E k \in 1 .. turn : NextNode(t.agent) = NodeOf(t.agent, k)
    BY <1>1, <2>2, NextIsFree DEF PaidInv
  <2>4. TargetOf(n) \in targets
    BY <2>1
  <2> QED BY <2>1, <2>2, <2>3, <2>4
<1>4. new # {}
  BY <1>1
<1> HIDE DEF targets, new, TargetOf
<1>5. /\ DOMAIN node' = DOMAIN node \cup new
      /\ \A n \in DOMAIN node : node'[n] = node[n]
      /\ \A n \in new : node'[n] = Fresh(TargetOf(n).agent, TargetOf(n).key)
  BY <1>1, <1>3
<1>6. \A n \in new : /\ node'[n] \in NodeRecord /\ node'[n].status = "pending"
                     /\ node'[n].agent = TargetOf(n).agent /\ node'[n].key = TargetOf(n).key
  <2>1. "pending" \in NodeStatus /\ {} \in SUBSET Word
    BY DEF NodeStatus
  <2>2. \A n \in new : TargetOf(n) \in Target
    BY <1>2, <1>3
  <2>3. ASSUME NEW t \in Target
        PROVE  /\ Fresh(t.agent, t.key) \in NodeRecord
               /\ Fresh(t.agent, t.key).status = "pending"
               /\ Fresh(t.agent, t.key).agent = t.agent
               /\ Fresh(t.agent, t.key).key = t.key
    BY <2>1 DEF Fresh, NodeRecord, Target
  <2> QED BY <1>5, <2>2, <2>3
<1>7. Final \in DOMAIN node /\ Final \notin new /\ AgentNodes' = AgentNodes \cup new
  <2>1. Final \in DOMAIN node
    BY DEF PaidInv, TurnsTyped
  <2> QED BY <1>3, <1>5, <2>1 DEF AgentNodes
<1>8. Failed' = Failed /\ Served' = Served
  <2>1. Failed' = Failed /\ Succeeded' = Succeeded
    BY <1>5, <1>6, <1>7 DEF Failed, Succeeded, AgentNodes
  <2>2. \A n \in Succeeded : node'[n] = node[n]
    BY <1>5 DEF Succeeded, AgentNodes
  <2> QED BY <2>1, <2>2 DEF Served
<1>9. TurnsTyped'
  <2>1. \A n \in AgentNodes' : \E a \in Agent, k \in 1 .. turn : n = NodeOf(a, k)
    <3>1. Opened = turn - 1 /\ turn \in Nat /\ 1 .. turn - 1 \subseteq 1 .. turn
      BY <1>1 DEF Opened, PaidInv, TurnsTyped
    <3>2. \A n \in AgentNodes : \E a \in Agent, k \in 1 .. turn : n = NodeOf(a, k)
      BY <3>1 DEF PaidInv, TurnsTyped
    <3> QED BY <1>3, <1>7, <3>2
  <2>2. Opened' = turn
    BY <1>1 DEF Opened
  <2>3. node' \in [DOMAIN node' -> NodeRecord]
    <3>1. \A n \in DOMAIN node' : node'[n] \in NodeRecord
      BY <1>5, <1>6 DEF PaidInv, TurnsTyped
    <3>2. node' = [n \in DOMAIN node' |-> node'[n]]
      BY <1>1
    <3> QED BY <3>1, <3>2
  <2>4. /\ \A n \in DOMAIN node' :
             node'[n].status \in {"pending", "succeeded", "failed", "skipped"}
        /\ node'[Final].status # "failed" /\ Final \in DOMAIN node'
    BY <1>5, <1>6, <1>7 DEF PaidInv, TurnsTyped
  <2> QED BY <1>1, <2>1, <2>2, <2>3, <2>4 DEF PaidInv, TurnsTyped
<1>10. \A e \in edges' : \/ e \in edges /\ e.src \in AgentNodes /\ e.dst \in DOMAIN node
                         \/ e.src \in Frontier /\ e.src \in AgentNodes /\ e.dst \in new
                         \/ e.src \in new /\ e.dst = Final
  BY <1>1 DEF Arrow, Frontier, PaidInv, RoundsInv
<1>11. RoundsInv'
  <2>1. \A e \in edges' : e.src \in AgentNodes' /\ e.dst \in DOMAIN node' /\ e.cond = FALSE
    <3>1. \A e \in edges' : e.cond = FALSE
      BY <1>1 DEF Arrow, PaidInv, RoundsInv
    <3> QED BY <1>5, <1>7, <1>10, <3>1
  <2>2. ASSUME NEW S \in SUBSET AgentNodes', S # {}
        PROVE  \E n \in S : \A e \in edges' : e.dst = n => e.src \notin S
    <3>1. CASE S \cap AgentNodes # {}
      <4>1. PICK n \in S \cap AgentNodes :
                   \A e \in edges : e.dst = n => e.src \notin S \cap AgentNodes
        BY <3>1 DEF PaidInv, RoundsInv
      <4>2. n \in DOMAIN node /\ n # Final
        BY DEF AgentNodes
      <4>3. \A e \in edges' : e.dst = n => e.src \notin S
        BY <1>3, <1>10, <4>1, <4>2
      <4> QED BY <4>3
    <3>2. CASE S \cap AgentNodes = {}
      <4>1. PICK n \in S : TRUE
        BY <2>2
      <4>2. n \in new
        BY <1>7, <2>2, <3>2
      <4>3. \A e \in edges' : e.dst = n => e.src \notin S
        BY <1>3, <1>7, <1>10, <3>2, <4>2
      <4> QED BY <4>3
    <3> QED BY <3>1, <3>2
  <2> QED BY <2>1, <2>2 DEF RoundsInv
<1>12. EntriesInv' /\ RetryInv' /\ SettledInv'
  BY <1>1, <1>5, <1>8 DEF PaidInv, EntriesInv, RetryInv, SettledInv
<1>13. LedgerInv'
  <2>1. SUFFICES ASSUME \A n \in Failed' : ~node'[n].barred
                 PROVE  \/ turn' <= Paid'
                        \/ turn' <= Paid' + 1 /\ \E n \in Ready' \ {Final} : Promising(n)'
    BY <1>1 DEF LedgerInv
  <2>2. \A n \in Failed : ~node[n].barred
    BY <2>1, <1>5, <1>8 DEF Failed, AgentNodes
  <2>3. Paid' = Paid /\ turn' = turn
    BY <1>1, <1>8 DEF Paid
  <2>4. turn <= Paid \/ (turn <= Paid + 1 /\ Worthwhile)
    BY <1>1, <2>2 DEF PaidInv, LedgerInv
  <2>5. ASSUME Worthwhile PROVE \E n \in Ready' \ {Final} : Promising(n)'
    <3>1. /\ \A n \in AgentNodes : node[n].status \in {"succeeded", "skipped"}
          /\ \A t \in targets : t.agent \in Agent /\ t.key = t.agent /\ t.key \notin Served
      BY <1>1, <2>5 DEF Worthwhile, targets
    <3>2. PICK n \in new : TRUE
      BY <1>4
    <3>3. \A e \in edges' : e.dst = n => node'[e.src].status \in {"succeeded", "skipped"}
      <4>1. \A e \in edges' : e.dst = n => e.src \in AgentNodes
        BY <1>3, <1>7, <1>10, <3>2
      <4>2. \A m \in AgentNodes : node'[m].status \in {"succeeded", "skipped"}
        BY <1>5, <3>1 DEF AgentNodes
      <4> QED BY <4>1, <4>2
    <3>4. n \in Ready'
      <4>1. n \in DOMAIN node' /\ node'[n].status = "pending"
        BY <1>5, <1>6
      <4> QED BY <1>9, <1>11, <3>3, <4>1, ReadyIsThen
    <3>5. Promising(n)'
      BY <1>3, <1>6, <1>8, <3>1 DEF Promising
    <3> QED BY <1>7, <3>4, <3>5
  <2> QED BY <2>3, <2>4, <2>5
<1> QED BY <1>9, <1>11, <1>12, <1>13

LEMMA WavePaid ==
  ASSUME PaidInv, RunWave
  PROVE  TurnsTyped' /\ RoundsInv' /\ EntriesInv' /\ RetryInv' /\ SettledInv' /\ LedgerInv'
<1>1. PICK failed \in SUBSET (Ready \ {Final}) : Ran(failed)
  BY WavesRun DEF PaidInv
<1>2. pc = "round" /\ UNCHANGED <<edges, turn, replies>>
  BY DEF RunWave
<1>3. DOMAIN node' = DOMAIN node /\ AgentNodes' = AgentNodes /\ Ready \subseteq DOMAIN node
  BY <1>1, ReadyAreNodes DEF Ran, AgentNodes
<1>4. ASSUME NEW n \in DOMAIN node
      PROVE  /\ n \in Ready => node[n].status = "pending"
             /\ node'[n].agent = node[n].agent /\ node'[n].key = node[n].key
             /\ n \in failed => node'[n].status = "failed"
             /\ n \in Ready \ failed => node'[n].status = "succeeded"
             /\ n \notin Ready =>
                  /\ node'[n].barred = node[n].barred
                  /\ \/ node'[n].status = node[n].status
                     \/ node[n].status = "pending" /\ node'[n].status = "skipped"
  <2>1. n \in Ready => node[n].status = "pending"
    BY ReadyIs DEF PaidInv
  <2> QED BY <1>1, <2>1 DEF Ran
<1>5. Failed' = Failed \cup failed /\ Failed \cap failed = {}
  <2>1. \A n \in Failed : n \notin Ready /\ n \in Failed'
    BY <1>3, <1>4 DEF Failed, AgentNodes
  <2>2. \A n \in failed : n \in Failed'
    BY <1>3, <1>4 DEF Failed, AgentNodes
  <2>3. \A n \in Failed' : n \in Failed \cup failed
    BY <1>3, <1>4 DEF Failed, AgentNodes
  <2> QED BY <2>1, <2>2, <2>3
<1>6. Served \subseteq Served'
  <2>1. \A n \in Succeeded : n \in Succeeded' /\ n \in DOMAIN node
    BY <1>3, <1>4 DEF Succeeded, AgentNodes
  <2> QED BY <1>4, <2>1 DEF Served
<1>7. TurnsInv'
  BY TurnsPreserve DEF PaidInv, TurnsNext
<1>8. /\ IsFiniteSet(failed) /\ Cardinality(failed) \in Nat
      /\ Cardinality(Failed') = Cardinality(Failed) + Cardinality(failed)
      /\ failed # {} => Cardinality(failed) # 0
  <2>1. failed \in SUBSET DOMAIN node
    BY <1>3
  <2>2. IsFiniteSet(failed)
    BY <2>1, FS_Subset DEF PaidInv, TurnsInv
  <2>3. Cardinality(Failed \cup failed)
           = Cardinality(Failed) + Cardinality(failed) - Cardinality(Failed \cap failed)
    BY <2>2, LedgerIsFinite, FS_Union DEF PaidInv
  <2>4. Cardinality(failed) \in Nat /\ Cardinality(Failed) \in Nat
    BY <2>2, LedgerIsFinite, FS_CardinalityType DEF PaidInv
  <2>5. Cardinality(Failed \cap failed) = 0
    BY <1>5, FS_EmptySet
  <2>6. failed # {} => Cardinality(failed) # 0
    BY <2>2, FS_EmptySet
  <2> QED BY <1>5, <2>2, <2>3, <2>4, <2>5, <2>6
<1>9. TurnsTyped'
  <2>1. Opened' = Opened /\ pc' \in {"turn", "round"}
    BY <1>1, <1>2 DEF Ran, Opened
  <2>2. /\ \A n \in DOMAIN node' :
             node'[n].status \in {"pending", "succeeded", "failed", "skipped"}
        /\ node'[Final].status # "failed"
    BY <1>3, <1>4 DEF PaidInv, TurnsTyped
  <2>3. node' \in [DOMAIN node' -> NodeRecord] /\ failures' \in Nat
    BY <1>1, <1>8 DEF Ran, PaidInv, TurnsTyped
  <2> QED BY <1>2, <1>3, <2>1, <2>2, <2>3 DEF PaidInv, TurnsTyped
<1>10. RoundsInv'
  <2>1. edges' = edges /\ DOMAIN node' = DOMAIN node /\ AgentNodes' = AgentNodes
    BY <1>2, <1>3
  <2>2. \A e \in edges : e.src \in AgentNodes /\ e.dst \in DOMAIN node /\ e.cond = FALSE
    BY DEF PaidInv, RoundsInv
  <2>3. \A S \in SUBSET AgentNodes : S # {} =>
           \E n \in S : \A e \in edges : e.dst = n => e.src \notin S
    BY DEF PaidInv, RoundsInv
  <2> QED BY <2>1, <2>2, <2>3 DEF RoundsInv
<1>11. EntriesInv'
  BY <1>1, <1>3, <1>5 DEF Ran, PaidInv, EntriesInv
<1>12. RetryInv' /\ SettledInv'
  <2>1. pc' = "turn" => \E n \in DOMAIN node : node'[n].status = "failed"
    BY <1>1 DEF Ran
  <2>2. pc' = "turn" => Failed' # {}
    BY <1>3, <1>9, <2>1 DEF Failed, AgentNodes, TurnsTyped
  <2>3. pc' # "apply"
    BY <1>1 DEF Ran
  <2> QED BY <2>2, <2>3 DEF RetryInv, SettledInv
<1>13. LedgerInv'
  <2>1. SUFFICES ASSUME \A n \in Failed' : ~node'[n].barred PROVE turn' <= Paid'
    <3>1. pc' \in {"turn", "round"}
      BY <1>1 DEF Ran
    <3> QED BY <3>1 DEF LedgerInv
  <2>2. \A n \in Failed : ~node[n].barred
    BY <2>1, <1>3, <1>4, <1>5 DEF Failed, AgentNodes
  <2>3. turn <= Paid \/ (turn <= Paid + 1 /\ \E n \in Ready \ {Final} : Promising(n))
    BY <1>2, <2>2 DEF PaidInv, LedgerInv
  <2>4. /\ Cardinality(Served) \in Nat /\ Cardinality(Failed) \in Nat
        /\ IsFiniteSet(Served') /\ Cardinality(Served') \in Nat
        /\ turn \in Nat /\ replies \in Nat /\ failures \in Nat
    <3>1. IsFiniteSet(Served')
      <4>1. Served' \in SUBSET Agent
        BY DEF Served
      <4> QED BY <4>1, AgentsAreFinite, FS_Subset
    <3> QED BY <3>1, LedgerIsFinite, FS_CardinalityType DEF PaidInv, TurnsTyped
  <2>5. /\ Cardinality(Served) <= Cardinality(Served')
        /\ Cardinality(Served') = Cardinality(Served) => Served' = Served
    BY <1>6, <2>4, FS_Subset
  <2>6. failures' = failures + Cardinality(failed)
    BY <1>1 DEF Ran
  <2>7. Paid' = Paid + Cardinality(failed) + (Cardinality(Served') - Cardinality(Served))
    BY <1>2, <1>8, <2>4, <2>6 DEF Paid
  <2>8. Paid \in Int
    BY <2>4 DEF Paid
  <2>9. ASSUME NEW n \in Ready \ {Final}, Promising(n)
        PROVE  Cardinality(failed) >= 1 \/ Cardinality(Served') >= Cardinality(Served) + 1
    <3>1. CASE n \in failed
      <4>1. Cardinality(failed) # 0
        BY <3>1, <1>8
      <4> QED BY <4>1, <1>8
    <3>2. CASE n \notin failed
      <4>1. n \in Succeeded'
        BY <2>9, <3>2, <1>3, <1>4 DEF Succeeded, AgentNodes
      <4>2. node[n].key \in Served' /\ node[n].key \notin Served
        BY <2>9, <4>1, <1>3, <1>4 DEF Served, Promising
      <4>3. Cardinality(Served') # Cardinality(Served)
        BY <4>2, <2>5
      <4> QED BY <4>3, <2>4, <2>5
    <3> QED BY <3>1, <3>2
  <2> QED BY <1>2, <1>8, <2>3, <2>4, <2>5, <2>7, <2>8, <2>9
<1> QED BY <1>9, <1>10, <1>11, <1>12, <1>13

\* Whatever tasks, replies and failures there are: until a node fails for good,
\* every turn is paid for, so the fallback ends (supervisor/heuristic.py:196).
THEOREM TurnsAreAlwaysPaidFor == TurnsSpec => []TurnsArePaidFor
<1>1. TurnsInit => PaidInv
  <2> SUFFICES ASSUME TurnsInit PROVE PaidInv
    OBVIOUS
  <2>1. TurnsInv
    <3>1. IsFiniteSet({Final}) /\ <<>> \in Seq({})
      <4>1. IsFiniteSet({Final})
        BY FS_Singleton
      <4> QED BY <4>1
    <3> QED BY <3>1 DEF TurnsInit, TurnsInv, Says
  <2>2. AgentNodes = {} /\ Failed = {} /\ Served = {} /\ DOMAIN node = {Final}
    BY DEF TurnsInit, AgentNodes, Failed, Served, Succeeded
  <2>3. /\ node[Final] \in NodeRecord /\ node[Final].status = "pending"
        /\ node \in [DOMAIN node -> NodeRecord]
    BY DEF TurnsInit, Fresh, NodeRecord, NodeStatus
  <2>4. TurnsTyped
    <3>1. turn = 0 /\ 0 \in 0 .. MaxTurns
      BY SupervisionAssumption DEF TurnsInit
    <3>2. pc = "turn" /\ replies = 0 /\ failures = 0
      BY DEF TurnsInit
    <3> QED BY <2>2, <2>3, <3>1, <3>2 DEF TurnsTyped
  <2>5. RoundsInv /\ EntriesInv /\ RetryInv /\ SettledInv
    BY <2>2 DEF TurnsInit, RoundsInv, EntriesInv, RetryInv, SettledInv, Range
  <2>6. LedgerInv
    <3>1. Paid = 0
      BY <2>2, FS_EmptySet DEF Paid, TurnsInit
    <3> QED BY <3>1 DEF LedgerInv, TurnsInit
  <2> QED BY <2>1, <2>4, <2>5, <2>6 DEF PaidInv
<1>2. PaidInv /\ [TurnsNext]_turnVars => PaidInv'
  <2> SUFFICES ASSUME PaidInv, [TurnsNext]_turnVars PROVE PaidInv'
    OBVIOUS
  <2>1. TurnsInv'
    BY TurnsPreserve DEF PaidInv
  <2>2. TurnsTyped' /\ RoundsInv' /\ EntriesInv' /\ RetryInv' /\ SettledInv' /\ LedgerInv'
    <3>1. CASE Decide
      BY <3>1, DecidePaid
    <3>2. CASE Delegate
      BY <3>2, DelegatePaid
    <3>3. CASE Reopen
      BY <3>3, ReopenPaid
    <3>4. CASE RunWave
      BY <3>4, WavePaid
    <3>5. CASE \/ RunOutOfTurns \/ Conclude \/ Drain \/ UNCHANGED turnVars
               \/ \E a \in Edited, enabled \in BOOLEAN : CreateAgent(a, enabled)
      BY <3>5, RestPaid
    <3> QED BY <3>1, <3>2, <3>3, <3>4, <3>5 DEF TurnsNext
  <2> QED BY <2>1, <2>2 DEF PaidInv
<1>3. PaidInv => TurnsArePaidFor
  <2> SUFFICES ASSUME PaidInv, \A n \in Failed : ~node[n].barred
               PROVE  turn + Cardinality(Failed)
                         <= replies + 2 * failures + Cardinality(Served) + 1
    BY DEF TurnsArePaidFor
  <2>1. /\ turn \in Nat /\ replies \in Nat /\ failures \in Nat
        /\ Cardinality(Failed) \in Nat /\ Cardinality(Served) \in Nat
    BY LedgerIsFinite DEF PaidInv, TurnsTyped
  <2>2. Paid \in Int
    BY <2>1 DEF Paid
  <2>3. turn <= Paid + 1
    <3>1. turn <= Paid \/ turn <= Paid + 1
      BY DEF PaidInv, LedgerInv, TurnsTyped
    <3> QED BY <2>1, <2>2, <3>1
  <2> QED BY <2>1, <2>3 DEF Paid
<1> QED BY <1>1, <1>2, <1>3, PTL DEF TurnsSpec

-----------------------------------------------------------------------------
(* Remote tools: whatever leaves the pipe to an MCP server late, no caller   *)
(* takes it for its own: the numbers of requests in flight are not given     *)
(* again, and whatever carries one also carries what was asked under it.     *)

USE DEF InFlight

Line == [number : Nat, asks : Question \cup {NoQuestion}, says : {"result", "error", "log", "junk"}]
Written == [number : Nat, asks : Question \cup {NoQuestion}]

PipesTyped ==
    /\ progress \in [Client -> {"idle", "queued", "reading", "ok", "failed"}]
    /\ number \in [Client -> Nat]
    /\ asks \in [Client -> Question \cup {NoQuestion}]
    /\ answer \in [Client -> Question \cup {NoQuestion}]
    /\ next \in Nat \ {0}
    /\ requests \subseteq Written
    /\ lines \in Seq(Line)

\* The registry leads to tools of the server only.
ToolsAreRemote == \A name \in DOMAIN tools : tools[name] \in Remote

\* A number in flight is one that was given, to nobody else.
NumbersAreGiven ==
    /\ \A c \in Client : InFlight(c) => number[c] \in 1..(next - 1)
    /\ \A c, d \in Client : InFlight(c) /\ InFlight(d) /\ number[c] = number[d] => c = d
    /\ \A r \in requests : r.number < next
    /\ \A i \in 1..Len(lines) : lines[i].number < next

\* What is in the pipes under a client's number is about its question.
PipesAgree ==
    /\ \A c \in Client, r \in requests :
          InFlight(c) /\ r.number = number[c] => r.asks = asks[c]
    /\ \A c \in Client, i \in 1..Len(lines) :
          InFlight(c) /\ lines[i].number = number[c] => lines[i].asks = asks[c]

PipesInv == PipesTyped /\ ToolsAreRemote /\ NumbersAreGiven /\ PipesAgree /\ AnswersAreOwn

\* The start has nothing in flight.
LEMMA PipesInit == PipeInit => PipesInv
BY DEF PipeInit, PipesInv, PipesTyped, ToolsAreRemote, NumbersAreGiven, PipesAgree, AnswersAreOwn,
       Client, Line

\* A new request has a number that nothing carries yet (_request).
LEMMA AskPreserves ==
  ASSUME PipesInv, NEW c \in Client, NEW q \in Question, Ask(c, q),
         UNCHANGED <<requests, lines>>, ToolsAreRemote'
  PROVE  PipesInv'
<1>1. PipesTyped'
  BY DEF PipesInv, PipesTyped, Ask
<1>2. NumbersAreGiven'
  <2>1. \A d \in Client : InFlight(d)' => number'[d] \in 1..(next' - 1)
    BY DEF PipesInv, PipesTyped, Ask, NumbersAreGiven
  <2>2. \A d, e \in Client :
          InFlight(d)' /\ InFlight(e)' /\ number'[d] = number'[e] => d = e
    BY DEF PipesInv, PipesTyped, Ask, NumbersAreGiven
  <2>3. \A r \in requests : r.number < next'
    BY DEF PipesInv, PipesTyped, Ask, NumbersAreGiven, Written
  <2>4. \A i \in 1..Len(lines) : lines[i].number < next'
    <3> SUFFICES ASSUME NEW i \in 1..Len(lines)
                 PROVE  lines[i].number < next'
      OBVIOUS
    <3>1. lines[i] \in Line /\ lines[i].number < next
      BY DEF PipesInv, PipesTyped, NumbersAreGiven
    <3> QED
      BY <3>1 DEF PipesInv, PipesTyped, Ask, Line
  <2> QED
    BY <2>1, <2>2, <2>3, <2>4 DEF NumbersAreGiven
<1>3. PipesAgree'
  BY DEF PipesInv, PipesTyped, Ask, NumbersAreGiven, PipesAgree, Written, Line
<1>4. AnswersAreOwn'
  <2> SUFFICES ASSUME NEW d \in Client, progress'[d] = "ok"
               PROVE  answer'[d] = asks'[d]
    BY DEF AnswersAreOwn
  <2>1. d # c /\ progress[d] = "ok"
    BY DEF PipesInv, PipesTyped, Ask
  <2> QED
    BY <2>1 DEF PipesInv, PipesTyped, Ask, AnswersAreOwn
<1> QED
  BY <1>1, <1>2, <1>3, <1>4 DEF PipesInv

\* A request that ends or goes on to reading takes nothing with it.
LEMMA EndsPreserves ==
  ASSUME PipesInv, NEW c \in Client, NEW how \in {"reading", "failed"}, InFlight(c),
         Ends(c, how), UNCHANGED <<answer, tools, requests, lines>>
  PROVE  PipesInv'
<1>1. PipesTyped'
  BY DEF PipesInv, PipesTyped, Ends
<1>2. NumbersAreGiven'
  BY DEF PipesInv, PipesTyped, Ends, NumbersAreGiven
<1>3. PipesAgree'
  BY DEF PipesInv, PipesTyped, Ends, PipesAgree
<1>4. AnswersAreOwn' /\ ToolsAreRemote'
  BY DEF PipesInv, PipesTyped, Ends, AnswersAreOwn, ToolsAreRemote
<1> QED
  BY <1>1, <1>2, <1>3, <1>4 DEF PipesInv

\* Fewer requests and lines are no harm.
LEMMA DropPreserves ==
  ASSUME PipesInv, UNCHANGED <<tools, client, lines>>, requests' \subseteq requests
  PROVE  PipesInv'
BY DEF PipesInv, client, PipesTyped, ToolsAreRemote, NumbersAreGiven, PipesAgree, AnswersAreOwn

\* A line added under a number of the past, about what was asked under it.
LEMMA AppendPreserves ==
  ASSUME PipesInv, UNCHANGED <<tools, client>>, requests' \subseteq requests,
         NEW line \in Line, lines' = Append(lines, line), line.number < next,
         \A c \in Client : InFlight(c) /\ line.number = number[c] => line.asks = asks[c]
  PROVE  PipesInv'
<1>1. /\ Len(lines') = Len(lines) + 1 /\ lines' \in Seq(Line)
      /\ \A i \in 1..Len(lines') :
            lines'[i] = IF i <= Len(lines) THEN lines[i] ELSE line
  BY DEF PipesInv, PipesTyped
<1>2. PipesTyped' /\ ToolsAreRemote' /\ AnswersAreOwn'
  BY <1>1 DEF PipesInv, client, PipesTyped, ToolsAreRemote, AnswersAreOwn
<1>3. NumbersAreGiven'
  BY <1>1 DEF PipesInv, PipesTyped, client, NumbersAreGiven
<1>4. PipesAgree'
  BY <1>1 DEF PipesInv, PipesTyped, client, PipesAgree
<1> QED
  BY <1>2, <1>3, <1>4 DEF PipesInv

\* A line read is the reader's own or is passed over (_read_matching).
LEMMA ReadPreserves ==
  ASSUME PipesInv, NEW c \in Client, Read(c)
  PROVE  PipesInv'
<1> DEFINE line == Head(lines)
           outcome == Outcome(c, line)
<1>1. /\ line = lines[1] /\ line \in Line /\ 1 \in 1..Len(lines)
      /\ Len(lines') = Len(lines) - 1 /\ lines' \in Seq(Line)
      /\ \A i \in 1..Len(lines') : lines'[i] = lines[i + 1] /\ i + 1 \in 1..Len(lines)
  BY DEF PipesInv, PipesTyped, Read
<1>2. outcome \in {"reading", "ok", "failed"}
  BY DEF Outcome
<1>3. outcome = "ok" => line.asks = asks[c]
  BY <1>1 DEF Outcome, Matches, Read, PipesInv, PipesAgree
<1>4. PipesTyped' /\ ToolsAreRemote'
  BY <1>1, <1>2, <1>3 DEF PipesInv, PipesTyped, Read, Ends, ToolsAreRemote, Line
<1>5. NumbersAreGiven'
  BY <1>1, <1>2 DEF PipesInv, PipesTyped, Read, Ends, NumbersAreGiven
<1>6. PipesAgree'
  BY <1>1, <1>2 DEF PipesInv, PipesTyped, Read, Ends, PipesAgree
<1>7. AnswersAreOwn'
  BY <1>2, <1>3 DEF PipesInv, PipesTyped, Read, Ends, AnswersAreOwn
<1> QED
  BY <1>4, <1>5, <1>6, <1>7 DEF PipesInv

\* Every step of a client, of the application and of the server.
LEMMA PipesNext ==
  ASSUME PipesInv, [PipeNext]_pipeVars
  PROVE  PipesInv'
<1> USE DEF Client
<1>1. CASE Start
  BY <1>1, AskPreserves DEF Start, Question, PipesInv, ToolsAreRemote
<1>2. CASE List
  BY <1>2, AskPreserves DEF List, pipes, Question, PipesInv, ToolsAreRemote
<1>3. CASE StartupFails
  BY <1>3, DropPreserves DEF StartupFails, pipes
<1>4. CASE Close
  BY <1>4, DropPreserves DEF Close
<1>5. ASSUME NEW listed \in SUBSET Remote, Discover(listed)
      PROVE  PipesInv'
  <2>1. ToolsAreRemote'
    BY <1>5 DEF Discover, PipesInv, ToolsAreRemote
  <2>2. PipesTyped' /\ NumbersAreGiven' /\ PipesAgree' /\ AnswersAreOwn'
    BY <1>5 DEF Discover, PipesInv, client, pipes, PipesTyped, NumbersAreGiven, PipesAgree,
                AnswersAreOwn
  <2> QED
    BY <2>1, <2>2 DEF PipesInv
<1>6. ASSUME NEW c \in Client, Write(c)
      PROVE  PipesInv'
  <2>1. CASE Ends(c, "failed") /\ UNCHANGED requests
    BY <1>6, <2>1, EndsPreserves DEF Write
  <2>2. CASE /\ Ends(c, "reading")
             /\ requests' = IF server = "up"
                  THEN requests \cup {[number |-> number[c], asks |-> asks[c]]}
                  ELSE requests
    <3>1. PipesTyped' /\ ToolsAreRemote'
      BY <1>6, <2>2 DEF Write, Ends, PipesInv, PipesTyped, Written, ToolsAreRemote
    <3>2. NumbersAreGiven'
      BY <1>6, <2>2 DEF Write, Ends, PipesInv, PipesTyped, NumbersAreGiven
    <3>3. PipesAgree'
      BY <1>6, <2>2 DEF Write, Ends, PipesInv, PipesTyped, NumbersAreGiven, PipesAgree
    <3>4. AnswersAreOwn'
      BY <1>6, <2>2 DEF Write, Ends, PipesInv, PipesTyped, AnswersAreOwn
    <3> QED
      BY <3>1, <3>2, <3>3, <3>4 DEF PipesInv
  <2> QED
    BY <1>6, <2>1, <2>2 DEF Write
<1>7. ASSUME NEW c \in Client, Read(c)
      PROVE  PipesInv'
  BY <1>7, ReadPreserves
<1>8. ASSUME NEW c \in Client, Unanswered(c)
      PROVE  PipesInv'
  BY <1>8, EndsPreserves DEF Unanswered, pipes
<1>9. ASSUME NEW c \in Caller, Leave(c)
      PROVE  PipesInv'
  BY <1>9, EndsPreserves DEF Leave, pipes
<1>10. ASSUME NEW c \in Caller, NEW name \in DOMAIN tools, NEW a \in Argument,
              Call(c, name, a)
       PROVE  PipesInv'
  BY <1>10, AskPreserves DEF Call, pipes, Question, PipesInv, ToolsAreRemote
<1>11. ASSUME NEW r \in requests, Serve(r)
       PROVE  PipesInv'
  <2>1. PICK says \in {"result", "error"} :
          lines' = Append(lines, [number |-> r.number, asks |-> r.asks, says |-> says])
    BY <1>11 DEF Serve
  <2> DEFINE line == [number |-> r.number, asks |-> r.asks, says |-> says]
  <2>2. line \in Line /\ line.number < next
    BY DEF PipesInv, PipesTyped, Written, Line, NumbersAreGiven
  <2>3. \A c \in Client : InFlight(c) /\ line.number = number[c] => line.asks = asks[c]
    BY DEF PipesInv, PipesAgree
  <2>4. UNCHANGED <<tools, client>> /\ requests' \subseteq requests
    BY <1>11 DEF Serve
  <2> HIDE DEF line
  <2>5. lines' = Append(lines, line)
    BY <2>1 DEF line
  <2> QED
    BY <2>2, <2>3, <2>4, <2>5, AppendPreserves
<1>12. CASE Stray
  <2>1. PICK says \in {"log", "junk"} :
          lines' = Append(lines, [number |-> 0, asks |-> NoQuestion, says |-> says])
    BY <1>12 DEF Stray
  <2> DEFINE line == [number |-> 0, asks |-> NoQuestion, says |-> says]
  <2>2. line \in Line /\ line.number < next
    BY DEF PipesInv, PipesTyped, Line
  <2>3. \A c \in Client : InFlight(c) /\ line.number = number[c] => line.asks = asks[c]
    BY DEF PipesInv, NumbersAreGiven
  <2>4. UNCHANGED <<tools, client>> /\ requests' \subseteq requests
    BY <1>12 DEF Stray
  <2> HIDE DEF line
  <2>5. lines' = Append(lines, line)
    BY <2>1 DEF line
  <2> QED
    BY <2>2, <2>3, <2>4, <2>5, AppendPreserves
<1>13. CASE Die
  BY <1>13, DropPreserves DEF Die
<1>14. CASE UNCHANGED pipeVars
  BY <1>14, DropPreserves DEF pipeVars, client, pipes
<1> QED
  BY <1>1, <1>2, <1>3, <1>4, <1>5, <1>6, <1>7, <1>8, <1>9, <1>10, <1>11, <1>12, <1>13,
     <1>14 DEF PipeNext

\* For any number of callers, tools and requests: a call that succeeds has the
\* answer to what it asked (tools/mcp.py:193).
THEOREM AnswersStayOwn == PipeSpec => []AnswersAreOwn
<1>1. PipesInv /\ [PipeNext]_pipeVars => PipesInv'
  BY PipesNext
<1>2. PipesInv => AnswersAreOwn
  BY DEF PipesInv
<1> QED
  BY PipesInit, <1>1, <1>2, PTL DEF PipeSpec
=============================================================================
