---------------------------- MODULE ReferenceAgents ----------------------------
(***************************************************************************)
(* The agent definitions and the model catalogue the program ships with    *)
(* (agents/definitions.py, models/catalog.py), as the decisions about them *)
(* see them: what an agent is good at, which models it asks for, and what  *)
(* a model can do and costs.  Prompts, tools and limits of agents are left *)
(* out, and of the keywords those stay that some word of Word matches.     *)
(***************************************************************************)
EXTENDS Naturals, Sequences

\* Words of a task.  A keyword matches a word if either begins with the other,
\* which is why "report" is a word for the code agent ("repo").
Word == {"search", "sources", "summary", "price", "feature", "chart", "table",
         "quality", "test", "report", "compare"}

Capability == {"chat", "structured_output", "tool_use", "long_context",
               "reasoning", "fast", "cheap", "local", "vision", "embedding"}

\* AgentCapability: the words it matches, and a proficiency in hundredths.
Skill == [words : SUBSET Word, proficiency : 0 .. 100]

Preference == {"balanced", "cheapest", "fastest", "most_capable"}

AgentKind == {"generic", "research", "data", "code", "analyst", "critic", "finalizer"}

\* AgentDefinition.
AgentDefinition ==
    [kind : AgentKind, skills : Seq(Skill), required : SUBSET Capability,
     prefer : Preference, enabled : BOOLEAN]

Good(words, proficiency) == [words |-> words, proficiency |-> proficiency]

-----------------------------------------------------------------------------
(* The reference agents, which are numbered in the order of their ids.      *)

Research ==
    [kind |-> "research",
     skills |-> <<Good({"search", "sources"}, 90), Good({"sources"}, 85),
                  Good({"summary"}, 80)>>,
     required |-> {"chat", "tool_use"}, prefer |-> "balanced", enabled |-> TRUE]

\* _research_variant: the research agent with a focus before its own skills.
Focused(words) == [Research EXCEPT !.skills = <<Good(words, 90)>> \o @]

Pricing == Focused({"price"})
Feature == Focused({"feature"})

Data ==
    [kind |-> "data",
     skills |-> <<Good({"quality"}, 85), Good({"table"}, 90), Good({"chart"}, 75)>>,
     required |-> {"chat", "tool_use", "reasoning"}, prefer |-> "balanced",
     enabled |-> TRUE]

Code ==
    [kind |-> "code",
     skills |-> <<Good({"sources", "report"}, 85), Good({"search"}, 85),
                  Good({"test"}, 80)>>,
     required |-> {"chat", "tool_use", "reasoning"}, prefer |-> "most_capable",
     enabled |-> TRUE]

Analyst ==
    [kind |-> "analyst", skills |-> <<Good({"compare"}, 90)>>,
     required |-> {"chat", "reasoning"}, prefer |-> "most_capable", enabled |-> TRUE]

Critic ==
    [kind |-> "critic", skills |-> <<Good({"quality"}, 85)>>,
     required |-> {"chat", "reasoning"}, prefer |-> "most_capable", enabled |-> TRUE]

Finalizer ==
    [kind |-> "finalizer",
     skills |-> <<Good({"summary", "report"}, 90), Good({"table"}, 85)>>,
     required |-> {"chat", "reasoning"}, prefer |-> "most_capable", enabled |-> TRUE]

\* REFERENCE_AGENTS, by id.
ReferenceAgent ==
    <<Analyst, Code, Critic, Data, Feature, Finalizer, Pricing, Research>>

-----------------------------------------------------------------------------
(* The catalogue, by key.  Sizes are in thousands of tokens, prices in      *)
(* hundredths of a dollar per million tokens.                               *)

\* ModelConfig.
Model(provider, context, output, in, out, latency, capabilities) ==
    [provider |-> provider, context |-> context, output |-> output,
     input |-> in, completion |-> out, latency |-> latency,
     capabilities |-> capabilities]

Talks == {"chat", "structured_output", "tool_use"}

MockModels ==
    <<Model("mock", 8, 1, 0, 0, "fast", {"embedding"}),
      Model("mock", 128, 4, 0, 0, "fast", Talks \cup {"fast", "cheap"}),
      Model("mock", 200, 8, 0, 0, "standard", Talks \cup {"reasoning", "long_context"})>>

AnthropicModels ==
    <<Model("anthropic", 200, 8, 100, 500, "fast",
            Talks \cup {"fast", "cheap", "long_context"}),
      Model("anthropic", 200, 32, 500, 2500, "standard",
            Talks \cup {"reasoning", "long_context", "vision"}),
      Model("anthropic", 200, 16, 300, 1500, "standard",
            Talks \cup {"reasoning", "long_context", "vision"})>>

GeminiModels ==
    <<Model("gemini", 1000, 8, 30, 250, "fast",
            Talks \cup {"fast", "cheap", "long_context", "vision"}),
      Model("gemini", 1000, 16, 125, 1000, "standard",
            Talks \cup {"reasoning", "long_context", "vision"})>>

OpenAIModels ==
    <<Model("openai", 128, 16, 250, 1000, "standard", Talks \cup {"reasoning", "vision"}),
      Model("openai", 128, 16, 15, 60, "fast", Talks \cup {"fast", "cheap"})>>

GroqModel ==
    Model("groq", 131, 32, 15, 75, "fast", Talks \cup {"reasoning", "fast", "cheap"})

LocalModels ==
    <<Model("ollama", 128, 4, 0, 0, "slow", Talks \cup {"local", "cheap"}),
      Model("ollama", 32, 4, 0, 0, "slow", Talks \cup {"local", "reasoning"})>>

EmbeddingModel == Model("openai", 8, 1, 2, 0, "standard", {"embedding", "cheap"})

\* ALL_MODELS in the order of their keys, by which the router breaks its ties.
Catalogue ==
    AnthropicModels \o GeminiModels \o OpenAIModels \o <<GroqModel>>
    \o <<LocalModels[1]>> \o MockModels \o <<LocalModels[2], EmbeddingModel>>
==============================================================================
