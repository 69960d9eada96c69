--------------------------- MODULE MCAgentRuntime ---------------------------
(***************************************************************************)
(* Two runs of one agent in one execution.  Its tools: a search that may   *)
(* be called once and is retried, a mail that a human approves; the agent  *)
(* may be registered anew without the mail.                                *)
(***************************************************************************)
EXTENDS AgentRuntime, TLC

CONSTANTS r1, r2, e, agent, search, mail, find, write

MCRun == {r1, r2}
MCOf == [r \in MCRun |-> e]
MCDrives == [r \in MCRun |-> agent]
MCCall == {find, write}
MCToolOf == (find :> search) @@ (write :> mail)
MCToolSpec ==
  (search :> [enabled |-> TRUE, risk |-> 0, requiresApproval |-> FALSE, attempts |-> 2])
  @@ (mail :> [enabled |-> TRUE, risk |-> 3, requiresApproval |-> TRUE, attempts |-> 1])
Searching == [effect |-> "allow", maxCalls |-> 1, fits |-> MCCall]
Mailing == [effect |-> "allow", maxCalls |-> NoLimit, fits |-> MCCall]
MCLists == {(search :> Searching) @@ (mail :> Mailing), (search :> Searching)}
MCRules == {[effect |-> "require_approval", tools |-> {search, mail},
             agents |-> {agent}, minRisk |-> 4]}
MCReplies == {<<find, write>>}
=============================================================================
