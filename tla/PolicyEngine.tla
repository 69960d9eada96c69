---------------------------- MODULE PolicyEngine ----------------------------
(***************************************************************************)
(* The authorisation of one tool call: policies/engine.py over the tool    *)
(* registry and the permissions of an agent.  The engine keeps one thing,  *)
(* the tally of calls, which its caller owns here.                         *)
(*                                                                         *)
(* A call is a tool with its arguments; Fits is the set of calls whose     *)
(* arguments satisfy the constraints of a permission entry.                *)
(***************************************************************************)
EXTENDS Naturals

CONSTANTS Agent,
          Tool,           \* every name a model may ask for, known or not
          Call,
          ToolOf,         \* the tool a call is addressed to
          ToolSpec,       \* the registered tools, a subset of Tool
          ApprovalRisks,  \* risk levels that are put to a human
          Rules           \* the rules of the deployment

Effect == {"allow", "deny", "require_approval"}
RiskLevel == 0..4         \* safe, low, medium, high, critical
NoLimit == 0

ToolEntry == [enabled : BOOLEAN, risk : RiskLevel, requiresApproval : BOOLEAN,
          attempts : Nat \ {0}]
Permission == [effect : Effect, maxCalls : Nat, fits : SUBSET Call]
IsAllowlist(list) ==
  DOMAIN list \subseteq Tool /\ list \in [DOMAIN list -> Permission]
Rule == [effect : Effect, tools : SUBSET Tool, agents : SUBSET Agent,
         minRisk : RiskLevel]

ASSUME PolicyAssumption ==
  /\ ToolOf \in [Call -> Tool]
  /\ DOMAIN ToolSpec \subseteq Tool
  /\ ToolSpec \in [DOMAIN ToolSpec -> ToolEntry]
  /\ Rules \subseteq Rule

-----------------------------------------------------------------------------
(* The layers, in the order of the code. *)

Unusable(t) == t \notin DOMAIN ToolSpec \/ ~ToolSpec[t].enabled

Unlisted(list, t) == t \notin DOMAIN list

\* Mutant of CeilingReached: off by one.
CeilingPassed(permission, used) ==
  permission.maxCalls # NoLimit /\ used > permission.maxCalls

CeilingReached(permission, used) ==
  permission.maxCalls # NoLimit /\ used >= permission.maxCalls

Refused(permission, c, used) ==
  \/ permission.effect = "deny"
  \/ CeilingReached(permission, used)
  \/ c \notin permission.fits

AppliesTo(rule, a, t) ==
  t \in rule.tools /\ a \in rule.agents /\ ToolSpec[t].risk >= rule.minRisk

RuledOut(rules, a, t) ==
  \E rule \in rules : AppliesTo(rule, a, t) /\ rule.effect = "deny"

Escalated(rules, permission, a, t) ==
  \/ permission.effect = "require_approval"
  \/ ToolSpec[t].requiresApproval
  \/ ToolSpec[t].risk \in ApprovalRisks
  \/ \E rule \in rules :
        AppliesTo(rule, a, t) /\ rule.effect = "require_approval"

EvaluateUnder(rules, list, a, c, used) ==
  LET t == ToolOf[c] IN
  IF Unusable(t) THEN "deny"
  ELSE IF Unlisted(list, t) THEN "deny"
  ELSE IF Refused(list[t], c, used) THEN "deny"
  ELSE IF RuledOut(rules, a, t) THEN "deny"
  ELSE IF Escalated(rules, list[t], a, t) THEN "require_approval"
  ELSE "allow"

Evaluate(list, a, c, used) == EvaluateUnder(Rules, list, a, c, used)

\* How much of the call an effect leaves to the agent alone.
Strictness(effect) ==
  IF effect = "deny" THEN 2 ELSE IF effect = "require_approval" THEN 1 ELSE 0
=============================================================================
