------------------------------ MODULE Conditions ------------------------------
(***************************************************************************)
(* The conditions of edges (workflow/conditions.py): a path is looked up   *)
(* in a context, what it leads to is compared in every way the operators   *)
(* allow, and the answers are combined in groups.                          *)
(*                                                                         *)
(* A JSON value is a pair of its kind and its content.  A string is a      *)
(* sequence of character codes, of which 0 to 9 are the digits; numbers    *)
(* are below ten, so that each is one digit.  Templates, which use the     *)
(* same lookup, only make prompts.                                         *)
(***************************************************************************)
EXTENDS Integers, SequencesExt

CONSTANTS
    Value,          \* the JSON values that occur
    Context,        \* the contexts: values of kind "dict"
    Path,           \* the paths, split into segments: sequences of strings
    Expected,       \* the values a condition compares with
    MaxPathDepth    \* MAX_PATH_DEPTH

Minus == 10
Quoted == 11
Text == Seq(0 .. 15)

ASSUME ConditionsAssumption ==
    /\ \A v \in Value :
          /\ v = <<v[1], v[2]>>
          /\ \/ v[1] = "null"
             \/ v[1] = "bool" /\ v[2] \in BOOLEAN
             \/ v[1] = "num" /\ v[2] \in 0 .. 9
             \/ v[1] = "str" /\ v[2] \in Text
             \/ v[1] = "list" /\ v[2] \in Seq(Value)
             \/ v[1] = "dict" /\ DOMAIN v[2] \subseteq Text
                              /\ \A s \in DOMAIN v[2] : v[2][s] \in Value
    /\ Context \subseteq {v \in Value : v[1] = "dict"} /\ Expected \subseteq Value
    /\ Path \subseteq Seq(Text) /\ MaxPathDepth \in Nat

VARIABLES
    context, path, expected,
    holds           \* the answer to the condition with each operator

edgeVars == <<context, path, expected, holds>>

Missing == <<"missing", 0>>
Failure == <<"raises", 0>>

Operator == {"exists", "not_exists", "truthy", "falsy", "eq", "ne", "lt", "lte",
             "gt", "gte", "in", "not_in", "contains"}

Bool(b) == IF b THEN "yes" ELSE "no"
Not(answer) == CASE answer = "yes" -> "no" [] answer = "no" -> "yes"
                 [] answer = "raises" -> "raises"

-----------------------------------------------------------------------------
(* The lookup.                                                              *)

\* segment.lstrip("-").isdigit(), and what int makes of the segment, which
\* accepts one sign only.
LooksLikeIndex(s) == s # <<>> /\ Last(s) \in 0 .. 9 /\ \A c \in Range(Front(s)) : c = Minus
IsIndex(s) == LooksLikeIndex(s) /\ Len(s) <= 2
Index(s) == IF Len(s) = 2 THEN -s[2] ELSE s[1]

\* One segment: a key of a mapping, or an index of a list, which may count
\* from the end.
Enter(value, s) ==
    LET n == Len(value[2])
    IN  CASE value[1] = "dict" /\ s \in DOMAIN value[2] -> value[2][s]
          [] value[1] = "list" /\ IsIndex(s) /\ -n <= Index(s) /\ Index(s) < n ->
                value[2][IF Index(s) < 0 THEN n + Index(s) + 1 ELSE Index(s) + 1]
          [] value[1] = "list" /\ LooksLikeIndex(s) /\ ~IsIndex(s) -> Failure
          [] value = Failure -> Failure
          [] OTHER -> Missing

\* resolve_path.
ResolvePath(c, p) ==
    LET At[i \in 0 .. Len(p)] == IF i = 0 THEN c ELSE Enter(At[i - 1], p[i])
    IN  IF p = <<>> \/ Len(p) > MaxPathDepth THEN Missing ELSE At[Len(p)]

-----------------------------------------------------------------------------
(* The comparisons.                                                         *)

IsNumber(v) == v[1] = "num"
IsEmpty(v) ==
    \/ v[1] = "null"
    \/ v[1] = "bool" /\ ~v[2]
    \/ v[1] = "num" /\ v[2] = 0
    \/ v[1] \in {"str", "list"} /\ v[2] = <<>>
    \/ v[1] = "dict" /\ DOMAIN v[2] = {}

\* A boolean is a number to Python.
AsNumber(v) == IF v[1] = "bool" THEN <<"num", IF v[2] THEN 1 ELSE 0>> ELSE v

\* _loose_equal; its docstring sets True and 1 apart, == does not.
LooseEqual(v, u) == AsNumber(v) = AsNumber(u)

TextBefore(s, t) ==
    \/ IsStrictPrefix(s, t)
    \/ \E i \in DOMAIN s \cap DOMAIN t :
          /\ s[i] < t[i]
          /\ \A j \in 1 .. i - 1 : s[j] = t[j]

Comparable(v, u) == v[1] = u[1] /\ v[1] \in {"num", "str"}

\* _compare with "lt" and with "lte".
Less(v, u) ==
    /\ Comparable(v, u)
    /\ IF IsNumber(v) THEN v[2] < u[2] ELSE TextBefore(v[2], u[2])
\* Mutant of LessOrEqual: equal values are left out.
LessOnly(v, u) == Less(v, u)

LessOrEqual(v, u) == Less(v, u) \/ (Comparable(v, u) /\ v = u)

\* str(item): of what is not a string or a number only that it is neither.
Rendered(v) ==
    CASE v[1] = "str" -> v[2] [] v[1] = "num" -> <<v[2]>> [] OTHER -> <<Quoted>>

\* _contains: a list or a mapping has no hash to look it up by.
Membership(container, item) ==
    CASE container[1] = "str" ->
            Bool(\E i \in 0 .. Len(container[2]) :
                    IsPrefix(Rendered(item), SubSeq(container[2], i + 1, Len(container[2]))))
      [] container[1] = "dict" ->
            IF item[1] \in {"list", "dict"} THEN "raises"
            ELSE Bool(item[1] = "str" /\ item[2] \in DOMAIN container[2])
      [] container[1] = "list" ->
            Bool(\E i \in DOMAIN container[2] : LooseEqual(container[2][i], item))
      [] OTHER -> "no"

\* evaluate_condition for a value that is there.
Compared(op, v, u) ==
    CASE op = "eq" -> Bool(LooseEqual(v, u))
      [] op = "ne" -> Bool(~LooseEqual(v, u))
      [] op = "lt" -> Bool(Less(v, u))
      [] op = "lte" -> Bool(LessOrEqual(v, u))
      [] op = "gt" -> Bool(Less(u, v))
      [] op = "gte" -> Bool(LessOrEqual(u, v))
      [] op = "in" -> Membership(u, v)
      [] op = "not_in" -> Not(Membership(u, v))
      [] op = "contains" -> Membership(v, u)

\* evaluate_condition.
EvaluateCondition(op, v, u) ==
    IF v = Failure THEN "raises"
    ELSE CASE op = "exists" -> Bool(v # Missing)
           [] op = "not_exists" -> Bool(v = Missing)
           [] op = "truthy" -> Bool(v # Missing /\ ~IsEmpty(v))
           [] op = "falsy" -> Bool(v = Missing \/ IsEmpty(v))
           [] OTHER -> IF v = Missing THEN "no" ELSE Compared(op, v, u)

\* evaluate_group: conditions are evaluated until one settles the group.
EvaluateGroup(mode, answers) ==
    LET goesOn == IF mode = "all" THEN "yes" ELSE "no"
        settling == {i \in DOMAIN answers : answers[i] # goesOn}
    IN  CASE answers = <<>> -> "yes"
          [] answers # <<>> /\ settling = {} -> goesOn
          [] settling # {} -> answers[Min(settling)]

-----------------------------------------------------------------------------
Unasked == [op \in Operator |-> "no"]

EdgesInit ==
    /\ context \in Context /\ path \in Path /\ expected \in Expected
    /\ holds = Unasked

\* The edges out of a node, one for every operator, are looked at.
Evaluate ==
    /\ holds' = [op \in Operator |->
                    EvaluateCondition(op, ResolvePath(context, path), expected)]
    /\ UNCHANGED <<context, path, expected>>

\* The work goes on and the context is another one: every scheduling step asks
\* again (_active_edge_ids).
Proceed ==
    /\ context' \in Context
    /\ holds' = Unasked
    /\ UNCHANGED <<path, expected>>

EdgesNext == Evaluate \/ Proceed

EdgesSpec == EdgesInit /\ [][EdgesNext]_edgeVars

-----------------------------------------------------------------------------

Opposite == [exists |-> "not_exists", truthy |-> "falsy", eq |-> "ne",
             lt |-> "gte", lte |-> "gt", in |-> "not_in"]

\* Two edges out of a node with opposite conditions: the branches never both
\* run, and one does unless the value is missing or has no order with the
\* expected one ("the branch simply not being taken"); where an evaluation
\* raises, both do, so that no branch runs by chance of their order.
BranchesPartition ==
    holds # Unasked =>
      LET v == ResolvePath(context, path)
      IN  \A op \in DOMAIN Opposite :
            LET pair == <<holds[op], holds[Opposite[op]]>>
            IN  /\ EvaluateGroup("all", pair) # "yes"
                /\ EvaluateGroup("any", pair) = "no" =>
                      /\ op \notin {"exists", "truthy"}
                      /\ \/ v = Missing
                         \/ op \in {"lt", "lte"} /\ ~Comparable(v, expected)
                /\ (pair[1] = "raises") = (pair[2] = "raises")
==============================================================================
