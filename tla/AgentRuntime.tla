---------------------------- MODULE AgentRuntime ----------------------------
(***************************************************************************)
(* The turn loop of an agent (agents/runtime.py) under the node that runs  *)
(* it (workflow/executor.py), with the authoriser the runner wires to it   *)
(* (api/runner.py, policies/approvals.py) and the meter that is asked      *)
(* before model and tool calls and charged when the agent is done.         *)
(*                                                                         *)
(* A run is one agent node of an execution.  The calls of one reply sit in *)
(* numbered slots; a slot goes                                             *)
(*   asked -> denied | gated | allowed                                     *)
(*   allowed -> queued -> running -> ok | failed | backoff (-> queued)     *)
(* and gather waits for all of them.                                       *)
(***************************************************************************)
EXTENDS PolicyEngine, FiniteSets

CONSTANTS Run, Execution,
          Of,             \* the execution a run belongs to
          Drives,         \* the agent a run drives
          Lists,          \* the allowlists an agent may be registered with
          Width,          \* tool calls in one reply
          Replies,        \* what the model may ask for in one reply
          MaxIterations,  \* of the agent's loop
          MaxAttempts,    \* of the node
          MaxTools,       \* permits of the tool semaphore
          ToolLimit,      \* the budget's ceiling on tool calls
          MaxResumes, MaxEdits

Slot == 1..Width
None == "none"

ASSUME RuntimeAssumption ==
  /\ IsFiniteSet(Run)
  /\ Of \in [Run -> Execution] /\ Drives \in [Run -> Agent]
  /\ Lists # {} /\ \A list \in Lists : IsAllowlist(list)
  /\ Replies \subseteq [Slot -> Call \cup {None}]
  /\ \A b \in Replies : \E s \in Slot : b[s] # None
  /\ Width \in Nat \ {0} /\ MaxTools \in Nat \ {0}
  /\ MaxIterations \in Nat \ {0} /\ MaxAttempts \in Nat \ {0}
  /\ ToolLimit \in Nat /\ MaxResumes \in Nat /\ MaxEdits \in Nat
  /\ None \notin Call

VARIABLES pc, attempt, iteration,
          asked,     \* the calls of the reply at hand
          stage,     \* where each of them is
          tries,     \* how often its tool was invoked
          tally,     \* tool results collected by this invocation
          definition, \* the allowlist the run began with
          awaits,    \* the call a suspended run waits for
          registered, \* the allowlist of each agent in the registry
          counts,    \* the policy engine's tally, one per process
          request,   \* the approvals table: state, and the arguments decided
          used,      \* tool calls charged to each execution
          resumes, edits,
          performed, \* history: the calls each run has had performed
          invoked    \* history: calls begun, by agent and tool

run == <<pc, attempt, iteration, asked, stage, tries, tally, definition,
         awaits>>
shared == <<registered, counts, request, used>>
history == <<resumes, edits, performed, invoked>>
vars == <<run, shared, history>>

Place == {"idle", "think", "authorise", "execute", "recording",
          "waiting", "succeeded", "failed", "overspent", "stopped"}
Stage == {None, "asked", "denied", "gated", "allowed", "queued", "running",
          "backoff", "ok", "failed"}
Answer == {"absent", "pending", "approved", "rejected"}
Working == {"think", "authorise", "execute", "recording"}
Key == Execution \X Call      \* approval_key leaves out agent and node

NoCalls == [s \in Slot |-> None]
Untried == [s \in Slot |-> 0]

Init ==
  /\ pc = [r \in Run |-> "idle"]
  /\ attempt = [r \in Run |-> 0]
  /\ iteration = [r \in Run |-> 0]
  /\ asked = [r \in Run |-> NoCalls]
  /\ stage = [r \in Run |-> NoCalls]
  /\ tries = [r \in Run |-> Untried]
  /\ tally = [r \in Run |-> 0]
  /\ registered \in [Agent -> Lists]
  /\ definition = [r \in Run |-> registered[Drives[r]]]
  /\ counts = [k \in Agent \X Tool |-> 0]
  /\ request = [k \in Key |-> [state |-> "absent", uses |-> k[2]]]
  /\ used = [e \in Execution |-> 0]
  /\ resumes = 0 /\ edits = 0
  /\ awaits = [r \in Run |-> None]
  /\ performed = {}
  /\ invoked = [k \in Agent \X Tool |-> 0]

-----------------------------------------------------------------------------
Exhausted(e) == used[e] > ToolLimit

CallTool(r, s) == ToolOf[asked[r][s]]
CallKey(r, s) == <<Of[r], asked[r][s]>>

NoReply(r) ==
  /\ asked' = [asked EXCEPT ![r] = NoCalls]
  /\ stage' = [stage EXCEPT ![r] = NoCalls]
  /\ tries' = [tries EXCEPT ![r] = Untried]

Clear(r) ==
  /\ NoReply(r)
  /\ tally' = [tally EXCEPT ![r] = 0]
  /\ iteration' = [iteration EXCEPT ![r] = 0]

\* The end of an invocation, and of what it had collected.
Leave(r, place) ==
  /\ pc' = [pc EXCEPT ![r] = place]
  /\ Clear(r)
  /\ UNCHANGED <<attempt, definition, awaits>>

\* The executor's handler of an exception: nothing is charged; retry, after a
\* backoff, or fail the node.
Raise(r, retryable) ==
  Leave(r, IF retryable /\ attempt[r] < MaxAttempts THEN "idle" ELSE "failed")

\* Mutant of Charge: the last charge replaces the others.
ChargeLast(r) == used' = [used EXCEPT ![Of[r]] = tally[r]]

\* An invocation that returned is charged, whether it has an output or not.
Charge(r) == used' = [used EXCEPT ![Of[r]] = @ + tally[r]]

\* _execute_node and _run_agent_node up to the first iteration.
Dispatch(r) ==
  /\ pc[r] = "idle"
  /\ IF Exhausted(Of[r])
     THEN /\ pc' = [pc EXCEPT ![r] = "stopped"]
          /\ UNCHANGED <<attempt, definition>>
     ELSE /\ pc' = [pc EXCEPT ![r] = "think"]
          /\ attempt' = [attempt EXCEPT ![r] = @ + 1]
          /\ definition' = [definition EXCEPT ![r] = registered[Drives[r]]]
  /\ UNCHANGED <<iteration, asked, stage, tries, tally, awaits, shared,
                 history>>

\* The budget stops the agent: a failed invocation is returned, recorded and
\* charged, and the executor turns it into an error that allows no retry.
StopOnBudget(r) ==
  /\ pc[r] = "think" /\ Exhausted(Of[r])
  /\ Leave(r, "overspent") /\ Charge(r)
  /\ UNCHANGED <<registered, counts, request, history>>

\* The model asks for tools, while there are iterations left.
AskTools(r, b) ==
  /\ pc[r] = "think" /\ ~Exhausted(Of[r])
  /\ iteration[r] < MaxIterations
  /\ iteration' = [iteration EXCEPT ![r] = @ + 1]
  /\ asked' = [asked EXCEPT ![r] = b]
  /\ stage' = [stage EXCEPT ![r] =
                 [s \in Slot |-> IF b[s] = None THEN None ELSE "asked"]]
  /\ tries' = [tries EXCEPT ![r] = Untried]
  /\ pc' = [pc EXCEPT ![r] = "authorise"]
  /\ UNCHANGED <<attempt, tally, definition, awaits, shared, history>>

\* It answers, of itself or because tools are withheld; whatever it says is
\* made into an output.
Reply(r) ==
  /\ pc[r] = "think" /\ ~Exhausted(Of[r])
  /\ pc' = [pc EXCEPT ![r] = "recording"]
  /\ UNCHANGED <<attempt, iteration, asked, stage, tries, tally, definition,
                 awaits, shared, history>>

\* The invocation is written to the audit trail before it is charged.
Record(r) ==
  /\ pc[r] = "recording"
  /\ Leave(r, "succeeded") /\ Charge(r)
  /\ UNCHANGED <<registered, counts, request, history>>

\* The provider fails, a transaction fails (an audit record's too), or the
\* node's deadline passes: at any await, whatever the tools were doing.
Fail(r, retryable) ==
  /\ pc[r] \in Working
  /\ Raise(r, retryable)
  /\ UNCHANGED <<shared, history>>

-----------------------------------------------------------------------------
(* Authorisation: every call of the reply, in order, before any runs. *)

IsNext(r, s) ==
  /\ stage[r][s] = "asked"
  /\ \A t \in Slot : t < s => stage[r][t] # "asked"

Decided(r, s, verdict) ==
  /\ stage' = [stage EXCEPT ![r][s] = verdict]
  /\ pc' = [pc EXCEPT ![r] = IF \E t \in Slot : t > s /\ stage[r][t] = "asked"
                             THEN "authorise" ELSE "execute"]

\* Mutants of Opened and Ruling: the request is not written; no answer is taken
\* for consent.
Unwritten(k) == request

Lenient(k) == IF request[k].state = "rejected" THEN "denied" ELSE "allowed"

\* ApprovalService.resolve, and what tool_authoriser makes of its answer.
Opened(k) ==
  [request EXCEPT ![k].state = IF @ = "absent" THEN "pending" ELSE @]

Ruling(k) ==
  CASE request[k].state = "approved" -> "allowed"
    [] request[k].state = "rejected" -> "denied"
    [] OTHER -> "gated"

\* Only a call the policy allows by itself is counted.
Authorise(r, s) ==
  LET a == Drives[r]
      k == CallKey(r, s)
      policy == Evaluate(registered[a], a, asked[r][s],
                         counts[<<a, CallTool(r, s)>>])
  IN /\ pc[r] = "authorise" /\ IsNext(r, s)
     /\ \/ /\ policy = "allow"
           /\ counts' = [counts EXCEPT ![<<a, CallTool(r, s)>>] = @ + 1]
           /\ Decided(r, s, "allowed")
           /\ UNCHANGED request
        \/ /\ policy = "deny"
           /\ Decided(r, s, "denied")
           /\ UNCHANGED <<counts, request>>
        \/ /\ policy = "require_approval"
           /\ Decided(r, s, Ruling(k))
           /\ request' = Opened(k)
           /\ UNCHANGED counts
     /\ UNCHANGED <<attempt, iteration, asked, tries, tally, definition,
                    awaits, registered, used, history>>

-----------------------------------------------------------------------------
(* Execution: the permitted calls side by side. *)

Move(r, s, to) ==
  /\ stage' = [stage EXCEPT ![r][s] = to]
  /\ UNCHANGED <<pc, attempt, iteration, asked, tally, definition, awaits,
                 registered, counts, request, used, resumes, edits>>

Admitted(r, s) ==
  ~Exhausted(Of[r]) /\ CallTool(r, s) \in DOMAIN definition[r]

\* _invoke_tool before the tool: what it raises comes back as a failed result.
Admit(r, s) ==
  /\ pc[r] = "execute" /\ stage[r][s] = "allowed"
  /\ Move(r, s, IF Admitted(r, s) THEN "queued" ELSE "failed")
  /\ UNCHANGED <<tries, performed, invoked>>

\* Mutant of Holding: a retry queues for a second permit and keeps the first.
HoldingQueued ==
  {h \in Run \X Slot : \/ stage[h[1]][h[2]] \in {"running", "backoff"}
                       \/ stage[h[1]][h[2]] = "queued" /\ tries[h[1]][h[2]] > 0}

Holding == {h \in Run \X Slot : stage[h[1]][h[2]] \in {"running", "backoff"}}

\* The tool starts, and from here on may have had its effect.
Invoke(r, s) ==
  /\ stage[r][s] = "queued" /\ Cardinality(Holding) < MaxTools
  /\ Move(r, s, "running")
  /\ tries' = [tries EXCEPT ![r][s] = @ + 1]
  /\ performed' = performed \cup {<<r, asked[r][s]>>}
  /\ invoked' = IF tries[r][s] > 0 THEN invoked
                ELSE [invoked EXCEPT ![<<Drives[r], CallTool(r, s)>>] = @ + 1]

Retried(r, s, retryable) ==
  retryable /\ tries[r][s] < ToolSpec[CallTool(r, s)].attempts

Return(r, s) ==
  /\ stage[r][s] = "running"
  /\ \/ Move(r, s, "ok")
     \/ \E retryable \in BOOLEAN :
           Move(r, s, IF Retried(r, s, retryable) THEN "backoff" ELSE "failed")
  /\ UNCHANGED <<tries, performed, invoked>>

\* The sleep before a retry keeps the permit; after it the call queues again.
Backoff(r, s) ==
  /\ stage[r][s] = "backoff"
  /\ Move(r, s, "queued")
  /\ UNCHANGED <<tries, performed, invoked>>

Settled(r) == \A s \in Slot : stage[r][s] \in {None, "denied", "gated", "ok", "failed"}
Gated(r) == \E s \in Slot : stage[r][s] = "gated"

\* The first call that needs a human suspends the run: the results of its
\* siblings go with the conversation, unobserved and uncharged.
Suspend(r) ==
  /\ pc[r] = "execute" /\ Settled(r)
  /\ \E s \in Slot :
        /\ stage[r][s] = "gated"
        /\ \A t \in Slot : stage[r][t] = "gated" => s <= t
        /\ awaits' = [awaits EXCEPT ![r] = asked[r][s]]
  /\ pc' = [pc EXCEPT ![r] = "waiting"]
  /\ Clear(r)
  /\ UNCHANGED <<attempt, definition, shared, history>>

\* Otherwise every result is observed and the model is asked again.
Observe(r) ==
  /\ pc[r] = "execute" /\ Settled(r) /\ ~Gated(r)
  /\ tally' = [tally EXCEPT ![r] = @ + Cardinality({s \in Slot : asked[r][s] # None})]
  /\ pc' = [pc EXCEPT ![r] = "think"]
  /\ NoReply(r)
  /\ UNCHANGED <<attempt, iteration, definition, awaits, shared, history>>

-----------------------------------------------------------------------------
(* People: reviewers, a resume, an operator who registers an agent anew. *)

Approve(k, c) ==
  /\ request[k].state = "pending" /\ ToolOf[c] = ToolOf[k[2]]
  /\ request' = [request EXCEPT ![k] = [state |-> "approved", uses |-> c]]
  /\ UNCHANGED <<run, registered, counts, used, history>>

Reject(k) ==
  /\ request[k].state = "pending"
  /\ request' = [request EXCEPT ![k].state = "rejected"]
  /\ UNCHANGED <<run, registered, counts, used, history>>

Resume(r) ==
  /\ pc[r] = "waiting" /\ resumes < MaxResumes
  /\ pc' = [pc EXCEPT ![r] = "idle"]
  /\ resumes' = resumes + 1
  /\ UNCHANGED <<attempt, iteration, asked, stage, tries, tally, definition,
                 awaits, shared, edits, performed, invoked>>

Register(a, list) ==
  /\ edits < MaxEdits /\ list # registered[a]
  /\ registered' = [registered EXCEPT ![a] = list]
  /\ edits' = edits + 1
  /\ UNCHANGED <<run, counts, request, used, resumes, performed, invoked>>

RunStep(r) ==
  \/ Dispatch(r) \/ StopOnBudget(r) \/ Reply(r) \/ Record(r)
  \/ \E b \in Replies : AskTools(r, b)
  \/ \E s \in Slot : \/ Authorise(r, s) \/ Admit(r, s) \/ Invoke(r, s)
                     \/ Return(r, s) \/ Backoff(r, s)
  \/ Suspend(r) \/ Observe(r)

Next ==
  \/ \E r \in Run : RunStep(r) \/ Resume(r)
  \/ \E r \in Run, retryable \in BOOLEAN : Fail(r, retryable)
  \/ \E k \in Key : Reject(k) \/ \E c \in Call : Approve(k, c)
  \/ \E a \in Agent, list \in Lists : Register(a, list)

Spec == Init /\ [][Next]_vars /\ \A r \in Run : WF_vars(RunStep(r))

-----------------------------------------------------------------------------
TypeOK ==
  /\ pc \in [Run -> Place]
  /\ attempt \in [Run -> Nat] /\ iteration \in [Run -> 0..MaxIterations]
  /\ asked \in [Run -> [Slot -> Call \cup {None}]]
  /\ stage \in [Run -> [Slot -> Stage]]
  /\ tries \in [Run -> [Slot -> Nat]] /\ tally \in [Run -> Nat]
  /\ definition \in [Run -> Lists] /\ registered \in [Agent -> Lists]
  /\ awaits \in [Run -> Call \cup {None}]
  /\ counts \in [Agent \X Tool -> Nat]
  /\ request \in [Key -> [state : Answer, uses : Call]]
  /\ used \in [Execution -> Nat]
  /\ resumes \in 0..MaxResumes /\ edits \in 0..MaxEdits
  /\ performed \subseteq Run \X Call
  /\ invoked \in [Agent \X Tool -> Nat]

\* Whatever the agent is registered with, the call is one for a human.
AlwaysGated(a, c) ==
  \A list \in Lists : ToolOf[c] \in DOMAIN list =>
     Escalated(Rules, list[ToolOf[c]], a, ToolOf[c])

\* Over retries, suspensions, resumes and agents registered anew: no call that
\* needs a human has been performed unless its own request, with its own
\* arguments, was approved (policies/approvals.py:400).
GatedCallsAreApproved ==
  \A p \in performed : AlwaysGated(Drives[p[1]], p[2]) =>
     request[<<Of[p[1]], p[2]>>].state = "approved"

\* The ceiling of a call nobody approves: however many runs drive the agent at
\* once, the process begins no more such calls than some registration allowed
\* (policies/engine.py:259).
CeilingHolds ==
  \A a \in Agent, t \in DOMAIN ToolSpec :
     LET limits == {list[t].maxCalls : list \in {l \in Lists : t \in DOMAIN l}}
     IN /\ NoLimit \notin limits
        /\ \A list \in Lists : t \in DOMAIN list => ~Escalated(Rules, list[t], a, t)
        => invoked[<<a, t>>] = 0 \/ \E m \in limits : invoked[<<a, t>>] <= m

\* A suspended run waits for a request that exists, so that a decision can
\* reach it (agents/runtime.py:250).
SuspensionsCanBeAnswered ==
  \A r \in Run : pc[r] = "waiting" =>
     awaits[r] # None /\ request[<<Of[r], awaits[r]>>].state # "absent"

\* An agent stopped by the budget makes an ordinary failed node
\* (agents/runtime.py:256); the meter must still be over its limit then, since
\* only that makes the executor's next check stop the execution.
BudgetFailuresStop ==
  \A r \in Run : pc[r] \in {"overspent", "stopped"} => Exhausted(Of[r])

\* Every agent run that begins comes to a result or to a suspension, whatever
\* the model asks for and however often tools and transactions fail.
RunsSettle ==
  \A r \in Run : pc[r] = "think" ~>
     pc[r] \in {"waiting", "succeeded", "failed", "overspent", "stopped"}
=============================================================================
