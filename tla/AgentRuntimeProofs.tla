------------------------- MODULE AgentRuntimeProofs -------------------------
(***************************************************************************)
(* Theorems about the policy engine and the agent runtime, for any agents, *)
(* tools, rules and bounds.                                                *)
(***************************************************************************)
EXTENDS AgentRuntime, FiniteSetTheorems, TLAPS

-----------------------------------------------------------------------------
(* The policy engine. *)

\* An effect is one of three.
LEMMA EvaluateType ==
  ASSUME NEW rules, NEW list, NEW a, NEW c, NEW n
  PROVE  EvaluateUnder(rules, list, a, c, n) \in Effect
BY DEF EvaluateUnder, Effect

\* Each layer only narrows (policies/engine.py:14): with more rules, and later
\* in the tally, a call is never left more to the agent than before.
THEOREM LayersOnlyNarrow ==
  ASSUME NEW rules \in SUBSET Rule, NEW more \in SUBSET Rule, rules \subseteq more,
         NEW list, IsAllowlist(list), NEW a \in Agent, NEW c \in Call,
         NEW n \in Nat, NEW m \in Nat, n <= m
  PROVE  Strictness(EvaluateUnder(rules, list, a, c, n))
           <= Strictness(EvaluateUnder(more, list, a, c, m))
<1> DEFINE t == ToolOf[c]
           before == EvaluateUnder(rules, list, a, c, n)
           after == EvaluateUnder(more, list, a, c, m)
<1>1. before \in Effect /\ after \in Effect
  BY EvaluateType
<1>2. Strictness("allow") = 0 /\ Strictness("require_approval") = 1
        /\ Strictness("deny") = 2
  BY DEF Strictness
<1>3. RuledOut(rules, a, t) => RuledOut(more, a, t)
  BY DEF RuledOut
<1>4. Escalated(rules, list[t], a, t) => Escalated(more, list[t], a, t)
  BY DEF Escalated
<1>5. ASSUME ~Unusable(t), ~Unlisted(list, t)
      PROVE Refused(list[t], c, n) => Refused(list[t], c, m)
  <2>1. list[t] \in Permission
    BY <1>5 DEF Unlisted, IsAllowlist
  <2>2. list[t].maxCalls \in Nat
    BY <2>1 DEF Permission
  <2>3. QED
    BY <2>2 DEF Refused, CeilingReached
<1>6. CASE before = "allow"
  BY <1>1, <1>2, <1>6 DEF Effect
<1>7. CASE before = "deny"
  <2>1. after = "deny"
    BY <1>3, <1>5, <1>7 DEF EvaluateUnder
  <2>2. QED
    BY <1>2, <1>7, <2>1
<1>8. CASE before = "require_approval"
  <2>1. after # "allow"
    BY <1>4, <1>8 DEF EvaluateUnder
  <2>2. QED
    BY <1>1, <1>2, <1>8, <2>1 DEF Effect
<1>9. QED
  BY <1>1, <1>6, <1>7, <1>8 DEF Effect

\* What the policy lets an agent do by itself is not a call for a human.
LEMMA AllowedIsNotGated ==
  ASSUME NEW a \in Agent, NEW list \in Lists, NEW c \in Call, NEW n,
         Evaluate(list, a, c, n) = "allow"
  PROVE  ~AlwaysGated(a, c)
BY DEF Evaluate, EvaluateUnder, AlwaysGated, Unlisted

-----------------------------------------------------------------------------
(* Type correctness. *)

LEMMA SlotsAreEmpty ==
  /\ NoCalls \in [Slot -> Call \cup {None}] /\ NoCalls \in [Slot -> Stage]
  /\ Untried \in [Slot -> Nat]
BY DEF NoCalls, Untried, Stage, None

LEMMA InitTypeOK == Init => TypeOK
<1> SUFFICES ASSUME Init PROVE TypeOK
  OBVIOUS
<1> USE RuntimeAssumption, PolicyAssumption DEF RuntimeAssumption, PolicyAssumption
<1>1. pc \in [Run -> Place] /\ attempt \in [Run -> Nat] /\ tally \in [Run -> Nat]
      /\ iteration \in [Run -> 0..MaxIterations]
  BY DEF Init, Place
<1>2. /\ asked \in [Run -> [Slot -> Call \cup {None}]]
      /\ stage \in [Run -> [Slot -> Stage]] /\ tries \in [Run -> [Slot -> Nat]]
  BY SlotsAreEmpty DEF Init
<1>3. registered \in [Agent -> Lists] /\ definition \in [Run -> Lists]
  BY DEF Init
<1>4. request \in [Key -> [state : Answer, uses : Call]]
  BY DEF Init, Key, Answer
<1>5. /\ awaits \in [Run -> Call \cup {None}]
      /\ counts \in [Agent \X Tool -> Nat] /\ used \in [Execution -> Nat]
      /\ invoked \in [Agent \X Tool -> Nat]
      /\ resumes \in 0..MaxResumes /\ edits \in 0..MaxEdits
      /\ performed \subseteq Run \X Call
  BY DEF Init
<1>6. QED
  BY <1>1, <1>2, <1>3, <1>4, <1>5 DEF TypeOK

LEMMA ClearType ==
  ASSUME TypeOK, NEW r \in Run, Clear(r)
  PROVE  /\ asked' \in [Run -> [Slot -> Call \cup {None}]]
         /\ stage' \in [Run -> [Slot -> Stage]]
         /\ tries' \in [Run -> [Slot -> Nat]]
         /\ tally' \in [Run -> Nat] /\ iteration' \in [Run -> 0..MaxIterations]
BY SlotsAreEmpty, RuntimeAssumption DEF Clear, NoReply, TypeOK, RuntimeAssumption

LEMMA LeaveType ==
  ASSUME TypeOK, NEW r \in Run, NEW p \in Place, Leave(r, p)
  PROVE  /\ pc' \in [Run -> Place] /\ attempt' \in [Run -> Nat]
         /\ iteration' \in [Run -> 0..MaxIterations]
         /\ asked' \in [Run -> [Slot -> Call \cup {None}]]
         /\ stage' \in [Run -> [Slot -> Stage]]
         /\ tries' \in [Run -> [Slot -> Nat]] /\ tally' \in [Run -> Nat]
         /\ definition' \in [Run -> Lists]
         /\ awaits' \in [Run -> Call \cup {None}]
<1>1. Clear(r)
  BY DEF Leave
<1>2. QED
  BY <1>1, ClearType DEF Leave, TypeOK

\* The calls of a slot and their keys have their types.
LEMMA CallType ==
  ASSUME TypeOK, NEW r \in Run, NEW s \in Slot, asked[r][s] # None
  PROVE  /\ asked[r][s] \in Call /\ CallTool(r, s) \in Tool
         /\ CallKey(r, s) \in Key
         /\ <<Drives[r], CallTool(r, s)>> \in Agent \X Tool
BY RuntimeAssumption, PolicyAssumption
   DEF TypeOK, CallTool, CallKey, Key, RuntimeAssumption, PolicyAssumption

\* A slot that is in use holds a call.
SlotsHoldCalls ==
  \A r \in Run, s \in Slot : stage[r][s] # None => asked[r][s] # None

Typed == TypeOK /\ SlotsHoldCalls

LEMMA MoveTyped ==
  ASSUME Typed, NEW r \in Run, NEW s \in Slot, NEW to \in Stage,
         stage[r][s] # None, Move(r, s, to),
         tries' \in [Run -> [Slot -> Nat]], performed' \subseteq Run \X Call,
         invoked' \in [Agent \X Tool -> Nat]
  PROVE  Typed'
<1>1. stage' \in [Run -> [Slot -> Stage]]
  BY DEF Typed, TypeOK, Move
<1>2. TypeOK'
  BY <1>1 DEF Typed, TypeOK, Move
<1>3. SlotsHoldCalls'
  BY DEF Typed, TypeOK, SlotsHoldCalls, Move
<1>4. QED
  BY <1>2, <1>3 DEF Typed

LEMMA LeaveTyped ==
  ASSUME Typed, NEW r \in Run, NEW p \in Place, Leave(r, p),
         used' \in [Execution -> Nat], UNCHANGED <<registered, counts, request, history>>
  PROVE  Typed'
<1>1. TypeOK'
  BY LeaveType DEF Typed, TypeOK, history
<1>2. SlotsHoldCalls'
  BY DEF Typed, TypeOK, SlotsHoldCalls, Leave, Clear, NoReply, NoCalls
<1>3. QED
  BY <1>1, <1>2 DEF Typed

LEMMA RaiseTyped ==
  ASSUME Typed, NEW r \in Run, NEW retryable \in BOOLEAN, Raise(r, retryable),
         UNCHANGED <<shared, history>>
  PROVE  Typed'
<1>1. (IF retryable /\ attempt[r] < MaxAttempts THEN "idle" ELSE "failed") \in Place
  BY DEF Place
<1>2. used' \in [Execution -> Nat] /\ UNCHANGED <<registered, counts, request, history>>
  BY DEF shared, Typed, TypeOK
<1>3. QED
  BY <1>1, <1>2, LeaveTyped DEF Raise

LEMMA ChargeType ==
  ASSUME TypeOK, NEW r \in Run, Charge(r)
  PROVE  used' \in [Execution -> Nat]
BY RuntimeAssumption DEF TypeOK, Charge, RuntimeAssumption

LEMMA OpenedType ==
  ASSUME TypeOK, NEW k \in Key
  PROVE  /\ Opened(k) \in [Key -> [state : Answer, uses : Call]]
         /\ Opened(k)[k].state # "absent"
         /\ \A j \in Key : request[j].state # "absent" => Opened(k)[j] = request[j]
BY DEF TypeOK, Opened, Answer

LEMMA TallyType ==
  ASSUME NEW f \in [Agent \X Tool -> Nat], NEW k \in Agent \X Tool
  PROVE  [f EXCEPT ![k] = @ + 1] \in [Agent \X Tool -> Nat]
OBVIOUS

LEMMA AuthoriseTyped ==
  ASSUME Typed, NEW r \in Run, NEW s \in Slot, Authorise(r, s)
  PROVE  Typed'
<1> DEFINE a == Drives[r]
           k == CallKey(r, s)
<1>1. stage[r][s] = "asked" /\ stage[r][s] # None /\ asked[r][s] # None
  BY DEF Authorise, IsNext, Typed, SlotsHoldCalls, None
<1>2. k \in Key /\ <<a, CallTool(r, s)>> \in Agent \X Tool
  BY <1>1, CallType DEF Typed
<1>3. counts' \in [Agent \X Tool -> Nat]
  <2>1. counts' = counts \/ counts' = [counts EXCEPT ![<<Drives[r], CallTool(r, s)>>] = @ + 1]
    BY DEF Authorise
  <2>2. [counts EXCEPT ![<<Drives[r], CallTool(r, s)>>] = @ + 1] \in [Agent \X Tool -> Nat]
    BY <1>2, TallyType DEF Typed, TypeOK
  <2>3. QED
    BY <2>1, <2>2 DEF Typed, TypeOK
<1>4. request' \in [Key -> [state : Answer, uses : Call]]
  <2>1. request' = request \/ request' = Opened(k)
    BY DEF Authorise
  <2>2. QED
    BY <1>2, <2>1, OpenedType DEF Typed, TypeOK
<1>5. \E v \in Stage \ {None} : Decided(r, s, v)
  BY DEF Authorise, Ruling, Stage, None
<1>6. PICK v \in Stage \ {None} : Decided(r, s, v)
  BY <1>5
<1>7. stage' \in [Run -> [Slot -> Stage]] /\ pc' \in [Run -> Place]
  BY <1>6 DEF Decided, Typed, TypeOK, Place
<1>8. TypeOK'
  BY <1>3, <1>4, <1>7 DEF Authorise, Typed, TypeOK, history
<1>9. SlotsHoldCalls'
  BY <1>1, <1>6 DEF Authorise, Decided, Typed, TypeOK, SlotsHoldCalls
<1>10. QED
  BY <1>8, <1>9 DEF Typed

LEMMA InvokeTyped ==
  ASSUME Typed, NEW r \in Run, NEW s \in Slot, Invoke(r, s)
  PROVE  Typed'
<1>1. stage[r][s] # None /\ asked[r][s] # None
  BY DEF Invoke, Typed, SlotsHoldCalls, None
<1>2. <<Drives[r], CallTool(r, s)>> \in Agent \X Tool /\ asked[r][s] \in Call
  BY <1>1, CallType DEF Typed
<1>3. tries' \in [Run -> [Slot -> Nat]]
  BY DEF Invoke, Typed, TypeOK
<1>4. performed' \subseteq Run \X Call
  BY <1>2 DEF Invoke, Typed, TypeOK
<1>5. invoked' \in [Agent \X Tool -> Nat]
  <2>1. \/ invoked' = invoked
        \/ invoked' = [invoked EXCEPT ![<<Drives[r], CallTool(r, s)>>] = @ + 1]
    BY DEF Invoke
  <2>2. [invoked EXCEPT ![<<Drives[r], CallTool(r, s)>>] = @ + 1] \in [Agent \X Tool -> Nat]
    BY <1>2, TallyType DEF Typed, TypeOK
  <2>3. QED
    BY <2>1, <2>2 DEF Typed, TypeOK
<1>6. QED
  BY <1>1, <1>3, <1>4, <1>5, MoveTyped DEF Invoke, Stage

LEMMA OtherMovesTyped ==
  ASSUME Typed, NEW r \in Run, NEW s \in Slot,
         Admit(r, s) \/ Return(r, s) \/ Backoff(r, s)
  PROVE  Typed'
<1>1. stage[r][s] # None
  BY DEF Admit, Return, Backoff, None
<1>2. \E to \in Stage : Move(r, s, to)
  BY DEF Admit, Return, Backoff, Stage
<1>3. /\ tries' \in [Run -> [Slot -> Nat]] /\ performed' \subseteq Run \X Call
      /\ invoked' \in [Agent \X Tool -> Nat]
  BY DEF Admit, Return, Backoff, Typed, TypeOK
<1>4. QED
  BY <1>1, <1>2, <1>3, MoveTyped

LEMMA AskToolsTyped ==
  ASSUME Typed, NEW r \in Run, NEW b \in Replies, AskTools(r, b)
  PROVE  Typed'
<1> DEFINE stages == [s \in Slot |-> IF b[s] = None THEN None ELSE "asked"]
<1>1. b \in [Slot -> Call \cup {None}]
  BY RuntimeAssumption DEF RuntimeAssumption
<1>2. stages \in [Slot -> Stage] /\ \A s \in Slot : stages[s] # None => b[s] # None
  BY DEF Stage, None
<1>3. stage' = [stage EXCEPT ![r] = stages]
  BY DEF AskTools
<1> HIDE DEF stages
<1>4. stage' \in [Run -> [Slot -> Stage]] /\ asked' \in [Run -> [Slot -> Call \cup {None}]]
  BY <1>1, <1>2, <1>3 DEF AskTools, Typed, TypeOK
<1>5. tries' \in [Run -> [Slot -> Nat]]
  BY SlotsAreEmpty DEF AskTools, Typed, TypeOK
<1>6. pc' \in [Run -> Place] /\ iteration' \in [Run -> 0..MaxIterations]
  BY RuntimeAssumption DEF AskTools, Typed, TypeOK, Place, RuntimeAssumption
<1>7. TypeOK'
  BY <1>4, <1>5, <1>6 DEF AskTools, Typed, TypeOK, shared, history
<1>8. SlotsHoldCalls'
  BY <1>2, <1>3 DEF AskTools, Typed, TypeOK, SlotsHoldCalls
<1>9. QED
  BY <1>7, <1>8 DEF Typed

LEMMA NoReplyTyped ==
  ASSUME Typed, NEW r \in Run, NoReply(r)
  PROVE  /\ asked' \in [Run -> [Slot -> Call \cup {None}]]
         /\ stage' \in [Run -> [Slot -> Stage]] /\ tries' \in [Run -> [Slot -> Nat]]
         /\ SlotsHoldCalls'
<1>1. /\ asked' \in [Run -> [Slot -> Call \cup {None}]]
      /\ stage' \in [Run -> [Slot -> Stage]] /\ tries' \in [Run -> [Slot -> Nat]]
  BY SlotsAreEmpty DEF NoReply, Typed, TypeOK
<1>2. SlotsHoldCalls'
  BY DEF Typed, TypeOK, SlotsHoldCalls, NoReply, NoCalls
<1>3. QED
  BY <1>1, <1>2

LEMMA SuspendTyped ==
  ASSUME Typed, NEW r \in Run, Suspend(r)
  PROVE  Typed'
<1>1. PICK s \in Slot : stage[r][s] = "gated" /\ awaits' = [awaits EXCEPT ![r] = asked[r][s]]
  BY DEF Suspend
<1>2. awaits' \in [Run -> Call \cup {None}] /\ pc' \in [Run -> Place]
  BY <1>1 DEF Suspend, Typed, TypeOK, Place
<1>3. NoReply(r) /\ SlotsHoldCalls'
  BY NoReplyTyped DEF Suspend, Clear
<1>4. TypeOK'
  BY <1>2, ClearType DEF Suspend, Typed, TypeOK, shared, history
<1>5. QED
  BY <1>3, <1>4 DEF Typed

LEMMA ObserveTyped ==
  ASSUME Typed, NEW r \in Run, Observe(r)
  PROVE  Typed'
<1> DEFINE n == Cardinality({s \in Slot : asked[r][s] # None})
<1>1. n \in Nat
  <2>1. IsFiniteSet(Slot)
    BY RuntimeAssumption, FS_Interval DEF Slot, RuntimeAssumption
  <2>2. IsFiniteSet({s \in Slot : asked[r][s] # None})
    BY <2>1, FS_Subset
  <2>3. QED
    BY <2>2, FS_CardinalityType
<1>2. tally' = [tally EXCEPT ![r] = @ + n]
  BY DEF Observe
<1> HIDE DEF n
<1>3. tally' \in [Run -> Nat] /\ pc' \in [Run -> Place]
  BY <1>1, <1>2 DEF Observe, Typed, TypeOK, Place
<1>4. NoReply(r)
  BY DEF Observe
<1>5. TypeOK'
  BY <1>3, <1>4, NoReplyTyped DEF Observe, Typed, TypeOK, shared, history
<1>6. QED
  BY <1>4, <1>5, NoReplyTyped DEF Typed

LEMMA ChargedEndTyped ==
  ASSUME Typed, NEW r \in Run, StopOnBudget(r) \/ Record(r)
  PROVE  Typed'
<1>1. \E p \in Place : Leave(r, p)
  BY DEF StopOnBudget, Record, Place
<1>2. used' \in [Execution -> Nat] /\ UNCHANGED <<registered, counts, request, history>>
  BY ChargeType DEF StopOnBudget, Record, Typed
<1>3. QED
  BY <1>1, <1>2, LeaveTyped

LEMMA DispatchTyped ==
  ASSUME Typed, NEW r \in Run, Dispatch(r)
  PROVE  Typed'
<1> DEFINE list == registered[Drives[r]]
<1>1. list \in Lists
  BY RuntimeAssumption DEF Typed, TypeOK, RuntimeAssumption
<1>2. definition' = definition \/ definition' = [definition EXCEPT ![r] = list]
  BY DEF Dispatch
<1> HIDE DEF list
<1>3. definition' \in [Run -> Lists]
  BY <1>1, <1>2 DEF Typed, TypeOK
<1>4. pc' = [pc EXCEPT ![r] = "stopped"] \/ pc' = [pc EXCEPT ![r] = "think"]
  BY DEF Dispatch
<1>5. pc' \in [Run -> Place]
  BY <1>4 DEF Typed, TypeOK, Place
<1>6. attempt' = attempt \/ attempt' = [attempt EXCEPT ![r] = @ + 1]
  BY DEF Dispatch
<1>7. attempt' \in [Run -> Nat]
  <2>1. attempt \in [Run -> Nat] /\ attempt[r] + 1 \in Nat
    BY DEF Typed, TypeOK
  <2>2. QED
    BY <1>6, <2>1
<1>8. UNCHANGED <<iteration, asked, stage, tries, tally, awaits, shared, history>>
  BY DEF Dispatch
<1>9. TypeOK'
  BY <1>3, <1>5, <1>7, <1>8 DEF Typed, TypeOK, shared, history
<1>10. SlotsHoldCalls'
  BY <1>8 DEF Typed, SlotsHoldCalls
<1>11. QED
  BY <1>9, <1>10 DEF Typed

LEMMA PeopleTyped ==
  ASSUME Typed,
         \/ \E r \in Run : Resume(r) \/ Reply(r)
         \/ \E k \in Key : Reject(k) \/ \E c \in Call : Approve(k, c)
         \/ \E a \in Agent, list \in Lists : Register(a, list)
  PROVE  Typed'
<1>1. ASSUME NEW r \in Run, Resume(r) \/ Reply(r) PROVE Typed'
  <2>1. pc' = [pc EXCEPT ![r] = "idle"] \/ pc' = [pc EXCEPT ![r] = "recording"]
    BY <1>1 DEF Resume, Reply
  <2>2. pc' \in [Run -> Place]
    BY <2>1 DEF Typed, TypeOK, Place
  <2>3. resumes' = resumes \/ (resumes < MaxResumes /\ resumes' = resumes + 1)
    <3>1. CASE Resume(r)
      BY <3>1 DEF Resume
    <3>2. CASE Reply(r)
      BY <3>2 DEF Reply, history
    <3>3. QED
      BY <1>1, <3>1, <3>2
  <2>4. resumes' \in 0..MaxResumes
    BY <2>3, RuntimeAssumption DEF Typed, TypeOK, RuntimeAssumption
  <2>5. UNCHANGED <<attempt, iteration, asked, stage, tries, tally, definition,
                    awaits, shared, edits, performed, invoked>>
    BY <1>1 DEF Resume, Reply, history
  <2>6. TypeOK'
    BY <2>2, <2>4, <2>5 DEF Typed, TypeOK, shared
  <2>7. SlotsHoldCalls'
    BY <2>5 DEF Typed, SlotsHoldCalls
  <2>8. QED
    BY <2>6, <2>7 DEF Typed
<1>2. ASSUME NEW k \in Key, NEW c \in Call, Reject(k) \/ Approve(k, c) PROVE Typed'
  <2>1. request' \in [Key -> [state : Answer, uses : Call]]
    <3>1. CASE Approve(k, c)
      BY <3>1 DEF Approve, Typed, TypeOK, Answer
    <3>2. CASE Reject(k)
      BY <3>2 DEF Reject, Typed, TypeOK, Answer
    <3>3. QED
      BY <1>2, <3>1, <3>2
  <2>2. QED
    BY <1>2, <2>1 DEF Approve, Reject, Typed, TypeOK, SlotsHoldCalls, run, history
<1>3. ASSUME NEW a \in Agent, NEW list \in Lists, Register(a, list) PROVE Typed'
  BY <1>3, RuntimeAssumption
     DEF Register, Typed, TypeOK, SlotsHoldCalls, run, RuntimeAssumption
<1>4. ASSUME NEW k \in Key, Reject(k) PROVE Typed'
  <2>1. request[k].uses \in Call
    BY DEF Typed, TypeOK
  <2>2. QED
    BY <1>2, <1>4, <2>1
<1>5. QED
  BY <1>1, <1>2, <1>3, <1>4

LEMMA NextTyped == Typed /\ [Next]_vars => Typed'
<1> SUFFICES ASSUME Typed, [Next]_vars PROVE Typed'
  OBVIOUS
<1>1. CASE UNCHANGED vars
  BY <1>1 DEF vars, run, shared, history, Typed, TypeOK, SlotsHoldCalls
<1>2. ASSUME NEW r \in Run, RunStep(r) PROVE Typed'
  BY <1>2, DispatchTyped, ChargedEndTyped, PeopleTyped, AskToolsTyped, AuthoriseTyped,
     OtherMovesTyped, InvokeTyped, SuspendTyped, ObserveTyped DEF RunStep
<1>3. ASSUME NEW r \in Run, NEW retryable \in BOOLEAN, Fail(r, retryable) PROVE Typed'
  BY <1>3, RaiseTyped DEF Fail
<1>4. QED
  BY <1>1, <1>2, <1>3, PeopleTyped DEF Next

LEMMA InitTyped == Init => Typed
<1>1. Init => SlotsHoldCalls
  BY DEF Init, SlotsHoldCalls, NoCalls
<1>2. QED
  BY <1>1, InitTypeOK DEF Typed

LEMMA AlwaysTyped == Spec => []Typed
BY InitTyped, NextTyped, PTL DEF Spec

\* The agent runtime's state keeps its shape.
THEOREM TypeCorrect == Spec => []TypeOK
<1>1. Typed => TypeOK
  BY DEF Typed
<1>2. QED
  BY <1>1, AlwaysTyped, PTL

-----------------------------------------------------------------------------
(* Consent, suspension and the budget. *)

Permitted == {"allowed", "queued", "running", "backoff"}
Harmless == {None, "asked", "denied", "ok", "failed"}

\* What is on its way has its consent, and what is held up has its request.
SlotsAreCovered ==
  \A r \in Run, s \in Slot :
     /\ stage[r][s] \in Permitted /\ AlwaysGated(Drives[r], asked[r][s])
        => request[CallKey(r, s)].state = "approved"
     /\ stage[r][s] = "gated" => request[CallKey(r, s)].state # "absent"

\* A request once made is never lost, nor is an approval once given.
LEMMA RequestsMoveOn ==
  ASSUME Typed, [Next]_vars, NEW k \in Key
  PROVE  /\ request[k].state # "absent" => request'[k].state # "absent"
         /\ request[k].state = "approved" => request'[k].state = "approved"
<1>1. CASE UNCHANGED vars
  BY <1>1 DEF vars, shared
<1>2. ASSUME NEW r \in Run, RunStep(r)
      PROVE request' = request \/ \E j \in Key : request' = Opened(j)
  <2>1. ASSUME NEW s \in Slot, Authorise(r, s)
        PROVE request' = request \/ \E j \in Key : request' = Opened(j)
    <3>1. asked[r][s] # None
      BY <2>1 DEF Authorise, IsNext, Typed, SlotsHoldCalls, None
    <3>2. CallKey(r, s) \in Key
      BY <3>1, CallType DEF Typed
    <3>3. QED
      BY <2>1, <3>2 DEF Authorise
  <2>2. QED
    BY <1>2, <2>1 DEF RunStep, Dispatch, StopOnBudget, Reply, Record, AskTools, Admit,
       Invoke, Return, Backoff, Move, Suspend, Observe, shared
<1>3. ASSUME NEW j \in Key, request' = Opened(j)
      PROVE /\ request[k].state # "absent" => request'[k].state # "absent"
            /\ request[k].state = "approved" => request'[k].state = "approved"
  BY <1>3, OpenedType DEF Typed
<1>4. ASSUME NEW j \in Key, NEW c \in Call, Approve(j, c)
      PROVE /\ request[k].state # "absent" => request'[k].state # "absent"
            /\ request[k].state = "approved" => request'[k].state = "approved"
  BY <1>4 DEF Approve, Typed, TypeOK, Answer
<1>5. ASSUME NEW j \in Key, Reject(j)
      PROVE /\ request[k].state # "absent" => request'[k].state # "absent"
            /\ request[k].state = "approved" => request'[k].state = "approved"
  BY <1>5 DEF Reject, Typed, TypeOK
<1>6. ASSUME \/ \E r \in Run : Resume(r)
             \/ \E r \in Run, retryable \in BOOLEAN : Fail(r, retryable)
             \/ \E a \in Agent, list \in Lists : Register(a, list)
      PROVE request' = request
  BY <1>6 DEF Resume, Fail, Register, shared
<1>7. QED
  BY <1>1, <1>2, <1>3, <1>4, <1>5, <1>6 DEF Next

\* How one step treats one slot.
LEMMA SlotStep ==
  ASSUME Typed, [Next]_vars, NEW r \in Run, NEW s \in Slot
  PROVE  \/ stage'[r][s] \in Harmless
         \/ /\ asked'[r][s] = asked[r][s]
            /\ \/ stage'[r][s] = stage[r][s]
               \/ stage[r][s] \in Permitted /\ stage'[r][s] \in Permitted
         \/ Authorise(r, s)
<1> DEFINE Goal == \/ stage'[r][s] \in Harmless
                   \/ /\ asked'[r][s] = asked[r][s]
                      /\ \/ stage'[r][s] = stage[r][s]
                         \/ stage[r][s] \in Permitted /\ stage'[r][s] \in Permitted
                   \/ Authorise(r, s)
<1>1. ASSUME UNCHANGED <<asked, stage>> PROVE Goal
  BY <1>1
<1>2. ASSUME NEW q \in Run, NoReply(q) PROVE Goal
  BY <1>2 DEF NoReply, NoCalls, Typed, TypeOK, Harmless
<1>3. ASSUME NEW q \in Run, NEW b \in Replies, AskTools(q, b) PROVE Goal
  BY <1>3 DEF AskTools, Typed, TypeOK, Harmless
<1>4. ASSUME NEW q \in Run, NEW t \in Slot, Authorise(q, t) PROVE Goal
  <2>1. CASE q = r /\ t = s
    BY <1>4, <2>1
  <2>2. CASE ~(q = r /\ t = s)
    BY <1>4, <2>2 DEF Authorise, Decided, Typed, TypeOK
  <2>3. QED
    BY <2>1, <2>2
<1>5. ASSUME NEW q \in Run, NEW t \in Slot, NEW to, Move(q, t, to),
             to \in Harmless \/ (to \in Permitted /\ stage[q][t] \in Permitted)
      PROVE Goal
  BY <1>5 DEF Move, Typed, TypeOK
<1>6. ASSUME NEW q \in Run, NEW t \in Slot,
             Admit(q, t) \/ Invoke(q, t) \/ Return(q, t) \/ Backoff(q, t)
      PROVE Goal
  <2>1. \E to : /\ Move(q, t, to)
                /\ to \in Harmless \/ (to \in Permitted /\ stage[q][t] \in Permitted)
    BY <1>6 DEF Admit, Invoke, Return, Backoff, Harmless, Permitted
  <2>2. QED
    BY <1>5, <2>1
<1> HIDE DEF Goal
<1>7. ASSUME NEW q \in Run, RunStep(q) PROVE Goal
  <2>1. ASSUME Suspend(q) \/ Observe(q) \/ StopOnBudget(q) \/ Record(q) PROVE NoReply(q)
    BY <2>1 DEF Suspend, Observe, StopOnBudget, Record, Leave, Clear
  <2>2. ASSUME Dispatch(q) \/ Reply(q) PROVE UNCHANGED <<asked, stage>>
    BY <2>2 DEF Dispatch, Reply
  <2>3. QED
    BY <1>1, <1>2, <1>3, <1>4, <1>6, <1>7, <2>1, <2>2 DEF RunStep
<1>8. ASSUME NEW q \in Run, NEW retryable \in BOOLEAN, Fail(q, retryable) PROVE NoReply(q)
  BY <1>8 DEF Fail, Raise, Leave, Clear
<1>9. ASSUME \/ \E q \in Run : Resume(q)
             \/ \E k \in Key : Reject(k) \/ \E c \in Call : Approve(k, c)
             \/ \E a \in Agent, list \in Lists : Register(a, list)
             \/ UNCHANGED vars
      PROVE UNCHANGED <<asked, stage>>
  BY <1>9 DEF Resume, Reject, Approve, Register, run, vars
<1>10. Goal
  BY <1>1, <1>2, <1>7, <1>8, <1>9 DEF Next
<1>11. QED
  BY <1>10 DEF Goal

\* What authorising a call does with it and with its request.
LEMMA AuthoriseCovers ==
  ASSUME Typed, NEW r \in Run, NEW s \in Slot, Authorise(r, s)
  PROVE  /\ asked' = asked /\ CallKey(r, s)' = CallKey(r, s)
         /\ stage'[r][s] \in Permitted /\ AlwaysGated(Drives[r], asked[r][s])
            => request'[CallKey(r, s)].state = "approved"
         /\ stage'[r][s] = "gated" => request'[CallKey(r, s)].state # "absent"
<1> DEFINE k == CallKey(r, s)
           a == Drives[r]
           c == asked[r][s]
           policy == Evaluate(registered[a], a, c, counts[<<a, CallTool(r, s)>>])
<1>1. c # None
  BY DEF Authorise, IsNext, Typed, SlotsHoldCalls, None
<1>2. k \in Key /\ c \in Call /\ a \in Agent /\ registered[a] \in Lists
  BY <1>1, CallType, RuntimeAssumption DEF Typed, TypeOK, RuntimeAssumption
<1>3. asked' = asked /\ CallKey(r, s)' = CallKey(r, s)
  BY DEF Authorise, CallKey
<1>4. CASE policy = "allow"
  <2>1. ~AlwaysGated(a, c)
    BY <1>2, <1>4, AllowedIsNotGated
  <2>2. stage'[r][s] = "allowed"
    BY <1>4 DEF Authorise, Decided, Typed, TypeOK
  <2>3. QED
    BY <1>3, <2>1, <2>2
<1>5. CASE policy = "deny"
  <2>1. stage'[r][s] = "denied"
    BY <1>5 DEF Authorise, Decided, Typed, TypeOK
  <2>2. QED
    BY <1>3, <2>1 DEF Permitted
<1>6. CASE policy = "require_approval"
  <2>1. stage'[r][s] = Ruling(k) /\ request' = Opened(k)
    BY <1>6 DEF Authorise, Decided, Typed, TypeOK
  <2>2. Ruling(k) \in Permitted => request[k].state = "approved"
    BY DEF Ruling, Permitted
  <2>3. request'[k].state # "absent"
    BY <1>2, <2>1, OpenedType DEF Typed
  <2>4. request[k].state = "approved" => request'[k].state = "approved"
    BY <1>2, <2>1, OpenedType DEF Typed
  <2>5. QED
    BY <1>3, <2>1, <2>2, <2>3, <2>4
<1>7. QED
  BY <1>4, <1>5, <1>6, EvaluateType DEF Effect, Evaluate

LEMMA CoveredStep == Typed /\ SlotsAreCovered /\ [Next]_vars => SlotsAreCovered'
<1> SUFFICES ASSUME Typed, SlotsAreCovered, [Next]_vars, NEW r \in Run, NEW s \in Slot
             PROVE  /\ stage'[r][s] \in Permitted /\ AlwaysGated(Drives[r], asked'[r][s])
                       => request'[CallKey(r, s)'].state = "approved"
                    /\ stage'[r][s] = "gated" => request'[CallKey(r, s)'].state # "absent"
  BY DEF SlotsAreCovered, AlwaysGated
<1>1. CASE stage'[r][s] \in Harmless
  BY <1>1 DEF Harmless, Permitted, None
<1>2. CASE /\ asked'[r][s] = asked[r][s]
           /\ \/ stage'[r][s] = stage[r][s]
              \/ stage[r][s] \in Permitted /\ stage'[r][s] \in Permitted
  <2>1. CallKey(r, s)' = CallKey(r, s)
    BY <1>2 DEF CallKey
  <2>2. CASE stage[r][s] \in Permitted \cup {"gated"}
    <3>1. asked[r][s] # None
      BY <2>2 DEF Typed, SlotsHoldCalls, Permitted, None
    <3>2. CallKey(r, s) \in Key
      BY <3>1, CallType DEF Typed
    <3>3. QED
      BY <1>2, <2>1, <3>2, RequestsMoveOn DEF SlotsAreCovered, Permitted
  <2>3. CASE stage[r][s] \notin Permitted \cup {"gated"}
    BY <1>2, <2>3
  <2>4. QED
    BY <2>2, <2>3
<1>3. CASE Authorise(r, s)
  BY <1>3, AuthoriseCovers
<1>4. QED
  BY <1>1, <1>2, <1>3, SlotStep

Covered == Typed /\ SlotsAreCovered

LEMMA AlwaysCovered == Spec => []Covered
<1>1. Init => Covered
  <2>1. Init => SlotsAreCovered
    BY DEF Init, SlotsAreCovered, NoCalls, Permitted, None
  <2>2. QED
    BY <2>1, InitTyped DEF Covered
<1>2. Covered /\ [Next]_vars => Covered'
  BY NextTyped, CoveredStep DEF Covered
<1>3. QED
  BY <1>1, <1>2, PTL DEF Spec

\* Only an invocation performs anything.
LEMMA PerformedStep ==
  ASSUME [Next]_vars
  PROVE  \/ performed' = performed
         \/ \E r \in Run, s \in Slot :
               /\ stage[r][s] = "queued"
               /\ performed' = performed \cup {<<r, asked[r][s]>>}
<1>1. ASSUME NEW r \in Run, NEW s \in Slot, Invoke(r, s)
      PROVE stage[r][s] = "queued" /\ performed' = performed \cup {<<r, asked[r][s]>>}
  BY <1>1 DEF Invoke
<1>2. ASSUME NEW r \in Run, RunStep(r), ~\E s \in Slot : Invoke(r, s)
      PROVE performed' = performed
  BY <1>2 DEF RunStep, Dispatch, StopOnBudget, Reply, Record, AskTools, Authorise, Admit,
     Return, Backoff, Suspend, Observe, history
<1>3. ASSUME \/ UNCHANGED vars
             \/ \E r \in Run : Resume(r)
             \/ \E r \in Run, retryable \in BOOLEAN : Fail(r, retryable)
             \/ \E k \in Key : Reject(k) \/ \E c \in Call : Approve(k, c)
             \/ \E a \in Agent, list \in Lists : Register(a, list)
      PROVE performed' = performed
  BY <1>3 DEF vars, Resume, Fail, Reject, Approve, Register, history
<1>4. QED
  BY <1>1, <1>2, <1>3 DEF Next

\* The gate holds over retries, suspensions, resumes and registrations: a call
\* that needs a human was performed only with its own request approved
\* (policies/approvals.py:400).
THEOREM GateHolds == Spec => []GatedCallsAreApproved
<1>1. Init => GatedCallsAreApproved
  BY DEF Init, GatedCallsAreApproved
<1>2. Covered /\ GatedCallsAreApproved /\ [Next]_vars => GatedCallsAreApproved'
  <2> SUFFICES ASSUME Covered, GatedCallsAreApproved, [Next]_vars,
                      NEW p \in performed', AlwaysGated(Drives[p[1]], p[2])
               PROVE  request'[<<Of[p[1]], p[2]>>].state = "approved"
    BY DEF GatedCallsAreApproved, AlwaysGated
  <2>1. CASE p \in performed
    <3>1. <<Of[p[1]], p[2]>> \in Key
      BY <2>1, RuntimeAssumption DEF Covered, Typed, TypeOK, Key, RuntimeAssumption
    <3>2. QED
      BY <2>1, <3>1, RequestsMoveOn DEF Covered, GatedCallsAreApproved
  <2>2. CASE p \notin performed
    <3>1. PICK r \in Run, s \in Slot : stage[r][s] = "queued" /\ p = <<r, asked[r][s]>>
      BY <2>2, PerformedStep
    <3>2. asked[r][s] # None
      BY <3>1 DEF Covered, Typed, SlotsHoldCalls, None
    <3>3. CallKey(r, s) \in Key /\ CallKey(r, s) = <<Of[p[1]], p[2]>>
      BY <3>1, <3>2, CallType DEF Covered, Typed, CallKey
    <3>4. request[CallKey(r, s)].state = "approved"
      BY <3>1 DEF Covered, SlotsAreCovered, Permitted
    <3>5. QED
      BY <3>3, <3>4, RequestsMoveOn DEF Covered
  <2>3. QED
    BY <2>1, <2>2
<1>3. QED
  BY <1>1, <1>2, AlwaysCovered, PTL DEF Spec

\* Where a run may come to wait.
LEMMA WaitingStep ==
  ASSUME Typed, [Next]_vars, NEW r \in Run, pc'[r] = "waiting"
  PROVE  \/ pc[r] = "waiting" /\ awaits'[r] = awaits[r]
         \/ \E s \in Slot : stage[r][s] = "gated" /\ awaits'[r] = asked[r][s]
<1> DEFINE Goal == \/ pc[r] = "waiting" /\ awaits'[r] = awaits[r]
                   \/ \E s \in Slot : stage[r][s] = "gated" /\ awaits'[r] = asked[r][s]
<1>1. ASSUME NEW q \in Run, NEW p, p # "waiting", pc' = [pc EXCEPT ![q] = p], awaits' = awaits
      PROVE Goal
  BY <1>1 DEF Typed, TypeOK
<1>2. ASSUME NEW q \in Run, Suspend(q) PROVE Goal
  BY <1>2 DEF Suspend, Typed, TypeOK
<1>3. ASSUME UNCHANGED <<pc, awaits>> PROVE Goal
  BY <1>3
<1> HIDE DEF Goal
<1>4. ASSUME NEW q \in Run, RunStep(q), ~Suspend(q) PROVE Goal
  <2>1. \/ UNCHANGED <<pc, awaits>>
        \/ \E p : p # "waiting" /\ pc' = [pc EXCEPT ![q] = p] /\ awaits' = awaits
    <3>1. ASSUME NEW s \in Slot, Authorise(q, s)
          PROVE \E p : p # "waiting" /\ pc' = [pc EXCEPT ![q] = p] /\ awaits' = awaits
      BY <3>1 DEF Authorise, Decided
    <3>2. ASSUME NEW s \in Slot, Admit(q, s) \/ Invoke(q, s) \/ Return(q, s) \/ Backoff(q, s)
          PROVE UNCHANGED <<pc, awaits>>
      BY <3>2 DEF Admit, Invoke, Return, Backoff, Move
    <3>3. ASSUME \/ Dispatch(q) \/ StopOnBudget(q) \/ Reply(q) \/ Record(q) \/ Observe(q)
                 \/ \E b \in Replies : AskTools(q, b)
          PROVE \E p : p # "waiting" /\ pc' = [pc EXCEPT ![q] = p] /\ awaits' = awaits
      <4>1. CASE Dispatch(q)
        BY <4>1 DEF Dispatch
      <4>2. CASE StopOnBudget(q)
        BY <4>2 DEF StopOnBudget, Leave
      <4>3. CASE Reply(q)
        BY <4>3 DEF Reply
      <4>4. CASE Record(q)
        BY <4>4 DEF Record, Leave
      <4>5. CASE Observe(q)
        BY <4>5 DEF Observe
      <4>6. CASE \E b \in Replies : AskTools(q, b)
        BY <4>6 DEF AskTools
      <4>7. QED
        BY <3>3, <4>1, <4>2, <4>3, <4>4, <4>5, <4>6
    <3>4. QED
      BY <1>4, <3>1, <3>2, <3>3 DEF RunStep
  <2>2. QED
    BY <1>1, <1>3, <2>1
<1>5. ASSUME NEW q \in Run, Resume(q) \/ \E retryable \in BOOLEAN : Fail(q, retryable)
      PROVE \E p : p # "waiting" /\ pc' = [pc EXCEPT ![q] = p] /\ awaits' = awaits
  <2>1. CASE Resume(q)
    BY <2>1 DEF Resume
  <2>2. CASE \E retryable \in BOOLEAN : Fail(q, retryable)
    BY <2>2 DEF Fail, Raise, Leave
  <2>3. QED
    BY <1>5, <2>1, <2>2
<1>6. ASSUME \/ UNCHANGED vars
             \/ \E k \in Key : Reject(k) \/ \E c \in Call : Approve(k, c)
             \/ \E a \in Agent, list \in Lists : Register(a, list)
      PROVE UNCHANGED <<pc, awaits>>
  BY <1>6 DEF vars, run, Reject, Approve, Register
<1>7. Goal
  BY <1>1, <1>2, <1>3, <1>4, <1>5, <1>6 DEF Next
<1>8. QED
  BY <1>7 DEF Goal

\* A suspended run always waits for a request that exists
\* (agents/runtime.py:250).
THEOREM WaitsForSomething == Spec => []SuspensionsCanBeAnswered
<1>1. Init => SuspensionsCanBeAnswered
  BY DEF Init, SuspensionsCanBeAnswered
<1>2. Covered /\ SuspensionsCanBeAnswered /\ [Next]_vars => SuspensionsCanBeAnswered'
  <2> SUFFICES ASSUME Covered, SuspensionsCanBeAnswered, [Next]_vars,
                      NEW r \in Run, pc'[r] = "waiting"
               PROVE  awaits'[r] # None /\ request'[<<Of[r], awaits'[r]>>].state # "absent"
    BY DEF SuspensionsCanBeAnswered
  <2>1. CASE pc[r] = "waiting" /\ awaits'[r] = awaits[r]
    <3>1. awaits[r] # None /\ request[<<Of[r], awaits[r]>>].state # "absent"
      BY <2>1 DEF SuspensionsCanBeAnswered
    <3>2. <<Of[r], awaits[r]>> \in Key
      BY <3>1, RuntimeAssumption DEF Covered, Typed, TypeOK, Key, RuntimeAssumption
    <3>3. QED
      BY <2>1, <3>1, <3>2, RequestsMoveOn DEF Covered
  <2>2. CASE \E s \in Slot : stage[r][s] = "gated" /\ awaits'[r] = asked[r][s]
    <3>1. PICK s \in Slot : stage[r][s] = "gated" /\ awaits'[r] = asked[r][s]
      BY <2>2
    <3>2. asked[r][s] # None
      BY <3>1 DEF Covered, Typed, SlotsHoldCalls, None
    <3>3. CallKey(r, s) \in Key /\ CallKey(r, s) = <<Of[r], awaits'[r]>>
      BY <3>1, <3>2, CallType DEF Covered, Typed, CallKey
    <3>4. request[CallKey(r, s)].state # "absent"
      BY <3>1 DEF Covered, SlotsAreCovered
    <3>5. QED
      BY <3>1, <3>2, <3>3, <3>4, RequestsMoveOn DEF Covered
  <2>3. QED
    BY <2>1, <2>2, WaitingStep DEF Covered
<1>3. QED
  BY <1>1, <1>2, AlwaysCovered, PTL DEF Spec

\* What an execution has used never shrinks.
LEMMA UsedGrows ==
  ASSUME Typed, [Next]_vars, NEW e \in Execution
  PROVE  used[e] <= used'[e]
<1>1. used[e] \in Nat
  BY DEF Typed, TypeOK
<1>2. ASSUME NEW r \in Run, Charge(r) PROVE used[e] <= used'[e]
  <2>1. tally[r] \in Nat /\ Of[r] \in Execution /\ used[Of[r]] \in Nat
    BY RuntimeAssumption DEF Typed, TypeOK, RuntimeAssumption
  <2>2. used' = [used EXCEPT ![Of[r]] = used[Of[r]] + tally[r]]
    BY <1>2 DEF Charge
  <2>3. CASE e = Of[r]
    BY <1>1, <2>1, <2>2, <2>3 DEF Typed, TypeOK
  <2>4. CASE e # Of[r]
    BY <1>1, <2>2, <2>4 DEF Typed, TypeOK
  <2>5. QED
    BY <2>3, <2>4
<1>3. ASSUME NEW r \in Run, RunStep(r), ~Charge(r) PROVE used' = used
  BY <1>3 DEF RunStep, Dispatch, StopOnBudget, Reply, Record, AskTools, Authorise, Admit,
     Invoke, Return, Backoff, Move, Suspend, Observe, shared
<1>4. ASSUME \/ UNCHANGED vars
             \/ \E r \in Run : Resume(r)
             \/ \E r \in Run, retryable \in BOOLEAN : Fail(r, retryable)
             \/ \E k \in Key : Reject(k) \/ \E c \in Call : Approve(k, c)
             \/ \E a \in Agent, list \in Lists : Register(a, list)
      PROVE used' = used
  BY <1>4 DEF vars, Resume, Fail, Reject, Approve, Register, shared
<1>5. QED
  BY <1>1, <1>2, <1>3, <1>4 DEF Next

\* A step leaves a run stopped by the budget only where the budget was spent.
LEMMA StoppedStep ==
  ASSUME Typed, [Next]_vars, NEW r \in Run, pc'[r] \in {"overspent", "stopped"}
  PROVE  pc[r] \in {"overspent", "stopped"} \/ Exhausted(Of[r])
<1> DEFINE Halted == {"overspent", "stopped"}
           Goal == pc[r] \in Halted \/ Exhausted(Of[r])
<1>1. ASSUME NEW q \in Run, NEW p, p \notin Halted \/ Exhausted(Of[q]),
             pc' = [pc EXCEPT ![q] = p]
      PROVE Goal
  BY <1>1 DEF Typed, TypeOK
<1>2. ASSUME UNCHANGED pc PROVE Goal
  BY <1>2
<1> HIDE DEF Goal
<1>3. ASSUME NEW q \in Run, NEW s \in Slot, Authorise(q, s)
      PROVE \E p : p \notin Halted /\ pc' = [pc EXCEPT ![q] = p]
  BY <1>3 DEF Authorise, Decided
<1>4. ASSUME NEW q \in Run, NEW s \in Slot,
             Admit(q, s) \/ Invoke(q, s) \/ Return(q, s) \/ Backoff(q, s)
      PROVE UNCHANGED pc
  BY <1>4 DEF Admit, Invoke, Return, Backoff, Move
<1>5. ASSUME NEW q \in Run, Dispatch(q) \/ StopOnBudget(q)
      PROVE \E p : (p \notin Halted \/ Exhausted(Of[q])) /\ pc' = [pc EXCEPT ![q] = p]
  BY <1>5 DEF Dispatch, StopOnBudget, Leave
<1>6. ASSUME NEW q \in Run,
             \/ Reply(q) \/ Record(q) \/ Suspend(q) \/ Observe(q) \/ Resume(q)
             \/ \E b \in Replies : AskTools(q, b)
             \/ \E retryable \in BOOLEAN : Fail(q, retryable)
      PROVE \E p : p \notin Halted /\ pc' = [pc EXCEPT ![q] = p]
  <2>1. CASE \/ Reply(q) \/ Record(q) \/ Suspend(q) \/ Observe(q) \/ Resume(q)
    BY <2>1 DEF Reply, Record, Leave, Suspend, Observe, Resume
  <2>2. CASE \E b \in Replies : AskTools(q, b)
    BY <2>2 DEF AskTools
  <2>3. CASE \E retryable \in BOOLEAN : Fail(q, retryable)
    BY <2>3 DEF Fail, Raise, Leave
  <2>4. QED
    BY <1>6, <2>1, <2>2, <2>3
<1>7. ASSUME \/ UNCHANGED vars
             \/ \E k \in Key : Reject(k) \/ \E c \in Call : Approve(k, c)
             \/ \E a \in Agent, list \in Lists : Register(a, list)
      PROVE UNCHANGED pc
  BY <1>7 DEF vars, run, Reject, Approve, Register
<1>8. ASSUME NEW q \in Run, RunStep(q) PROVE Goal
  BY <1>1, <1>2, <1>3, <1>4, <1>5, <1>6, <1>8 DEF RunStep
<1>9. Goal
  BY <1>1, <1>2, <1>6, <1>7, <1>8 DEF Next
<1>10. QED
  BY <1>9 DEF Goal

\* An agent that stopped on the budget leaves it spent, so the executor's next
\* check stops the execution (agents/runtime.py:256).
THEOREM BudgetStaysSpent == Spec => []BudgetFailuresStop
<1>1. Init => BudgetFailuresStop
  BY DEF Init, BudgetFailuresStop
<1>2. Typed /\ BudgetFailuresStop /\ [Next]_vars => BudgetFailuresStop'
  <2> SUFFICES ASSUME Typed, BudgetFailuresStop, [Next]_vars,
                      NEW r \in Run, pc'[r] \in {"overspent", "stopped"}
               PROVE  used'[Of[r]] > ToolLimit
    BY DEF BudgetFailuresStop, Exhausted
  <2>1. Exhausted(Of[r])
    BY StoppedStep DEF BudgetFailuresStop
  <2>2. Of[r] \in Execution
    BY RuntimeAssumption DEF RuntimeAssumption
  <2>3. used[Of[r]] \in Nat /\ used'[Of[r]] \in Nat
    BY <2>2, NextTyped DEF Typed, TypeOK
  <2>4. QED
    BY <2>1, <2>2, <2>3, UsedGrows, RuntimeAssumption DEF Exhausted, RuntimeAssumption
<1>3. QED
  BY <1>1, <1>2, AlwaysTyped, PTL DEF Spec

-----------------------------------------------------------------------------
(* The ceiling.  A call is counted when it is authorised and begun later, so *)
(* what is begun and what may still begin are within the count together.    *)

\* The call has been let through and its tool not yet been invoked for it.
IsOpen(r, s) ==
  \/ stage[r][s] = "allowed"
  \/ stage[r][s] = "queued" /\ tries[r][s] = 0

OpenCalls(a, t) ==
  {h \in Run \X Slot : /\ Drives[h[1]] = a /\ IsOpen(h[1], h[2])
                       /\ CallTool(h[1], h[2]) = t}

Limits(t) == {list[t].maxCalls : list \in {l \in Lists : t \in DOMAIN l}}

\* No registration lets the agent have the tool without a ceiling, or leaves it
\* to a human.
IsCapped(a, t) ==
  /\ NoLimit \notin Limits(t)
  /\ \A list \in Lists : t \in DOMAIN list => ~Escalated(Rules, list[t], a, t)

\* What runs, or sleeps before a retry, has been invoked.
RunningWasTried ==
  \A r \in Run, s \in Slot : stage[r][s] \in {"running", "backoff"} => tries[r][s] > 0

CountIsWithinLimits(a, t) ==
  counts[<<a, t>>] = 0 \/ \E m \in Limits(t) : counts[<<a, t>>] <= m

CallsAreCounted(a, t) ==
  invoked[<<a, t>>] + Cardinality(OpenCalls(a, t)) <= counts[<<a, t>>]

CeilingIsKept ==
  \A a \in Agent, t \in DOMAIN ToolSpec :
     IsCapped(a, t) => CountIsWithinLimits(a, t) /\ CallsAreCounted(a, t)

\* Which slots a step opens: only one that is authorised.
LEMMA OpenStep ==
  ASSUME Typed, RunningWasTried, [Next]_vars, NEW r \in Run, NEW s \in Slot, IsOpen(r, s)'
  PROVE  Authorise(r, s) \/ (IsOpen(r, s) /\ asked'[r][s] = asked[r][s])
<1> DEFINE Goal == Authorise(r, s) \/ (IsOpen(r, s) /\ asked'[r][s] = asked[r][s])
<1>0. stage'[r][s] \in {"allowed", "queued"}
  BY DEF IsOpen
<1>1. ASSUME UNCHANGED <<asked, stage, tries>> PROVE Goal
  BY <1>1 DEF IsOpen
<1>2. ASSUME NEW q \in Run, NoReply(q) PROVE Goal
  BY <1>0, <1>2 DEF NoReply, NoCalls, Typed, TypeOK, IsOpen, None
<1>3. ASSUME NEW q \in Run, NEW b \in Replies, AskTools(q, b) PROVE Goal
  BY <1>0, <1>3 DEF AskTools, Typed, TypeOK, IsOpen, None
<1>4. ASSUME NEW q \in Run, NEW t \in Slot, Authorise(q, t) PROVE Goal
  <2>1. CASE q = r /\ t = s
    BY <1>4, <2>1
  <2>2. CASE ~(q = r /\ t = s)
    BY <1>4, <2>2 DEF Authorise, Decided, Typed, TypeOK, IsOpen
  <2>3. QED
    BY <2>1, <2>2
<1>5. ASSUME NEW q \in Run, NEW t \in Slot,
             Admit(q, t) \/ Invoke(q, t) \/ Return(q, t) \/ Backoff(q, t)
      PROVE Goal
  <2>1. CASE q = r /\ t = s
    <3>1. CASE Admit(q, t)
      BY <2>1, <3>1 DEF Admit, Move, IsOpen
    <3>2. CASE Invoke(q, t) \/ Return(q, t)
      BY <1>0, <2>1, <3>2 DEF Invoke, Return, Move, Typed, TypeOK
    <3>3. CASE Backoff(q, t)
      <4>1. tries[r][s] > 0 /\ tries' = tries
        BY <2>1, <3>3 DEF Backoff, RunningWasTried
      <4>2. stage'[r][s] = "queued"
        BY <2>1, <3>3 DEF Backoff, Move, Typed, TypeOK
      <4>3. QED
        BY <4>1, <4>2 DEF IsOpen
    <3>4. QED
      BY <1>5, <3>1, <3>2, <3>3
  <2>2. CASE ~(q = r /\ t = s)
    <3>1. stage'[r][s] = stage[r][s] /\ asked' = asked
      BY <1>5, <2>2 DEF Admit, Invoke, Return, Backoff, Move, Typed, TypeOK
    <3>2. tries'[r][s] = tries[r][s]
      BY <1>5, <2>2 DEF Admit, Invoke, Return, Backoff, Typed, TypeOK
    <3>3. QED
      BY <3>1, <3>2 DEF IsOpen
  <2>3. QED
    BY <2>1, <2>2
<1> HIDE DEF Goal
<1>6. ASSUME NEW q \in Run, RunStep(q) PROVE Goal
  <2>1. ASSUME Suspend(q) \/ Observe(q) \/ StopOnBudget(q) \/ Record(q) PROVE NoReply(q)
    BY <2>1 DEF Suspend, Observe, StopOnBudget, Record, Leave, Clear
  <2>2. ASSUME Dispatch(q) \/ Reply(q) PROVE UNCHANGED <<asked, stage, tries>>
    BY <2>2 DEF Dispatch, Reply
  <2>3. QED
    BY <1>1, <1>2, <1>3, <1>4, <1>5, <1>6, <2>1, <2>2 DEF RunStep
<1>7. ASSUME NEW q \in Run, NEW retryable \in BOOLEAN, Fail(q, retryable) PROVE NoReply(q)
  BY <1>7 DEF Fail, Raise, Leave, Clear
<1>8. ASSUME \/ \E q \in Run : Resume(q)
             \/ \E k \in Key : Reject(k) \/ \E c \in Call : Approve(k, c)
             \/ \E a \in Agent, list \in Lists : Register(a, list)
             \/ UNCHANGED vars
      PROVE UNCHANGED <<asked, stage, tries>>
  BY <1>8 DEF Resume, Reject, Approve, Register, run, vars
<1>9. Goal
  BY <1>1, <1>2, <1>6, <1>7, <1>8 DEF Next
<1>10. QED
  BY <1>9 DEF Goal

LEMMA TriedStep == Typed /\ RunningWasTried /\ [Next]_vars => RunningWasTried'
<1> SUFFICES ASSUME Typed, RunningWasTried, [Next]_vars, NEW r \in Run, NEW s \in Slot,
                    stage'[r][s] \in {"running", "backoff"}
             PROVE  tries'[r][s] > 0
  BY DEF RunningWasTried
<1> DEFINE Goal == tries'[r][s] > 0
<1>1. ASSUME UNCHANGED <<stage, tries>> PROVE Goal
  BY <1>1 DEF RunningWasTried
<1>2. ASSUME NEW q \in Run, NoReply(q) PROVE Goal
  BY <1>2 DEF NoReply, NoCalls, Typed, TypeOK, RunningWasTried, None
<1>3. ASSUME NEW q \in Run, NEW b \in Replies, AskTools(q, b) PROVE Goal
  BY <1>3 DEF AskTools, Typed, TypeOK, RunningWasTried, None
<1>4. ASSUME NEW q \in Run, NEW t \in Slot, Authorise(q, t) PROVE Goal
  <2>1. PICK v \in {"allowed", "denied", "gated"} : stage' = [stage EXCEPT ![q][t] = v]
    BY <1>4 DEF Authorise, Decided, Ruling
  <2>2. stage'[r][s] = stage[r][s]
    BY <2>1 DEF Typed, TypeOK
  <2>3. QED
    BY <1>4, <2>2 DEF Authorise, RunningWasTried
<1>5. ASSUME NEW q \in Run, NEW t \in Slot, Invoke(q, t) PROVE Goal
  BY <1>5 DEF Invoke, Move, Typed, TypeOK, RunningWasTried
<1>6. ASSUME NEW q \in Run, NEW t \in Slot, Admit(q, t) \/ Return(q, t) \/ Backoff(q, t)
      PROVE Goal
  <2>1. tries' = tries
    BY <1>6 DEF Admit, Return, Backoff
  <2>2. CASE q = r /\ t = s
    <3>1. CASE Admit(q, t) \/ Backoff(q, t)
      <4>1. \E to \in {"queued", "failed"} : stage' = [stage EXCEPT ![q][t] = to]
        BY <3>1 DEF Admit, Backoff, Move
      <4>2. QED
        BY <2>2, <4>1 DEF Typed, TypeOK
    <3>2. CASE Return(q, t)
      BY <2>1, <2>2, <3>2 DEF Return, RunningWasTried
    <3>3. QED
      BY <1>6, <3>1, <3>2
  <2>3. CASE ~(q = r /\ t = s)
    <3>1. \E to : stage' = [stage EXCEPT ![q][t] = to]
      BY <1>6 DEF Admit, Return, Backoff, Move
    <3>2. stage'[r][s] = stage[r][s]
      BY <2>3, <3>1 DEF Typed, TypeOK
    <3>3. QED
      BY <2>1, <3>2 DEF RunningWasTried
  <2>4. QED
    BY <2>2, <2>3
<1> HIDE DEF Goal
<1>7. ASSUME NEW q \in Run, RunStep(q) PROVE Goal
  <2>1. ASSUME Suspend(q) \/ Observe(q) \/ StopOnBudget(q) \/ Record(q) PROVE NoReply(q)
    BY <2>1 DEF Suspend, Observe, StopOnBudget, Record, Leave, Clear
  <2>2. ASSUME Dispatch(q) \/ Reply(q) PROVE UNCHANGED <<stage, tries>>
    BY <2>2 DEF Dispatch, Reply
  <2>3. QED
    BY <1>1, <1>2, <1>3, <1>4, <1>5, <1>6, <1>7, <2>1, <2>2 DEF RunStep
<1>8. ASSUME NEW q \in Run, NEW retryable \in BOOLEAN, Fail(q, retryable) PROVE NoReply(q)
  BY <1>8 DEF Fail, Raise, Leave, Clear
<1>9. ASSUME \/ \E q \in Run : Resume(q)
             \/ \E k \in Key : Reject(k) \/ \E c \in Call : Approve(k, c)
             \/ \E a \in Agent, list \in Lists : Register(a, list)
             \/ UNCHANGED vars
      PROVE UNCHANGED <<stage, tries>>
  BY <1>9 DEF Resume, Reject, Approve, Register, run, vars
<1>10. Goal
  BY <1>1, <1>2, <1>7, <1>8, <1>9 DEF Next
<1>11. QED
  BY <1>10 DEF Goal

\* Only an authorisation counts, only a first invocation begins a call.
LEMMA OnlyTheseCount ==
  ASSUME [Next]_vars
  PROVE  /\ counts' = counts \/ \E r \in Run, s \in Slot : Authorise(r, s)
         /\ invoked' = invoked \/ \E r \in Run, s \in Slot : Invoke(r, s)
<1> DEFINE Authorises == \E r \in Run, s \in Slot : Authorise(r, s)
           Invokes == \E r \in Run, s \in Slot : Invoke(r, s)
<1>1. ASSUME NEW r \in Run, RunStep(r), ~Authorises PROVE counts' = counts
  BY <1>1 DEF RunStep, Dispatch, StopOnBudget, Reply, Record, AskTools, Admit, Invoke,
     Return, Backoff, Move, Suspend, Observe, shared
<1>2. ASSUME NEW r \in Run, RunStep(r), ~Invokes PROVE invoked' = invoked
  BY <1>2 DEF RunStep, Dispatch, StopOnBudget, Reply, Record, AskTools, Authorise, Admit,
     Return, Backoff, Suspend, Observe, history
<1>3. ASSUME \/ UNCHANGED vars
             \/ \E r \in Run : Resume(r)
             \/ \E r \in Run, retryable \in BOOLEAN : Fail(r, retryable)
             \/ \E k \in Key : Reject(k) \/ \E c \in Call : Approve(k, c)
             \/ \E a \in Agent, list \in Lists : Register(a, list)
      PROVE counts' = counts /\ invoked' = invoked
  BY <1>3 DEF vars, Resume, Fail, Reject, Approve, Register, shared, history
<1>4. QED
  BY <1>1, <1>2, <1>3 DEF Next

\* An authorised call of a capped tool is let through only as one that is
\* counted, within a limit of some registration.
LEMMA AuthoriseCounts ==
  ASSUME Typed, NEW a \in Agent, NEW t \in DOMAIN ToolSpec, IsCapped(a, t),
         NEW r \in Run, NEW s \in Slot, Authorise(r, s),
         <<Drives[r], CallTool(r, s)>> = <<a, t>>
  PROVE  \/ counts' = counts /\ ~IsOpen(r, s)'
         \/ /\ counts'[<<a, t>>] = counts[<<a, t>>] + 1
            /\ \E m \in Limits(t) : counts'[<<a, t>>] <= m
<1> DEFINE list == registered[a]
           n == counts[<<a, t>>]
           policy == Evaluate(list, a, asked[r][s], n)
<1>1. asked[r][s] # None
  BY DEF Authorise, IsNext, Typed, SlotsHoldCalls, None
<1>2. /\ Drives[r] = a /\ CallTool(r, s) = t /\ ToolOf[asked[r][s]] = t
      /\ <<a, t>> \in Agent \X Tool
  BY <1>1, CallType DEF CallTool, Typed
<1>3. list \in Lists /\ IsAllowlist(list) /\ n \in Nat
  BY <1>2, RuntimeAssumption DEF Typed, TypeOK, RuntimeAssumption
<1>4. policy # "require_approval"
  BY <1>2, <1>3 DEF Evaluate, EvaluateUnder, IsCapped, Unlisted
<1>5. CASE policy = "allow"
  <2>1. t \in DOMAIN list /\ ~CeilingReached(list[t], n)
    BY <1>2, <1>5 DEF Evaluate, EvaluateUnder, Unlisted, Refused
  <2>2. list[t].maxCalls \in Limits(t) /\ list[t].maxCalls \in Nat
    BY <1>3, <2>1 DEF Limits, IsAllowlist, Permission
  <2>3. n < list[t].maxCalls
    BY <1>3, <2>1, <2>2 DEF IsCapped, CeilingReached
  <2>4. counts' = [counts EXCEPT ![<<a, t>>] = @ + 1]
    BY <1>2, <1>5 DEF Authorise
  <2>5. counts'[<<a, t>>] = n + 1
    BY <1>2, <2>4 DEF Typed, TypeOK
  <2>6. QED
    BY <1>3, <2>2, <2>3, <2>5
<1>6. CASE policy = "deny"
  <2>1. counts' = counts /\ stage'[r][s] = "denied"
    BY <1>2, <1>6 DEF Authorise, Decided, Typed, TypeOK
  <2>2. QED
    BY <2>1 DEF IsOpen
<1>7. QED
  BY <1>4, <1>5, <1>6, EvaluateType DEF Effect, Evaluate

\* The count of another tool, or another agent's, is left alone.
LEMMA AuthoriseLeavesOthers ==
  ASSUME Typed, NEW k \in Agent \X Tool, NEW r \in Run, NEW s \in Slot, Authorise(r, s),
         <<Drives[r], CallTool(r, s)>> # k
  PROVE  counts'[k] = counts[k]
BY DEF Authorise, Typed, TypeOK

LEMMA OpenCallsAreFinite ==
  ASSUME NEW a, NEW t
  PROVE  /\ IsFiniteSet(OpenCalls(a, t)) /\ Cardinality(OpenCalls(a, t)) \in Nat
         /\ IsFiniteSet(OpenCalls(a, t)') /\ Cardinality(OpenCalls(a, t)') \in Nat
<1>1. IsFiniteSet(Run \X Slot)
  <2>1. IsFiniteSet(Slot)
    BY RuntimeAssumption, FS_Interval DEF Slot, RuntimeAssumption
  <2>2. QED
    BY <2>1, RuntimeAssumption, FS_Product DEF RuntimeAssumption
<1>2. OpenCalls(a, t) \subseteq Run \X Slot /\ OpenCalls(a, t)' \subseteq Run \X Slot
  BY DEF OpenCalls
<1>3. IsFiniteSet(OpenCalls(a, t)) /\ IsFiniteSet(OpenCalls(a, t)')
  BY <1>1, <1>2, FS_Subset
<1>4. QED
  BY <1>3, FS_CardinalityType

\* A step without an authorisation of the tool opens nothing.
LEMMA OpenCallsShrink ==
  ASSUME Typed, RunningWasTried, [Next]_vars, NEW a, NEW t
  PROVE  \A h \in OpenCalls(a, t)' :
            h \in OpenCalls(a, t) \/ (/\ Authorise(h[1], h[2])
                                      /\ <<Drives[h[1]], CallTool(h[1], h[2])>> = <<a, t>>)
<1> SUFFICES ASSUME NEW h \in OpenCalls(a, t)'
             PROVE  h \in OpenCalls(a, t) \/ (/\ Authorise(h[1], h[2])
                                      /\ <<Drives[h[1]], CallTool(h[1], h[2])>> = <<a, t>>)
  OBVIOUS
<1>1. /\ h \in Run \X Slot /\ Drives[h[1]] = a /\ IsOpen(h[1], h[2])'
      /\ CallTool(h[1], h[2])' = t
  BY DEF OpenCalls
<1>2. h[1] \in Run /\ h[2] \in Slot
  BY <1>1
<1>3. Authorise(h[1], h[2]) \/ (IsOpen(h[1], h[2]) /\ asked'[h[1]][h[2]] = asked[h[1]][h[2]])
  BY <1>1, <1>2, OpenStep
<1>4. Authorise(h[1], h[2]) => asked' = asked
  BY DEF Authorise
<1>5. CallTool(h[1], h[2]) = t
  BY <1>1, <1>3, <1>4 DEF CallTool
<1>6. QED
  BY <1>1, <1>3, <1>5 DEF OpenCalls

\* The count stays within the limits, and stays ahead of the calls.
LEMMA CeilingStep ==
  ASSUME Typed, RunningWasTried, [Next]_vars,
         NEW a \in Agent, NEW t \in DOMAIN ToolSpec, IsCapped(a, t),
         CountIsWithinLimits(a, t), CallsAreCounted(a, t)
  PROVE  CountIsWithinLimits(a, t)' /\ CallsAreCounted(a, t)'
<1> DEFINE k == <<a, t>>
           open == OpenCalls(a, t)
           next == OpenCalls(a, t)'
           Authorised(r, s) == Authorise(r, s) /\ <<Drives[r], CallTool(r, s)>> = k
           Begun(r, s) == /\ Invoke(r, s) /\ tries[r][s] = 0
                          /\ <<Drives[r], CallTool(r, s)>> = k
<1>0. k \in Agent \X Tool /\ counts[k] \in Nat /\ invoked[k] \in Nat
  BY PolicyAssumption DEF Typed, TypeOK, PolicyAssumption
<1>1. /\ IsFiniteSet(open) /\ Cardinality(open) \in Nat
      /\ IsFiniteSet(next) /\ Cardinality(next) \in Nat
  BY OpenCallsAreFinite
<1>2. \A h \in next : h \in open \/ Authorised(h[1], h[2])
  BY OpenCallsShrink
<1>3. invoked[k] + Cardinality(open) <= counts[k]
  BY DEF CallsAreCounted
<1>4. SUFFICES /\ counts'[k] = 0 \/ \E m \in Limits(t) : counts'[k] <= m
               /\ invoked'[k] + Cardinality(next) <= counts'[k]
  BY DEF CountIsWithinLimits, CallsAreCounted, Limits
<1>5. counts[k] = 0 \/ \E m \in Limits(t) : counts[k] <= m
  BY DEF CountIsWithinLimits
<1>6. ASSUME NEW r \in Run, NEW s \in Slot, Authorised(r, s)
      PROVE  /\ counts'[k] = 0 \/ \E m \in Limits(t) : counts'[k] <= m
             /\ invoked'[k] + Cardinality(next) <= counts'[k]
  <2>1. invoked' = invoked
    BY <1>6 DEF Authorise, history
  <2>2. \A h \in next : h \in open \cup {<<r, s>>}
    <3>1. ASSUME NEW q \in Run, NEW j \in Slot, Authorise(q, j) PROVE q = r /\ j = s
      <4>1. IsNext(q, j) /\ IsNext(r, s)
        BY <1>6, <3>1 DEF Authorise
      <4>2. pc[q] = "authorise" /\ pc[r] = "authorise"
        BY <1>6, <3>1 DEF Authorise
      <4>3. /\ \E v : v # "asked" /\ stage' = [stage EXCEPT ![r][s] = v]
            /\ \E v : v # "asked" /\ stage' = [stage EXCEPT ![q][j] = v]
        BY <1>6, <3>1 DEF Authorise, Decided, Ruling
      <4>4. stage[q][j] = "asked" /\ stage'[q][j] # "asked"
        BY <4>1, <4>3 DEF IsNext, Typed, TypeOK
      <4>5. QED
        BY <4>3, <4>4 DEF Typed, TypeOK
    <3>2. next \subseteq Run \X Slot
      BY DEF OpenCalls
    <3>3. QED
      BY <1>2, <3>1, <3>2
  <2> HIDE DEF open, next
  <2>3. CASE counts' = counts /\ ~IsOpen(r, s)'
    <3>1. <<r, s>> \notin next
      BY <2>3 DEF OpenCalls, next
    <3>2. next \subseteq open
      BY <2>2, <3>1
    <3>3. Cardinality(next) <= Cardinality(open)
      BY <1>1, <3>2, FS_Subset
    <3>4. QED
      BY <1>0, <1>1, <1>3, <1>5, <2>1, <2>3, <3>3
  <2>4. CASE /\ counts'[k] = counts[k] + 1
             /\ \E m \in Limits(t) : counts'[k] <= m
    <3>1. /\ IsFiniteSet(open \cup {<<r, s>>})
          /\ Cardinality(open \cup {<<r, s>>}) \in {Cardinality(open), Cardinality(open) + 1}
      BY <1>1, FS_AddElement
    <3>2. next \subseteq open \cup {<<r, s>>}
      BY <2>2
    <3>3. Cardinality(next) <= Cardinality(open \cup {<<r, s>>})
      BY <3>1, <3>2, FS_Subset
    <3>4. Cardinality(next) <= Cardinality(open) + 1
      BY <1>1, <3>1, <3>3
    <3>5. QED
      BY <1>0, <1>1, <1>3, <2>1, <2>4, <3>4
  <2>5. QED
    BY <1>6, <2>3, <2>4, AuthoriseCounts
<1>7. ASSUME NEW r \in Run, NEW s \in Slot, Begun(r, s)
      PROVE  /\ counts' = counts
             /\ invoked'[k] + Cardinality(next) <= counts[k]
  <2>1. counts' = counts /\ invoked'[k] = invoked[k] + 1
    BY <1>0, <1>7 DEF Invoke, Move, Typed, TypeOK
  <2>2. <<r, s>> \in open
    BY <1>7 DEF OpenCalls, IsOpen, Invoke
  <2>3. stage'[r][s] = "running"
    BY <1>7 DEF Invoke, Move, Typed, TypeOK
  <2>4. <<r, s>> \notin next
    BY <2>3 DEF OpenCalls, IsOpen
  <2>5. ASSUME NEW q \in Run, NEW j \in Slot, Authorise(q, j) PROVE FALSE
    <3>1. \E v : v \in {"allowed", "denied", "gated"} /\ stage' = [stage EXCEPT ![q][j] = v]
      BY <2>5 DEF Authorise, Decided, Ruling
    <3>2. stage[r][s] = "queued" /\ stage'[r][s] = "running"
      BY <1>7, <2>3 DEF Invoke
    <3>3. QED
      BY <3>1, <3>2 DEF Typed, TypeOK
  <2>6. next \subseteq Run \X Slot
    BY DEF OpenCalls
  <2>7. next \subseteq open \ {<<r, s>>}
    BY <1>2, <2>4, <2>5, <2>6
  <2> HIDE DEF open, next
  <2>8. /\ IsFiniteSet(open \ {<<r, s>>})
        /\ Cardinality(open \ {<<r, s>>}) = Cardinality(open) - 1
    BY <1>1, <2>2, FS_RemoveElement
  <2>9. Cardinality(next) <= Cardinality(open \ {<<r, s>>})
    BY <2>7, <2>8, FS_Subset
  <2>10. QED
    BY <1>0, <1>1, <1>3, <2>1, <2>8, <2>9
<1>8. ASSUME ~\E r \in Run, s \in Slot : Authorised(r, s),
             ~\E r \in Run, s \in Slot : Begun(r, s)
      PROVE  /\ counts'[k] = counts[k]
             /\ invoked'[k] + Cardinality(next) <= counts[k]
  <2>1. counts'[k] = counts[k]
    BY <1>0, <1>8, OnlyTheseCount, AuthoriseLeavesOthers
  <2>2. invoked'[k] = invoked[k]
    <3>1. ASSUME NEW r \in Run, NEW s \in Slot, Invoke(r, s) PROVE invoked'[k] = invoked[k]
      <4>1. invoked' = invoked \/ (/\ tries[r][s] = 0
                                   /\ <<Drives[r], CallTool(r, s)>> # k
                                   /\ invoked' = [invoked EXCEPT ![<<Drives[r], CallTool(r, s)>>] = @ + 1])
        <5>1. ~(tries[r][s] = 0 /\ <<Drives[r], CallTool(r, s)>> = k)
          BY <1>8, <3>1
        <5>2. tries[r][s] \in Nat
          BY DEF Typed, TypeOK
        <5>3. QED
          BY <3>1, <5>1, <5>2 DEF Invoke
      <4>2. QED
        BY <1>0, <4>1 DEF Typed, TypeOK
    <3>2. QED
      BY <3>1, OnlyTheseCount
  <2>3. next \subseteq Run \X Slot
    BY DEF OpenCalls
  <2>4. next \subseteq open
    BY <1>2, <1>8, <2>3
  <2> HIDE DEF open, next
  <2>5. Cardinality(next) <= Cardinality(open)
    BY <1>1, <2>4, FS_Subset
  <2>6. QED
    BY <1>0, <1>1, <1>3, <2>1, <2>2, <2>5
<1> HIDE DEF open, next, Authorised, Begun
<1>9. QED
  BY <1>5, <1>6, <1>7, <1>8

\* The ceiling of a call that nobody approves is never passed, however many runs
\* drive the agent at once and however it is registered anew
\* (policies/engine.py:259): what has begun and what is let through are within
\* the engine's count, and the count within a limit.
THEOREM CeilingIsNeverPassed == Spec => []CeilingHolds
<1> DEFINE Inv == Typed /\ RunningWasTried /\ CeilingIsKept
<1>1. Init => Inv
  <2> SUFFICES ASSUME Init PROVE Inv
    OBVIOUS
  <2>1. RunningWasTried
    BY DEF Init, RunningWasTried, NoCalls, None
  <2>2. ASSUME NEW a \in Agent, NEW t \in DOMAIN ToolSpec
        PROVE CountIsWithinLimits(a, t) /\ CallsAreCounted(a, t)
    <3>1. <<a, t>> \in Agent \X Tool
      BY PolicyAssumption DEF PolicyAssumption
    <3>2. counts[<<a, t>>] = 0 /\ invoked[<<a, t>>] = 0
      BY <3>1 DEF Init
    <3>3. OpenCalls(a, t) = {}
      BY DEF OpenCalls, IsOpen, Init, NoCalls, None
    <3>4. Cardinality(OpenCalls(a, t)) = 0
      BY <3>3, FS_EmptySet
    <3>5. QED
      BY <3>2, <3>4 DEF CountIsWithinLimits, CallsAreCounted
  <2>3. QED
    BY <2>1, <2>2, InitTyped DEF CeilingIsKept
<1>2. Inv /\ [Next]_vars => Inv'
  <2> SUFFICES ASSUME Inv, [Next]_vars PROVE Inv'
    OBVIOUS
  <2>1. Typed' /\ RunningWasTried'
    BY NextTyped, TriedStep
  <2>2. CeilingIsKept'
    <3> SUFFICES ASSUME NEW a \in Agent, NEW t \in DOMAIN ToolSpec, IsCapped(a, t)
                 PROVE CountIsWithinLimits(a, t)' /\ CallsAreCounted(a, t)'
      BY DEF CeilingIsKept, IsCapped, Limits
    <3>1. CountIsWithinLimits(a, t) /\ CallsAreCounted(a, t)
      BY DEF CeilingIsKept
    <3>2. QED
      BY <3>1, CeilingStep
  <2>3. QED
    BY <2>1, <2>2
<1>3. Inv => CeilingHolds
  <2> SUFFICES ASSUME Inv, NEW a \in Agent, NEW t \in DOMAIN ToolSpec, IsCapped(a, t)
               PROVE  invoked[<<a, t>>] = 0 \/ \E m \in Limits(t) : invoked[<<a, t>>] <= m
    BY DEF CeilingHolds, IsCapped, Limits
  <2>1. CountIsWithinLimits(a, t) /\ CallsAreCounted(a, t)
    BY DEF CeilingIsKept
  <2>2. <<a, t>> \in Agent \X Tool
    BY PolicyAssumption DEF PolicyAssumption
  <2>3. counts[<<a, t>>] \in Nat /\ invoked[<<a, t>>] \in Nat
    BY <2>2 DEF Typed, TypeOK
  <2>4. Cardinality(OpenCalls(a, t)) \in Nat
    BY OpenCallsAreFinite
  <2>5. invoked[<<a, t>>] <= counts[<<a, t>>]
    BY <2>1, <2>3, <2>4 DEF CallsAreCounted
  <2>6. CASE counts[<<a, t>>] = 0
    BY <2>3, <2>5, <2>6
  <2>7. ASSUME NEW m \in Limits(t), counts[<<a, t>>] <= m PROVE invoked[<<a, t>>] <= m
    <3>1. m \in Nat
      BY RuntimeAssumption DEF Limits, RuntimeAssumption, IsAllowlist, Permission
    <3>2. QED
      BY <2>3, <2>5, <2>7, <3>1
  <2>8. QED
    BY <2>1, <2>6, <2>7 DEF CountIsWithinLimits
<1> HIDE DEF Inv
<1>4. QED
  BY <1>1, <1>2, <1>3, PTL DEF Spec

=============================================================================
