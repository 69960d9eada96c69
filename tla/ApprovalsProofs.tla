---------------------------- MODULE ApprovalsProofs ----------------------------
(***************************************************************************)
(* Proofs of the properties of Approvals, for any requests, gates,         *)
(* reviewers and any assignment of requests to gates.                      *)
(***************************************************************************)
EXTENDS Approvals, TLAPS

\* Every reachable state is well typed.
THEOREM TypeCorrect == Spec => []TypeOK
<1>1. Init => TypeOK
  BY DEF Init, TypeOK, Status, Arguments, NoDecision
<1>2. TypeOK /\ [Next]_vars => TypeOK'
  <2> SUFFICES ASSUME TypeOK, [Next]_vars PROVE TypeOK'
    OBVIOUS
  <2> USE AsksAssumption DEF TypeOK
  <2>1. ASSUME NEW c \in Caller, Ask(c) PROVE TypeOK'
    BY <2>1 DEF Ask, AnswerOf, Answer
  <2>2. ASSUME NEW c \in Caller, Create(c) PROVE TypeOK'
    <3>1. gate' \in [Caller -> {"idle", "creating", "expiring", "error"} \cup Answer]
      BY <2>2 DEF Create, Answer
    <3>2. row' \in [Request -> [status : Status, arguments : Arguments]]
      <4>1. Asks[c] \in Request /\ row[Asks[c]] \in [status : Status, arguments : Arguments]
        OBVIOUS
      <4>2. [row[Asks[c]] EXCEPT !.status = "pending"]
              \in [status : Status, arguments : Arguments]
        BY <4>1 DEF Status
      <4> QED
        BY <2>2, <4>1, <4>2 DEF Create
    <3> QED
      BY <2>2, <3>1, <3>2 DEF Create
  <2>3. ASSUME NEW c \in Caller, Expire(c) PROVE TypeOK'
    BY <2>3 DEF Expire, Put, Repeats, Conflicts, Status, Arguments, Answer
  <2>4. ASSUME NEW c \in Caller, Abandon(c) PROVE TypeOK'
    BY <2>4 DEF Abandon
  <2>5. ASSUME NEW v \in Reviewer, Choose(v) PROVE TypeOK'
    BY <2>5 DEF Choose
  <2>6. ASSUME NEW v \in Reviewer, Decide(v) PROVE TypeOK'
    <3>1. reviewer[v] \in Decision
      BY <2>6 DEF Decide, NoDecision
    <3>2. \A pc \in {"recorded", "refused"} :
             [reviewer[v] EXCEPT !.pc = pc] \in Decision
      BY <3>1 DEF Decision
    <3>3. reviewer' \in [Reviewer -> {NoDecision} \cup Decision]
      BY <2>6, <3>2 DEF Decide
    <3>4. row' \in [Request -> [status : Status, arguments : Arguments]]
      BY <2>6, <3>1 DEF Decide, Put, Repeats, Conflicts, Decision, Status
    <3> QED
      BY <2>6, <3>3, <3>4 DEF Decide
  <2>7. ASSUME NEW v \in Reviewer, Return(v) PROVE TypeOK'
    BY <2>7 DEF Return
  <2>8. ASSUME NEW r \in Request, Deadline(r) PROVE TypeOK'
    BY <2>8 DEF Deadline
  <2>9. CASE Sweep
    BY <2>9 DEF Sweep, Status
  <2>10. CASE UNCHANGED vars
    BY <2>10 DEF vars
  <2> QED
    BY <2>1, <2>2, <2>3, <2>4, <2>5, <2>6, <2>7, <2>8, <2>9, <2>10 DEF Next
<1> QED
  BY <1>1, <1>2, PTL DEF Spec

------------------------------------------------------------------------------
\* A step opens a request, settles an open one, or leaves it alone.
LEMMA RowAdvances ==
    ASSUME TypeOK, [Next]_vars, NEW r \in Request
    PROVE  \/ row'[r] = row[r]
           \/ row[r].status = "absent" /\ row'[r].status = "pending"
           \/ row[r].status = "pending" /\ row'[r].status \in Decided
<1> USE AsksAssumption DEF TypeOK, Decided
<1>1. ASSUME NEW c \in Caller, Ask(c) PROVE row' = row
  BY <1>1 DEF Ask
<1>2. ASSUME NEW c \in Caller, Create(c)
      PROVE  \/ row'[r] = row[r]
             \/ row[r].status = "absent" /\ row'[r].status = "pending"
  BY <1>2 DEF Create
<1>3. ASSUME NEW c \in Caller, Expire(c)
      PROVE  \/ row'[r] = row[r]
             \/ row[r].status = "pending" /\ row'[r].status \in Decided
  BY <1>3 DEF Expire, Put
<1>4. ASSUME NEW v \in Reviewer, Decide(v)
      PROVE  \/ row'[r] = row[r]
             \/ row[r].status = "pending" /\ row'[r].status \in Decided
  <2>1. reviewer[v] \in Decision
    BY <1>4 DEF Decide, NoDecision
  <2> QED
    BY <1>4, <2>1 DEF Decide, Put, Decision
<1>5. CASE Sweep
  BY <1>5 DEF Sweep
<1>6. ASSUME \/ \E c \in Caller : Abandon(c)
             \/ \E v \in Reviewer : Choose(v) \/ Return(v)
             \/ \E d \in Request : Deadline(d)
             \/ UNCHANGED vars
      PROVE  row' = row
  BY <1>6 DEF Abandon, Choose, Return, Deadline, vars
<1> QED
  BY <1>1, <1>2, <1>3, <1>4, <1>5, <1>6 DEF Next

\* Only a gate's own steps change where it is.
LEMMA GateSteps ==
    ASSUME TypeOK, [Next]_vars, NEW c \in Caller, gate'[c] # gate[c]
    PROVE  Ask(c) \/ Create(c) \/ Expire(c) \/ Abandon(c)
<1>1. \E d \in Caller : Ask(d) \/ Create(d) \/ Expire(d) \/ Abandon(d)
  BY DEF Next, vars, Choose, Decide, Return, Deadline, Sweep
<1>2. PICK d \in Caller : Ask(d) \/ Create(d) \/ Expire(d) \/ Abandon(d)
  BY <1>1
<1>3. \E a : gate' = [gate EXCEPT ![d] = a]
  BY <1>2 DEF Ask, Create, Expire, Abandon
<1>4. d = c
  BY <1>3 DEF TypeOK
<1> QED
  BY <1>2, <1>4

\* A settled request keeps its status and its arguments.
THEOREM SettledStays == Spec => SettledRequestIsFinal
<1>1. TypeOK /\ [Next]_vars =>
        [\A r \in Request : row[r].status \in Decided => row'[r] = row[r]]_vars
  BY RowAdvances DEF Decided
<1> QED
  BY <1>1, TypeCorrect, PTL DEF Spec, SettledRequestIsFinal

------------------------------------------------------------------------------
\* A reviewer who was told the decision is recorded finds it in the row.
THEOREM AcknowledgementsStand == Spec => []AcknowledgedDecisionStands
<1> DEFINE Inv == TypeOK /\ AcknowledgedDecisionStands
<1>1. Init => Inv
  <2>1. Init => TypeOK
    BY DEF Init, TypeOK, Status, Arguments, NoDecision
  <2>2. Init => AcknowledgedDecisionStands
    BY DEF Init, AcknowledgedDecisionStands, NoDecision
  <2> QED
    BY <2>1, <2>2
<1>2. TypeOK /\ TypeOK' /\ AcknowledgedDecisionStands /\ [Next]_vars
        => AcknowledgedDecisionStands'
  <2> SUFFICES ASSUME TypeOK, TypeOK', AcknowledgedDecisionStands, [Next]_vars,
                      NEW v \in Reviewer, reviewer'[v].pc = "recorded"
               PROVE  row'[reviewer'[v].request].status = reviewer'[v].verdict
    BY DEF AcknowledgedDecisionStands
  <2> USE DEF TypeOK
  <2>1. reviewer'[v] \in Decision
    BY DEF NoDecision
  <2>2. CASE reviewer'[v] = reviewer[v]
    <3>1. row[reviewer[v].request].status = reviewer[v].verdict
      BY <2>2 DEF AcknowledgedDecisionStands
    <3>2. /\ reviewer[v].request \in Request
          /\ row[reviewer[v].request].status \in Decided
      BY <2>1, <2>2, <3>1 DEF Decision, Decided
    <3> QED
      BY <2>2, <3>1, <3>2, RowAdvances DEF Decided
  <2>3. CASE reviewer'[v] # reviewer[v]
    <3>1. Decide(v)
      <4>1. \E u \in Reviewer : Choose(u) \/ Decide(u) \/ Return(u)
        BY <2>3 DEF Next, vars, Ask, Create, Expire, Abandon, Deadline, Sweep
      <4>2. PICK u \in Reviewer : Choose(u) \/ Decide(u) \/ Return(u)
        BY <4>1
      <4>3. u = v
        BY <2>3, <4>2 DEF Choose, Decide, Return
      <4>4. ~Choose(v)
        BY DEF Choose
      <4>5. ~Return(v)
        BY <2>1 DEF Return, NoDecision, Decision
      <4> QED
        BY <4>2, <4>3, <4>4, <4>5
    <3>2. reviewer[v] \in Decision
      BY <3>1 DEF Decide, NoDecision
    <3> QED
      BY <3>1, <3>2 DEF Decide, Put, Repeats, Conflicts, Decision
  <2> QED
    BY <2>2, <2>3
<1>3. Spec => [](TypeOK /\ AcknowledgedDecisionStands)
  BY <1>1, <1>2, TypeCorrect, PTL DEF Spec
<1> QED
  BY <1>3, PTL

------------------------------------------------------------------------------
\* A grant or refusal a gate holds is in the row.
AnswersHold ==
    \A c \in Caller :
        /\ gate[c] = "granted" => row[Asks[c]].status = "approved"
        /\ gate[c] = "rejected" => row[Asks[c]].status \in {"rejected", "expired"}

\* Gates that ask for one request never hold contradicting answers.
THEOREM AnswersAgree == Spec => []NoTwoAnswers
<1>1. Init => AnswersHold
  BY DEF Init, AnswersHold
<1>2. TypeOK /\ AnswersHold /\ [Next]_vars => AnswersHold'
  <2> SUFFICES ASSUME TypeOK, AnswersHold, [Next]_vars, NEW c \in Caller
               PROVE  /\ gate'[c] = "granted" => row'[Asks[c]].status = "approved"
                      /\ gate'[c] = "rejected" =>
                            row'[Asks[c]].status \in {"rejected", "expired"}
    BY DEF AnswersHold
  <2> USE AsksAssumption DEF TypeOK
  <2>1. CASE gate'[c] = gate[c]
    <3>1. Asks[c] \in Request
      OBVIOUS
    <3> QED
      BY <2>1, <3>1, RowAdvances DEF AnswersHold, Decided
  <2>2. CASE gate'[c] # gate[c]
    <3>1. Ask(c) \/ Create(c) \/ Expire(c) \/ Abandon(c)
      BY <2>2, GateSteps
    <3>2. CASE Ask(c)
      BY <3>2 DEF Ask, AnswerOf
    <3>3. CASE Create(c) \/ Abandon(c)
      BY <3>3 DEF Create, Abandon
    <3>4. CASE Expire(c)
      BY <3>4 DEF Expire, Put, Repeats
    <3> QED
      BY <3>1, <3>2, <3>3, <3>4
  <2> QED
    BY <2>1, <2>2
<1>3. AnswersHold => NoTwoAnswers
  BY DEF AnswersHold, NoTwoAnswers
<1> QED
  BY <1>1, <1>2, <1>3, TypeCorrect, PTL DEF Spec

------------------------------------------------------------------------------
\* Approvals implements ApprovalLedger: the races of gates, reviewers,
\* deadlines and sweeps show only as requests opened and settled once, and as
\* answers that hold when they are given.
THEOREM Refinement == Spec => ImplementsLedger
<1> DEFINE verdict == [r \in Request |->
              IF row[r].status = "absent" THEN "none" ELSE row[r].status]
           told == [c \in Caller |->
              IF gate[c] \in Answer THEN gate[c] ELSE "nothing"]
<1>1. Init => Ledger!Init
  BY DEF Init, Ledger!Init, Answer
<1>2. TypeOK /\ TypeOK' /\ [Next]_vars => Ledger!Next
  <2> SUFFICES ASSUME TypeOK, TypeOK', [Next]_vars PROVE Ledger!Next
    OBVIOUS
  <2> USE AsksAssumption DEF TypeOK
  <2>1. verdict' \in [Request -> Ledger!Verdict]
    BY DEF Ledger!Verdict, Status
  <2>2. told' \in [Caller -> {"nothing", "granted", "rejected", "pending"}]
    BY DEF Answer
  <2>3. ASSUME NEW r \in Request PROVE Ledger!Advance(r)
    BY RowAdvances DEF Ledger!Advance, Decided
  <2>4. ASSUME NEW c \in Caller PROVE Ledger!Tell(c)
    <3>1. CASE gate'[c] = gate[c] \/ gate'[c] \notin Answer
      BY <3>1 DEF Ledger!Tell, Answer
    <3>2. CASE gate'[c] # gate[c] /\ gate'[c] \in Answer
      <4>1. Ask(c) \/ Create(c) \/ Expire(c)
        BY <3>2, GateSteps DEF Abandon, Answer
      <4>2. /\ row'[Asks[c]].status # "absent"
            /\ gate'[c] = AnswerOf(row'[Asks[c]].status)
        <5>1. CASE Ask(c)
          BY <5>1, <3>2 DEF Ask, Answer
        <5>2. CASE Create(c)
          BY <5>2, <3>2 DEF Create, AnswerOf, Answer
        <5>3. CASE Expire(c)
          BY <5>3, <3>2 DEF Expire, Put, Repeats, AnswerOf, Answer
        <5> QED
          BY <4>1, <5>1, <5>2, <5>3
      <4>3. Asks[c] \in Request /\ row'[Asks[c]].status \in Status
        OBVIOUS
      <4>4. /\ verdict'[Asks[c]] = row'[Asks[c]].status
            /\ told'[c] = gate'[c]
        BY <4>2, <4>3, <3>2
      <4>5. AnswerOf(row'[Asks[c]].status) = Ledger!Meaning(row'[Asks[c]].status)
        BY <4>2, <4>3 DEF AnswerOf, Ledger!Meaning, Status
      <4>6. row'[Asks[c]].status # "none"
        BY <4>3 DEF Status
      <4> QED
        BY <4>2, <4>4, <4>5, <4>6 DEF Ledger!Tell
    <3> QED
      BY <3>1, <3>2
  <2> QED
    BY <2>1, <2>2, <2>3, <2>4 DEF Ledger!Next
<1> QED
  BY <1>1, <1>2, TypeCorrect, PTL DEF Spec, ImplementsLedger, Ledger!Spec
===============================================================================
