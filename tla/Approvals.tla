------------------------------- MODULE Approvals -------------------------------
(***************************************************************************)
(* Human approvals (policies/approvals.py over ApprovalRepository of       *)
(* persistence/repositories.py): gates that find or create a request and   *)
(* read its state, reviewers who decide it through the API, deadlines      *)
(* evaluated on read, and an operator's sweep.                             *)
(*                                                                         *)
(* A transaction is one action; what a caller read in one transaction and  *)
(* uses in the next is in its gate or reviewer state.  A gate that pauses  *)
(* asks again when its execution is resumed, and one whose process dies    *)
(* forgets where it was: both are Abandon.                                 *)
(***************************************************************************)
CONSTANTS
    Request,    \* request ids: hashes of an action and its arguments
    Caller,     \* the gates: approval nodes, tool calls, the supervisor
    Asks,       \* the id each gate computes; a tool call's id leaves out its
                \* node, so the same call of two nodes has one id
    Reviewer

ASSUME AsksAssumption == Asks \in [Caller -> Request]

VARIABLES
    row,        \* the approvals table
    overdue,    \* the requests whose expires_at has passed
    gate,       \* where resolve() is, or what it answered
    reviewer    \* where an approve or reject route is, or what it answered

vars == <<row, overdue, gate, reviewer>>

Status == {"absent", "pending", "approved", "rejected", "expired"}
Decided == {"approved", "rejected", "expired"}

\* What the call is to use: as it asked, or as the reviewer edited it.
Arguments == {"asked", "edited"}

Answer == {"granted", "rejected", "pending"}

NoDecision == [pc |-> "idle"]
Decision == [pc : {"chosen", "recorded", "refused"}, request : Request,
             verdict : {"approved", "rejected"}, arguments : Arguments]

TypeOK ==
    /\ row \in [Request -> [status : Status, arguments : Arguments]]
    /\ overdue \subseteq Request
    /\ gate \in [Caller -> {"idle", "creating", "expiring", "error"} \cup Answer]
    /\ reviewer \in [Reviewer -> {NoDecision} \cup Decision]

Init ==
    /\ row = [r \in Request |-> [status |-> "absent", arguments |-> "asked"]]
    /\ overdue = {}
    /\ gate = [c \in Caller |-> "idle"]
    /\ reviewer = [v \in Reviewer |-> NoDecision]

------------------------------------------------------------------------------
(* The table.                                                               *)

\* The UPDATE of decide: it finds the row only while the status is pending.
Put(r, status, arguments) ==
    /\ row[r].status = "pending"
    /\ row' = [row EXCEPT ![r] = [status |-> status, arguments |-> arguments]]

\* Mutant of Repeats: whatever the decided row says is returned.
RepeatsAnything(r, status) == row[r].status \in Decided

\* The same decision applied twice returns the row as it is.
Repeats(r, status) == row[r].status \in Decided /\ row[r].status = status

\* The decision conflicts with the one recorded: decide raises.
Conflicts(r, status) == row[r].status \in Decided /\ ~Repeats(r, status)

------------------------------------------------------------------------------
(* Gates: ApprovalService.resolve.                                          *)

\* Mutant of AnswerOf: an expired request is still being waited for.
AnswerOfExpiredPends(status) ==
    CASE status = "approved" -> "granted"
      [] status = "rejected" -> "rejected"
      [] OTHER -> "pending"

\* ApprovalOutcome, as gate and tool_authoriser read it.
AnswerOf(status) ==
    CASE status = "approved" -> "granted"
      [] status \in {"rejected", "expired"} -> "rejected"
      [] OTHER -> "pending"

\* The read: a row that is absent is to be created, a pending one whose
\* deadline has passed is to be expired, any other is the answer.
Ask(c) ==
    LET r == Asks[c]
    IN  /\ gate[c] = "idle"
        /\ gate' = [gate EXCEPT ![c] =
                IF row[r].status = "absent" THEN "creating"
                ELSE IF row[r].status = "pending" /\ r \in overdue THEN "expiring"
                ELSE AnswerOf(row[r].status)]
        /\ UNCHANGED <<row, overdue, reviewer>>

\* The insert: a gate that lost the race for the primary key gets an error.
Create(c) ==
    LET r == Asks[c]
    IN  /\ gate[c] = "creating"
        /\ \/ /\ row[r].status = "absent"
              /\ row' = [row EXCEPT ![r].status = "pending"]
              /\ gate' = [gate EXCEPT ![c] = "pending"]
           \/ /\ row[r].status # "absent"
              /\ gate' = [gate EXCEPT ![c] = "error"]
              /\ UNCHANGED row
        /\ UNCHANGED <<overdue, reviewer>>

\* _mark_expired: decide(EXPIRED) in a transaction of its own, then a read.
\* A reviewer who decided since the first read makes it raise.
Expire(c) ==
    LET r == Asks[c]
    IN  /\ gate[c] = "expiring"
        /\ \/ /\ Put(r, "expired", "asked")
              /\ gate' = [gate EXCEPT ![c] = "rejected"]
           \/ /\ Repeats(r, "expired")
              /\ gate' = [gate EXCEPT ![c] = "rejected"]
              /\ UNCHANGED row
           \/ /\ Conflicts(r, "expired")
              /\ gate' = [gate EXCEPT ![c] = "error"]
              /\ UNCHANGED row
        /\ UNCHANGED <<overdue, reviewer>>

\* The call is over, or its process has died: the gate may ask again.
Abandon(c) ==
    /\ gate[c] # "idle"
    /\ gate' = [gate EXCEPT ![c] = "idle"]
    /\ UNCHANGED <<row, overdue, reviewer>>

------------------------------------------------------------------------------
(* Reviewers: the approve and reject routes.                                *)

\* _resolve_pending_approval: a request named by its id, in whatever state,
\* or the execution's only pending one.  A rejection has no arguments.
Choose(v) ==
    /\ reviewer[v] = NoDecision
    /\ \E d \in Decision :
          /\ d.pc = "chosen"
          /\ row[d.request].status # "absent"
          /\ d.verdict = "rejected" => d.arguments = "asked"
          /\ reviewer' = [reviewer EXCEPT ![v] = d]
    /\ UNCHANGED <<row, overdue, gate>>

\* approve and reject: decide in a transaction of its own; no deadline is
\* looked at.
Decide(v) ==
    /\ reviewer[v].pc = "chosen"
    /\ LET d == reviewer[v]
           Ends(pc) == reviewer' = [reviewer EXCEPT ![v].pc = pc]
       IN  \/ Put(d.request, d.verdict, d.arguments) /\ Ends("recorded")
           \/ Repeats(d.request, d.verdict) /\ Ends("recorded") /\ UNCHANGED row
           \/ Conflicts(d.request, d.verdict) /\ Ends("refused") /\ UNCHANGED row
    /\ UNCHANGED <<overdue, gate>>

\* The response was sent.
Return(v) ==
    /\ reviewer[v].pc \in {"recorded", "refused"}
    /\ reviewer' = [reviewer EXCEPT ![v] = NoDecision]
    /\ UNCHANGED <<row, overdue, gate>>

------------------------------------------------------------------------------
(* Time.                                                                    *)

\* expires_at passes.
Deadline(r) ==
    /\ row[r].status # "absent"
    /\ r \notin overdue
    /\ overdue' = overdue \cup {r}
    /\ UNCHANGED <<row, gate, reviewer>>

\* expire_overdue: one UPDATE over the whole table.
Sweep ==
    /\ \E r \in overdue : row[r].status = "pending"
    /\ row' = [r \in Request |->
            IF r \in overdue /\ row[r].status = "pending"
            THEN [row[r] EXCEPT !.status = "expired"] ELSE row[r]]
    /\ UNCHANGED <<overdue, gate, reviewer>>

------------------------------------------------------------------------------
Next ==
    \/ \E c \in Caller : Ask(c) \/ Create(c) \/ Expire(c) \/ Abandon(c)
    \/ \E v \in Reviewer : Choose(v) \/ Decide(v) \/ Return(v)
    \/ \E r \in Request : Deadline(r)
    \/ Sweep

Spec == Init /\ [][Next]_vars
------------------------------------------------------------------------------
(* Properties.                                                              *)

Ledger == INSTANCE ApprovalLedger WITH
    verdict <- [r \in Request |->
        IF row[r].status = "absent" THEN "none" ELSE row[r].status],
    told <- [c \in Caller |-> IF gate[c] \in Answer THEN gate[c] ELSE "nothing"]

\* Whatever gates, reviewers, deadlines and sweeps do to each other, a request
\* is opened once and settled once, and a gate is told what holds at the
\* moment it is told (resolve, decide).
ImplementsLedger == Ledger!Spec

\* "Two reviewers clicking approve and reject at the same instant cannot both
\* win" (decide): one who was told the decision is recorded finds it in the row.
AcknowledgedDecisionStands ==
    \A v \in Reviewer : reviewer[v].pc = "recorded" =>
        row[reviewer[v].request].status = reviewer[v].verdict

\* The edit goes with the decision: once settled, neither the status nor the
\* arguments of a request change.
SettledRequestIsFinal ==
    [][\A r \in Request : row[r].status \in Decided => row'[r] = row[r]]_vars

\* Two gates that ask for one request never hold contradicting answers, even
\* if one reads it while the other lets it expire.
NoTwoAnswers ==
    \A c, d \in Caller :
        Asks[c] = Asks[d] => ~(gate[c] = "granted" /\ gate[d] = "rejected")

===============================================================================
