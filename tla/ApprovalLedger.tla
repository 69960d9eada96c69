---------------------------- MODULE ApprovalLedger ----------------------------
(***************************************************************************)
(* What approvals promise: a request is opened once and settled once, and  *)
(* what a gate is told is what the ledger says at the moment it is told.   *)
(* No race of gates, reviewers and deadlines shows here: Approvals is      *)
(* shown to implement this specification.                                  *)
(***************************************************************************)
CONSTANTS Request, Caller, Asks

VARIABLES
    verdict,    \* what the ledger says of each request
    told        \* what each gate was last told

Verdict == {"none", "pending", "approved", "rejected", "expired"}

Meaning(v) ==
    CASE v = "approved" -> "granted"
      [] v = "pending" -> "pending"
      [] OTHER -> "rejected"

Init ==
    /\ verdict = [r \in Request |-> "none"]
    /\ told = [c \in Caller |-> "nothing"]

\* Opened once, settled once.
Advance(r) ==
    \/ verdict'[r] = verdict[r]
    \/ verdict[r] = "none" /\ verdict'[r] = "pending"
    \/ verdict[r] = "pending" /\ verdict'[r] \in {"approved", "rejected", "expired"}

\* A gate is told what the ledger says now, or forgets what it was told.
Tell(c) ==
    \/ told'[c] \in {told[c], "nothing"}
    \/ /\ verdict'[Asks[c]] # "none"
       /\ told'[c] = Meaning(verdict'[Asks[c]])

Next ==
    /\ verdict' \in [Request -> Verdict]
    /\ told' \in [Caller -> {"nothing", "granted", "rejected", "pending"}]
    /\ \A r \in Request : Advance(r)
    /\ \A c \in Caller : Tell(c)

Spec == Init /\ [][Next]_<<verdict, told>>
===============================================================================
