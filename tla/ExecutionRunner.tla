---------------------------- MODULE ExecutionRunner ----------------------------
(***************************************************************************)
(* One execution as the API process drives it: the request handlers of     *)
(* api/routes/executions.py, the ExecutionRunner of api/runner.py with its *)
(* table of handles, the claim and the load of checkpoint/manager.py, and  *)
(* the background tasks they start.                                        *)
(*                                                                         *)
(* A handler runs from one await to the next in one action; every other    *)
(* handler and task may run in between.  What a task does is WorkflowExecutor *)
(* seen from outside: it checkpoints, consults its gate, pauses or ends.   *)
(***************************************************************************)
EXTENDS Integers, FiniteSets, ExecutionStates

CONSTANTS
    Handler,    \* concurrent request handlers
    MaxRuns,    \* bound: background tasks ever started
    MaxCrashes  \* bound: process crashes

ASSUME RunnerAssumption ==
    /\ MaxRuns \in Nat
    /\ MaxCrashes \in Nat
    /\ 0 \notin Handler
    /\ IsFiniteSet(Handler)

VARIABLES
    header,     \* the header row, with its idempotency key, exists
    row,        \* the status of the state row
    approval,   \* the approval request
    run,        \* the background tasks
    started,    \* tasks started so far; a task is known by its number
    handle,     \* _runs[execution_id]: a task, or 0
    handler,    \* the await each handler is at
    lock,       \* the advisory lock: a handler, or 0
    raced,      \* history: two handlers were about to start a task at once
    creates,    \* history: tasks started by create_execution
    crashes

vars == <<header, row, approval, run, started, handle, handler, lock, raced,
          creates, crashes>>

Run == 1..MaxRuns
LivePc == {"slot", "engine", "pausing", "unwinding"}
Task == [pc : {"none"} \cup LivePc, status : ExecutionStatus, cancelled : BOOLEAN]
NoRun == [pc |-> "none", status |-> "pending", cancelled |-> FALSE]

\* Between the last look at the table of handles and the start of a task.
WindowPc == {"starting", "claiming", "claimed", "loading", "launching"}

TypeOK ==
    /\ header \in BOOLEAN
    /\ row \in {"absent"} \cup ExecutionStatus
    /\ approval \in {"absent", "pending", "granted", "rejected"}
    /\ run \in [Run -> Task]
    /\ started \in 0..MaxRuns
    /\ handle \in 0..MaxRuns
    /\ handler \in [Handler -> {"idle", "saving", "decided"} \cup WindowPc]
    /\ lock \in Handler \cup {0}
    /\ raced \in BOOLEAN
    /\ creates \in Nat
    /\ crashes \in 0..MaxCrashes

Init ==
    /\ header = FALSE
    /\ row = "absent"
    /\ approval = "absent"
    /\ run = [k \in Run |-> NoRun]
    /\ started = 0
    /\ handle = 0
    /\ handler = [h \in Handler |-> "idle"]
    /\ lock = 0
    /\ raced = FALSE
    /\ creates = 0
    /\ crashes = 0

------------------------------------------------------------------------------
(* Handlers.                                                                *)

At(h, pc) == handler[h] = pc
Go(h, pc) == handler' = [handler EXCEPT ![h] = pc]
Window == {h \in Handler : handler[h] \in WindowPc}

\* Bound: handlers only set out for a start that MaxRuns has room for.
Committed == {h \in Handler : handler[h] # "idle"}
Room == started + Cardinality(Committed) < MaxRuns

\* What entering the window means for the history.
Enters(h) == raced' = (raced \/ Window \ {h} # {})

\* ExecutionRunner.start: the table's entry is overwritten.
StartTask(status) ==
    /\ started < MaxRuns
    /\ started' = started + 1
    /\ run' = [run EXCEPT ![started + 1] =
                  [pc |-> "slot", status |-> status, cancelled |-> FALSE]]
    /\ handle' = started + 1

\* create_execution: the header is inserted; a request whose idempotency key
\* is known returns the existing execution and changes nothing.
Create(h) ==
    /\ At(h, "idle") /\ Room
    /\ ~header
    /\ header' = TRUE
    /\ Go(h, "saving")
    /\ UNCHANGED <<row, approval, run, started, handle, lock, raced,
                   creates, crashes>>

\* save_state, before the task is scheduled.
SaveNew(h) ==
    /\ At(h, "saving")
    /\ row' = "pending"
    /\ Go(h, "starting")
    /\ Enters(h)
    /\ UNCHANGED <<header, approval, run, started, handle, lock,
                   creates, crashes>>

StartNew(h) ==
    /\ At(h, "starting")
    /\ StartTask("pending")
    /\ creates' = creates + 1
    /\ Go(h, "idle")
    /\ UNCHANGED <<header, row, approval, lock, raced, crashes>>

\* approve and reject: the decision is recorded, then resume is called.
Decide(h) ==
    /\ At(h, "idle") /\ Room
    /\ approval = "pending"
    /\ approval' \in {"granted", "rejected"}
    /\ Go(h, "decided")
    /\ UNCHANGED <<header, row, run, started, handle, lock, raced,
                   creates, crashes>>

\* Mutant of Inactive: is_active is not asked.
InactiveAssumed == TRUE

\* ~is_active.
Inactive == handle = 0

\* The head of resume: an execution with a handle is left alone, any other is
\* to be claimed.
CallResume(h) ==
    /\ \/ Inactive /\ Go(h, "claiming") /\ Enters(h)
       \/ ~Inactive /\ Go(h, "idle") /\ UNCHANGED raced
    /\ UNCHANGED <<header, row, approval, run, started, handle, lock,
                   creates, crashes>>

\* The resume route.  With a handle it answers "already running".
ResumeRoute(h) == At(h, "idle") /\ Room /\ Inactive /\ CallResume(h)

ResumeDecided(h) == At(h, "decided") /\ CallResume(h)

\* claim_for_resume: pg_try_advisory_xact_lock, refused while it is held.
Claim(h) ==
    /\ At(h, "claiming")
    /\ \/ lock = 0 /\ lock' = h /\ Go(h, "claimed")
       \/ lock # 0 /\ Go(h, "idle") /\ UNCHANGED lock
    /\ UNCHANGED <<header, row, approval, run, started, handle, raced,
                   creates, crashes>>

\* Mutant of Unclaim: a lock of the session, which the pool's connection keeps.
UnclaimSession(h) ==
    /\ At(h, "claimed")
    /\ Go(h, "loading")
    /\ UNCHANGED <<header, row, approval, run, started, handle, lock, raced,
                   creates, crashes>>

\* The claim's transaction ends, and the lock with it.
Unclaim(h) ==
    /\ At(h, "claimed")
    /\ lock' = 0
    /\ Go(h, "loading")
    /\ UNCHANGED <<header, row, approval, run, started, handle, raced,
                   creates, crashes>>

\* CheckpointManager.resume: no state is NotFound, a terminal one is refused.
Loadable == row # "absent" /\ row \notin TerminalExecutionStatus

Load(h) ==
    /\ At(h, "loading")
    /\ Go(h, IF Loadable THEN "launching" ELSE "idle")
    /\ UNCHANGED <<header, row, approval, run, started, handle, lock,
                   raced, creates, crashes>>

\* restore_status_for_resume makes any loaded status running; then start.
Launch(h) ==
    /\ At(h, "launching")
    /\ StartTask("running")
    /\ Go(h, "idle")
    /\ UNCHANGED <<header, row, approval, lock, raced, creates, crashes>>

\* Mutant of Cancel: the task is taken out of the table at once.
CancelForgets ==
    /\ handle # 0
    /\ ~run[handle].cancelled
    /\ run' = [run EXCEPT ![handle].cancelled = TRUE]
    /\ handle' = 0
    /\ UNCHANGED <<header, row, approval, started, handler, lock, raced, creates,
                   crashes>>

\* The cancel route, and shutdown for every handle: the token of the task the
\* table knows.
Cancel ==
    /\ handle # 0
    /\ ~run[handle].cancelled
    /\ run' = [run EXCEPT ![handle].cancelled = TRUE]
    /\ UNCHANGED <<header, row, approval, started, handle, handler, lock,
                   raced, creates, crashes>>

------------------------------------------------------------------------------
(* Tasks: ExecutionRunner._execute.                                         *)

RunFrame == UNCHANGED <<header, started, handler, lock, raced, creates, crashes>>

\* Task k moves on, with this status in memory.
Moves(k, pc, status) ==
    run' = [run EXCEPT ![k].pc = pc, ![k].status = status]

\* The state row is overwritten with the task's status: the checkpoint names
\* no expected version.
Writes(k, pc, status) == Moves(k, pc, status) /\ row' = status

\* A slot is granted; a new execution checkpoints EXECUTION_STARTED, a resumed
\* one nothing.
GetSlot(k) ==
    /\ run[k].pc = "slot"
    /\ \/ run[k].status = "pending" /\ Writes(k, "engine", "running")
       \/ run[k].status = "running" /\ Moves(k, "engine", "running") /\ UNCHANGED row
    /\ UNCHANGED <<approval, handle>>
    /\ RunFrame

\* The deployment has none: the execution ends as failed.
NoSlot(k) ==
    /\ run[k].pc = "slot"
    /\ Writes(k, "unwinding", "failed")
    /\ UNCHANGED <<approval, handle>>
    /\ RunFrame

\* A checkpoint of the scheduling loop.
Checkpoint(k) ==
    /\ run[k].pc = "engine"
    /\ Writes(k, "engine", "running")
    /\ UNCHANGED <<approval, handle>>
    /\ RunFrame

\* A gate, if the workflow has one, finds or creates its request, undecided:
\* the task is to pause.
ConsultGate(k) ==
    /\ run[k].pc = "engine"
    /\ approval \in {"absent", "pending"}
    /\ approval' = "pending"
    /\ Moves(k, "pausing", "running")
    /\ UNCHANGED <<row, handle>>
    /\ RunFrame

\* The pause is checkpointed.
Pause(k) ==
    /\ run[k].pc = "pausing"
    /\ Writes(k, "unwinding", "waiting_for_approval")
    /\ UNCHANGED <<approval, handle>>
    /\ RunFrame

\* The engine ends.  Its verdict is WorkflowExecutor's: any status, but a
\* cancellation only once the token is set.
Ends(k) ==
    /\ run[k].pc = "engine"
    /\ \/ Writes(k, "unwinding", "failed")
       \/ Writes(k, "unwinding", "budget_exceeded")
       \/ Writes(k, "unwinding", "succeeded")
       \/ run[k].cancelled /\ Writes(k, "unwinding", "cancelled")
    /\ UNCHANGED <<approval, handle>>
    /\ RunFrame

\* The slot is given back and the table's entry popped, whosever it is.
Leave(k) ==
    /\ run[k].pc = "unwinding"
    /\ run' = [run EXCEPT ![k] = NoRun]
    /\ handle' = 0
    /\ UNCHANGED <<row, approval>>
    /\ RunFrame

------------------------------------------------------------------------------
\* The process dies: tables, tasks, handlers and the lock's transaction go.
Crash ==
    /\ crashes < MaxCrashes
    /\ crashes' = crashes + 1
    /\ run' = [k \in Run |-> NoRun]
    /\ handle' = 0
    /\ handler' = [h \in Handler |-> "idle"]
    /\ lock' = 0
    /\ UNCHANGED <<header, row, approval, started, raced, creates>>

TaskStep(k) ==
    \/ GetSlot(k) \/ NoSlot(k) \/ Checkpoint(k) \/ ConsultGate(k) \/ Pause(k)
    \/ Ends(k) \/ Leave(k)

\* What a handler does once it has set out.
HandlerStep(h) ==
    \/ SaveNew(h) \/ StartNew(h) \/ ResumeDecided(h)
    \/ Claim(h) \/ Unclaim(h) \/ Load(h) \/ Launch(h)

Next ==
    \/ \E h \in Handler :
          Create(h) \/ Decide(h) \/ ResumeRoute(h) \/ HandlerStep(h)
    \/ \E k \in Run : TaskStep(k)
    \/ Cancel
    \/ Crash

Spec == Init /\ [][Next]_vars

\* asyncio runs every ready task and handler; nobody owes the API a request.
FairSpec ==
    /\ Spec
    /\ \A k \in Run : WF_vars(TaskStep(k))
    /\ \A h \in Handler : WF_vars(HandlerStep(h))
------------------------------------------------------------------------------
(* Properties.                                                              *)

Live == {k \in Run : run[k].pc \in LivePc}

\* A retried POST with one idempotency key starts one task, even if the
\* process dies between the header and the state row (create_execution).
OneTaskPerCreate == creates <= 1

\* Unless two handlers were about to start a task at once, the table of
\* handles is right: it names the one live task, and while a handler is about
\* to start one there is none (start, resume, _execute).
TableIsRightUnlessRaced ==
    ~raced => /\ Live = (IF handle = 0 THEN {} ELSE {handle})
              /\ Window # {} => Live = {}

\* Nor is the terminal status of an execution ever revised then.
EndIsFinalUnlessRaced ==
    [][~raced' /\ row \in TerminalExecutionStatus => row' = row]_vars

\* A reviewer's decision on a paused execution without a handle is taken up,
\* whoever else claims, resumes or cancels it meanwhile: the row leaves the
\* pause, unless the process dies first (approve_execution, resume).
DecisionsAreTakenUp ==
    \A h \in Handler, c \in 0..MaxCrashes :
        At(h, "decided") /\ handle = 0 /\ row = "waiting_for_approval" /\ crashes = c
        ~> row # "waiting_for_approval" \/ crashes # c

\* What a comment of tests/integration/test_api.py says of every pause: its task
\* has gone from the table, and approving resumes the execution automatically.
\* So none waits for a decision it has (approve_execution).  Violated: the table
\* may still hold the task that paused.
DecisionsAreActedOn ==
    row = "waiting_for_approval" /\ approval \in {"granted", "rejected"}
    ~> row # "waiting_for_approval"

------------------------------------------------------------------------------
(* The inductive invariant of the proofs, in parts.                         *)

\* One handler ever gets past the header; until it saves there is no row, and
\* without a row nothing is started.
Creating == {h \in Handler : handler[h] \in {"saving", "starting"}}
CreatesOnce ==
    /\ creates \in {0, 1}
    /\ creates = 1 \/ Creating # {} => header
    /\ creates = 1 => Creating = {}
    /\ \A g, h \in Creating : g = h
    /\ \A h \in Handler : handler[h] = "saving" => row = "absent"
    /\ ~header => row = "absent"
    /\ row = "absent" => /\ Live = {}
                         /\ \A h \in Handler : handler[h] \notin {"starting", "launching"}

\* Without a race one handler is in the window, and whoever is about to write
\* the row has an execution that is not over.
AloneUnlessRaced ==
    ~raced =>
        /\ \A g, h \in Window : g = h
        /\ (\/ \E k \in Run : run[k].pc \in {"slot", "engine", "pausing"}
            \/ \E h \in Handler : handler[h] \in {"starting", "launching"})
           => row \notin TerminalExecutionStatus

Consistent == CreatesOnce /\ TableIsRightUnlessRaced /\ AloneUnlessRaced
===============================================================================
