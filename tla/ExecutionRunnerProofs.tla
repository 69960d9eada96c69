------------------------- MODULE ExecutionRunnerProofs -------------------------
(***************************************************************************)
(* Proofs of the safety properties of ExecutionRunner, for any finite set  *)
(* of handlers and any bounds.                                             *)
(***************************************************************************)
EXTENDS ExecutionRunner, TLAPS

LEMMA NoRunIsTask == NoRun \in Task
BY DEF NoRun, Task, ExecutionStatus

LEMMA MovesIsTyped ==
    ASSUME run \in [Run -> Task], NEW k \in Run, NEW pc \in LivePc,
           NEW status \in ExecutionStatus, Moves(k, pc, status)
    PROVE  run' \in [Run -> Task]
<1>1. [[run[k] EXCEPT !.pc = pc] EXCEPT !.status = status] \in Task
  BY DEF Task
<1> QED
  BY <1>1 DEF Moves

LEMMA StartTaskIsTyped ==
    ASSUME TypeOK, NEW status \in {"pending", "running"}, StartTask(status)
    PROVE  started' \in 0..MaxRuns /\ handle' \in 0..MaxRuns /\ run' \in [Run -> Task]
<1>1. [pc |-> "slot", status |-> status, cancelled |-> FALSE] \in Task
  BY DEF Task, LivePc, ExecutionStatus
<1> QED
  BY <1>1, RunnerAssumption DEF RunnerAssumption, StartTask, TypeOK, Run

LEMMA TaskStepIsTyped ==
    ASSUME TypeOK, NEW k \in Run, TaskStep(k)
    PROVE  /\ run' \in [Run -> Task]
           /\ row' \in {"absent"} \cup ExecutionStatus
           /\ approval' \in {"absent", "pending", "granted", "rejected"}
           /\ handle' \in {handle, 0}
           /\ RunFrame
<1>1. /\ {"running", "failed", "waiting_for_approval", "succeeded",
          "budget_exceeded", "cancelled"} \subseteq ExecutionStatus
      /\ {"engine", "pausing", "unwinding"} \subseteq LivePc
  BY DEF ExecutionStatus, LivePc
<1> USE <1>1, MovesIsTyped DEF TypeOK, Writes
<1>2. CASE GetSlot(k) \/ NoSlot(k) \/ Checkpoint(k)
  BY <1>2 DEF GetSlot, NoSlot, Checkpoint
<1>3. CASE ConsultGate(k)
  BY <1>3 DEF ConsultGate
<1>4. CASE Pause(k)
  BY <1>4 DEF Pause
<1>5. CASE Ends(k)
  BY <1>5 DEF Ends
<1>6. CASE Leave(k)
  BY <1>6, NoRunIsTask DEF Leave
<1> QED
  BY <1>2, <1>3, <1>4, <1>5, <1>6 DEF TaskStep

\* Every reachable state is well typed.
THEOREM TypeCorrect == Spec => []TypeOK
<1> USE RunnerAssumption DEF RunnerAssumption
<1>1. Init => TypeOK
  <2> SUFFICES ASSUME Init PROVE TypeOK
    OBVIOUS
  <2>1. run \in [Run -> Task]
    BY NoRunIsTask DEF Init
  <2>2. handler \in [Handler -> {"idle", "saving", "decided"} \cup WindowPc]
    BY DEF Init
  <2>3. /\ started \in 0..MaxRuns /\ handle \in 0..MaxRuns
        /\ creates \in Nat /\ crashes \in 0..MaxCrashes
    BY DEF Init
  <2> QED
    BY <2>1, <2>2, <2>3, Zenon DEF Init, TypeOK
<1>2. TypeOK /\ [Next]_vars => TypeOK'
  <2> SUFFICES ASSUME TypeOK, [Next]_vars PROVE TypeOK'
    OBVIOUS
  <2> USE DEF TypeOK
  <2>1. ASSUME NEW h \in Handler,
               Create(h) \/ SaveNew(h) \/ Decide(h) \/ CallResume(h)
        PROVE  TypeOK'
    BY <2>1 DEF Create, SaveNew, Decide, CallResume, Go, At, Enters, WindowPc,
       ExecutionStatus
  <2>2. ASSUME NEW h \in Handler, Claim(h) \/ Unclaim(h) \/ Load(h) PROVE TypeOK'
    BY <2>2 DEF Claim, Unclaim, Load, Go, At, WindowPc
  <2>3. ASSUME NEW h \in Handler, StartNew(h) \/ Launch(h) PROVE TypeOK'
    <3>1. PICK status \in {"pending", "running"} : StartTask(status)
      BY <2>3 DEF StartNew, Launch
    <3> QED
      BY <2>3, <3>1, StartTaskIsTyped DEF StartNew, Launch, Go, At
  <2>4. ASSUME NEW k \in Run, TaskStep(k) PROVE TypeOK'
    BY <2>4, TaskStepIsTyped DEF RunFrame
  <2>5. CASE Cancel
    <3>1. handle \in Run
      BY <2>5 DEF Cancel, Run
    <3>2. [run[handle] EXCEPT !.cancelled = TRUE] \in Task
      BY <3>1 DEF Task
    <3> QED
      BY <2>5, <3>1, <3>2 DEF Cancel
  <2>6. CASE Crash
    BY <2>6, NoRunIsTask DEF Crash
  <2>7. CASE UNCHANGED vars
    BY <2>7 DEF vars
  <2> QED
    BY <2>1, <2>2, <2>3, <2>4, <2>5, <2>6, <2>7
       DEF Next, HandlerStep, ResumeRoute, ResumeDecided
<1> QED
  BY <1>1, <1>2, PTL DEF Spec

------------------------------------------------------------------------------
\* What starting a task does to the live ones.
LEMMA StartedTaskIsLive ==
    ASSUME TypeOK, NEW status, StartTask(status)
    PROVE  /\ started' \in Run /\ handle' = started' /\ handle' # 0
           /\ Live' = Live \cup {started'}
           /\ \A k \in Run : k # started' => run'[k] = run[k]
           /\ run'[started'].pc = "slot"
BY RunnerAssumption DEF RunnerAssumption, TypeOK, Task, StartTask, Live, Run, LivePc

\* What a step of a task does to the live ones, to the row and to the table.
LEMMA TasksMoveOn ==
    ASSUME TypeOK, NEW k \in Run, TaskStep(k)
    PROVE  /\ k \in Live
           /\ \A j \in Run : j # k => run'[j] = run[j]
           /\ UNCHANGED <<header, started, handler, lock, raced, creates>>
           /\ \/ Live' = Live /\ handle' = handle
              \/ Live' = Live \ {k} /\ handle' = 0 /\ row' = row
           /\ row' # row => run[k].pc \in {"slot", "engine", "pausing"}
           /\ run'[k].pc \in {"slot", "engine", "pausing"} =>
                 /\ run[k].pc \in {"slot", "engine", "pausing"}
                 /\ row' \in {row, "running"}
           /\ row' # row => row' \in ExecutionStatus
<1> USE DEF TypeOK, Task, Live, LivePc, RunFrame, ExecutionStatus
<1>1. CASE GetSlot(k) \/ NoSlot(k) \/ Checkpoint(k)
  BY <1>1 DEF GetSlot, NoSlot, Checkpoint, Writes, Moves
<1>2. CASE ConsultGate(k) \/ Pause(k)
  BY <1>2 DEF ConsultGate, Pause, Writes, Moves
<1>3. CASE Ends(k)
  BY <1>3 DEF Ends, Writes, Moves
<1>4. CASE Leave(k)
  BY <1>4 DEF Leave, NoRun
<1> QED
  BY <1>1, <1>2, <1>3, <1>4 DEF TaskStep

\* What cancelling and crashing do to the live tasks.
LEMMA CancelKeepsPc ==
    ASSUME TypeOK, Cancel
    PROVE  Live' = Live /\ \A k \in Run : run'[k].pc = run[k].pc
<1>1. handle \in Run
  BY RunnerAssumption DEF RunnerAssumption, TypeOK, Cancel, Run
<1> QED
  BY <1>1 DEF TypeOK, Task, Cancel, Live

LEMMA CrashEndsAll ==
    ASSUME Crash
    PROVE  /\ Live' = {} /\ handle' = 0 /\ Window' = {} /\ Creating' = {}
           /\ \A k \in Run : run'[k].pc = "none"
           /\ \A h \in Handler : handler'[h] = "idle"
BY DEF Crash, Live, LivePc, NoRun, Window, WindowPc, Creating

\* The handler that starts the new execution is the only one past the header.
LEMMA CreatesOnceStep ==
    ASSUME TypeOK, CreatesOnce, [Next]_vars
    PROVE  CreatesOnce'
<1> USE DEF CreatesOnce
<1>1. ASSUME NEW h \in Handler,
             \/ Create(h) \/ SaveNew(h) \/ Decide(h)
             \/ CallResume(h) /\ handler[h] \in {"idle", "decided"}
      PROVE  CreatesOnce'
  <2> USE DEF TypeOK, Go, At, Creating, Live
  <2>1. CASE Create(h)
    BY <2>1 DEF Create
  <2>2. CASE SaveNew(h)
    BY <2>2 DEF SaveNew
  <2>3. CASE Decide(h)
    BY <2>3 DEF Decide
  <2>4. CASE CallResume(h) /\ handler[h] \in {"idle", "decided"}
    BY <2>4 DEF CallResume
  <2> QED
    BY <1>1, <2>1, <2>2, <2>3, <2>4
<1>2. ASSUME NEW h \in Handler, Claim(h) \/ Unclaim(h) \/ Load(h)
      PROVE  CreatesOnce'
  BY <1>2 DEF TypeOK, Go, At, Creating, Live, Claim, Unclaim, Load, Loadable
<1>3. ASSUME NEW h \in Handler, StartNew(h) PROVE CreatesOnce'
  BY <1>3 DEF TypeOK, Go, At, Creating, StartNew
<1>4. ASSUME NEW h \in Handler, Launch(h) PROVE CreatesOnce'
  BY <1>4 DEF TypeOK, Go, At, Creating, Launch
<1>5. ASSUME NEW k \in Run, TaskStep(k) PROVE CreatesOnce'
  <2>1. row # "absent" /\ row' # "absent"
    BY <1>5, TasksMoveOn DEF ExecutionStatus
  <2> QED
    BY <1>5, <2>1, TasksMoveOn DEF Creating
<1>6. CASE Cancel
  <2>1. UNCHANGED <<header, row, handler, creates>>
    BY <1>6 DEF Cancel
  <2> QED
    BY <1>6, <2>1, CancelKeepsPc DEF Creating
<1>7. CASE Crash
  <2>1. UNCHANGED <<header, row, creates>>
    BY <1>7 DEF Crash
  <2> QED
    BY <1>7, <2>1, CrashEndsAll
<1>8. CASE UNCHANGED vars
  BY <1>8 DEF vars, Creating, Live
<1> HIDE DEF CreatesOnce
<1>9. ASSUME NEW h \in Handler,
             Create(h) \/ Decide(h) \/ ResumeRoute(h) \/ HandlerStep(h)
      PROVE  CreatesOnce'
  <2>1. CASE ResumeRoute(h) \/ ResumeDecided(h)
    BY <1>1, <2>1 DEF ResumeRoute, ResumeDecided, At
  <2>2. CASE Create(h) \/ SaveNew(h) \/ Decide(h)
    BY <1>1, <2>2
  <2>3. CASE Claim(h) \/ Unclaim(h) \/ Load(h)
    BY <1>2, <2>3
  <2> QED
    BY <1>3, <1>4, <1>9, <2>1, <2>2, <2>3 DEF HandlerStep
<1> QED
  BY <1>5, <1>6, <1>7, <1>8, <1>9 DEF Next

\* One task per idempotency key, over any crashes.
THEOREM CreatesOneTask == Spec => []OneTaskPerCreate
<1>1. Init => CreatesOnce
  BY DEF Init, CreatesOnce, Creating, Live, LivePc, NoRun
<1>2. TypeOK /\ CreatesOnce /\ [Next]_vars => CreatesOnce'
  BY CreatesOnceStep
<1>3. CreatesOnce => OneTaskPerCreate
  BY DEF CreatesOnce, OneTaskPerCreate
<1> QED
  BY <1>1, <1>2, <1>3, TypeCorrect, PTL DEF Spec


------------------------------------------------------------------------------
\* A handler that leaves the window, or moves within it or outside it, without
\* a task started or a row written, disturbs nothing of Consistent.
LEMMA ConsistentByHandler ==
    ASSUME TypeOK, CreatesOnce, CreatesOnce', TableIsRightUnlessRaced, AloneUnlessRaced,
           NEW h \in Handler,
           \/ Create(h) \/ Decide(h) \/ SaveNew(h) \/ Claim(h) \/ Unclaim(h) \/ Load(h)
           \/ CallResume(h) /\ handler[h] \in {"idle", "decided"}
    PROVE  TableIsRightUnlessRaced' /\ AloneUnlessRaced'
<1> USE DEF TableIsRightUnlessRaced, AloneUnlessRaced, TypeOK, Go, At, Window,
            WindowPc, Live
<1>1. CASE Create(h) \/ Decide(h)
  BY <1>1 DEF Create, Decide
<1>2. CASE SaveNew(h)
  BY <1>2 DEF SaveNew, Enters, CreatesOnce, TerminalExecutionStatus
<1>3. CASE Claim(h) \/ Unclaim(h)
  BY <1>3 DEF Claim, Unclaim
<1>4. CASE Load(h)
  BY <1>4 DEF Load, Loadable
<1>5. CASE CallResume(h) /\ handler[h] \in {"idle", "decided"}
  <2>1. CASE Go(h, "claiming") /\ Enters(h) /\ Inactive
    <3> SUFFICES ASSUME ~raced'
                 PROVE  TableIsRightUnlessRaced' /\ AloneUnlessRaced'
      OBVIOUS
    <3>1. ~raced /\ Live = {} /\ Window \ {h} = {}
      BY <2>1 DEF Enters, Inactive
    <3>2. UNCHANGED <<row, run, handle>>
      BY <1>5 DEF CallResume
    <3> QED
      BY <2>1, <3>1, <3>2 DEF Inactive
  <2>2. CASE Go(h, "idle") /\ UNCHANGED raced
    BY <1>5, <2>2 DEF CallResume
  <2> QED
    BY <1>5, <2>1, <2>2 DEF CallResume
<1> QED
  BY <1>1, <1>2, <1>3, <1>4, <1>5

\* A handler that starts a task was the only one in the window, and there was
\* no live task.
LEMMA ConsistentByStart ==
    ASSUME TypeOK, TableIsRightUnlessRaced, AloneUnlessRaced,
           NEW h \in Handler, StartNew(h) \/ Launch(h)
    PROVE  TableIsRightUnlessRaced' /\ AloneUnlessRaced'
<1>1. PICK status : StartTask(status)
  BY DEF StartNew, Launch
<1>2. /\ handler[h] \in {"starting", "launching"}
      /\ handler' = [handler EXCEPT ![h] = "idle"]
      /\ raced' = raced /\ row' = row
  BY DEF StartNew, Launch, At, Go
<1> SUFFICES ASSUME ~raced
             PROVE  TableIsRightUnlessRaced' /\ AloneUnlessRaced'
  BY <1>2 DEF TableIsRightUnlessRaced, AloneUnlessRaced
<1>3. h \in Window /\ Window' = {}
  BY <1>2 DEF AloneUnlessRaced, Window, WindowPc, TypeOK
<1>4. Live = {}
  BY <1>3 DEF TableIsRightUnlessRaced
<1>5. Live' = {handle'} /\ handle' # 0
  BY <1>1, <1>4, StartedTaskIsLive
<1>6. TableIsRightUnlessRaced'
  BY <1>3, <1>5 DEF TableIsRightUnlessRaced
<1>7. row' \notin TerminalExecutionStatus
  BY <1>2 DEF AloneUnlessRaced
<1> QED
  BY <1>3, <1>6, <1>7 DEF AloneUnlessRaced

\* A task that moves is the one live task; it writes only while it is active.
LEMMA ConsistentByTask ==
    ASSUME TypeOK, TableIsRightUnlessRaced, AloneUnlessRaced,
           NEW k \in Run, TaskStep(k)
    PROVE  TableIsRightUnlessRaced' /\ AloneUnlessRaced'
<1>1. raced' = raced /\ handler' = handler /\ Window' = Window
  BY TasksMoveOn DEF Window
<1> SUFFICES ASSUME ~raced
             PROVE  TableIsRightUnlessRaced' /\ AloneUnlessRaced'
  BY <1>1 DEF TableIsRightUnlessRaced, AloneUnlessRaced
<1>2. Live = {k} /\ handle = k /\ handle # 0 /\ Window = {}
  BY TasksMoveOn DEF TableIsRightUnlessRaced
<1>3. TableIsRightUnlessRaced'
  BY <1>1, <1>2, TasksMoveOn DEF TableIsRightUnlessRaced
<1>4. ASSUME NEW j \in Run, run'[j].pc \in {"slot", "engine", "pausing"}
      PROVE  row' \notin TerminalExecutionStatus
  <2>1. j \in Live'
    BY <1>4 DEF Live, LivePc
  <2>2. j = k
    BY <1>2, <2>1, TasksMoveOn
  <2>3. row \notin TerminalExecutionStatus /\ row' \in {row, "running"}
    BY <1>4, <2>2, TasksMoveOn DEF AloneUnlessRaced
  <2> QED
    BY <2>3 DEF TerminalExecutionStatus
<1>5. \A g \in Handler : handler'[g] \notin {"starting", "launching"}
  BY <1>1, <1>2 DEF Window, WindowPc
<1> QED
  BY <1>1, <1>2, <1>3, <1>4, <1>5 DEF AloneUnlessRaced

\* Every step keeps the inductive invariant.
LEMMA ConsistentStep ==
    ASSUME TypeOK, Consistent, [Next]_vars
    PROVE  Consistent'
<1>1. CreatesOnce'
  BY CreatesOnceStep DEF Consistent
<1>2. ASSUME NEW h \in Handler,
             Create(h) \/ Decide(h) \/ ResumeRoute(h) \/ HandlerStep(h)
      PROVE  TableIsRightUnlessRaced' /\ AloneUnlessRaced'
  <2>1. CASE StartNew(h) \/ Launch(h)
    BY <2>1, ConsistentByStart DEF Consistent
  <2>2. CASE ~(StartNew(h) \/ Launch(h))
    BY <1>1, <1>2, <2>2, ConsistentByHandler
       DEF Consistent, HandlerStep, ResumeRoute, ResumeDecided, At
  <2> QED
    BY <2>1, <2>2
<1>3. ASSUME NEW k \in Run, TaskStep(k)
      PROVE  TableIsRightUnlessRaced' /\ AloneUnlessRaced'
  BY <1>3, ConsistentByTask DEF Consistent
<1> SUFFICES TableIsRightUnlessRaced' /\ AloneUnlessRaced'
  BY <1>1 DEF Consistent
<1>4. CASE Cancel
  <2>1. UNCHANGED <<row, handler, handle, raced>> /\ Window' = Window
    BY <1>4 DEF Cancel, Window
  <2> QED
    BY <1>4, <2>1, CancelKeepsPc
       DEF Consistent, TableIsRightUnlessRaced, AloneUnlessRaced
<1>5. CASE Crash
  <2>1. UNCHANGED <<row, raced>>
    BY <1>5 DEF Crash
  <2> QED
    BY <1>5, <2>1, CrashEndsAll DEF TableIsRightUnlessRaced, AloneUnlessRaced
<1>6. CASE UNCHANGED vars
  BY <1>6 DEF vars, Consistent, TableIsRightUnlessRaced, AloneUnlessRaced, Live, Window
<1> QED
  BY <1>2, <1>3, <1>4, <1>5, <1>6 DEF Next

\* The inductive invariant: one creator, and without a race one handler about to
\* start a task or one live task, never both.
THEOREM AlwaysConsistent == Spec => []Consistent
<1>1. Init => Consistent
  BY DEF Init, Consistent, CreatesOnce, TableIsRightUnlessRaced, AloneUnlessRaced,
         Creating, Live, LivePc, NoRun, Window, WindowPc
<1> QED
  BY <1>1, ConsistentStep, TypeCorrect, PTL DEF Spec

\* Without a race the table names the one live task.
THEOREM TableIsRight == Spec => []TableIsRightUnlessRaced
<1>1. Consistent => TableIsRightUnlessRaced
  BY DEF Consistent
<1> QED
  BY <1>1, AlwaysConsistent, PTL

\* Without a race the end of an execution is final.
THEOREM EndIsFinal == Spec => EndIsFinalUnlessRaced
<1>1. TypeOK /\ Consistent /\ [Next]_vars
      => [~raced' /\ row \in TerminalExecutionStatus => row' = row]_vars
  <2> SUFFICES ASSUME TypeOK, Consistent, [Next]_vars,
                      ~raced', row \in TerminalExecutionStatus
               PROVE  row' = row
    OBVIOUS
  <2>1. ASSUME NEW h \in Handler, SaveNew(h) PROVE FALSE
    BY <2>1 DEF SaveNew, At, Consistent, CreatesOnce, TerminalExecutionStatus
  <2>2. ASSUME NEW k \in Run, TaskStep(k) PROVE row' = row
    BY <2>2, TasksMoveOn DEF Consistent, AloneUnlessRaced
  <2> QED
    BY <2>1, <2>2
       DEF Next, vars, Create, Decide, ResumeRoute, HandlerStep, StartNew,
           ResumeDecided, CallResume, Claim, Unclaim, Load, Launch, Cancel, Crash
<1> QED
  BY <1>1, TypeCorrect, AlwaysConsistent, PTL DEF Spec, EndIsFinalUnlessRaced

===============================================================================
