---------------------------- MODULE Coordination ----------------------------
(***************************************************************************)
(* Locks and slots in Redis (coordination/redis.py).  A lock is a key with *)
(* its owner's token and a time to live; a slot is one count in a key      *)
(* whose time to live each grant renews.  Holders die, replies get lost,   *)
(* and work outlives the keys that were to protect it.  Time is counted in *)
(* ticks; each script runs at once.  A worker's name stands for the token  *)
(* it drew: it keeps one handle at a time, and none after an error.        *)
(***************************************************************************)
EXTENDS Naturals, FiniteSets

CONSTANTS Worker,   \* what takes the lock
          Task,     \* what takes a slot, an execution in the runner
          Limit, LockTtl, SlotTtl,
          NoOwner

ASSUME CoordinationAssumption ==
  /\ IsFiniteSet(Task) /\ NoOwner \notin Worker
  /\ Limit \in Nat \ {0} /\ LockTtl \in Nat \ {0} /\ SlotTtl \in Nat \ {0}

VARIABLES owner,    \* the token in the lock's key, NoOwner without the key
          left,     \* ticks the lock's key has to live
          holding,  \* the workers that have a handle
          lease,    \* history: ticks left of what the worker was last granted
          count,    \* the slot counter, 0 without its key
          life,     \* ticks the counter's key has to live
          working,  \* the tasks that were granted a slot and have not returned it
          lapsed    \* history: the counter ran out under a task of this busy period

lockVars == <<owner, left, holding, lease>>
slotVars == <<count, life, working, lapsed>>
coordinationVars == <<lockVars, slotVars>>

CoordinationInit ==
  /\ owner = NoOwner /\ left = 0 /\ holding = {} /\ lease = [w \in Worker |-> 0]
  /\ count = 0 /\ life = 0 /\ working = {} /\ lapsed = FALSE

-----------------------------------------------------------------------------
(* The lock. *)

\* SET NX PX.  A reply that is lost leaves the key and gives no handle.
AcquireLock(w, heard) ==
  /\ w \notin holding /\ owner = NoOwner
  /\ owner' = w /\ left' = LockTtl
  /\ IF heard
     THEN holding' = holding \cup {w} /\ lease' = [lease EXCEPT ![w] = LockTtl]
     ELSE UNCHANGED <<holding, lease>>
  /\ UNCHANGED slotVars

\* Mutant of Holds: the script does not compare the token.
HoldsAnything(w) == owner # NoOwner

\* The scripts of release and extension compare the token first.
Holds(w) == owner = w

ExtendLock(w, heard) ==
  /\ w \in holding /\ Holds(w)
  /\ left' = LockTtl
  /\ lease' = IF heard THEN [lease EXCEPT ![w] = LockTtl] ELSE lease
  /\ UNCHANGED <<owner, holding, slotVars>>

\* The handle is dropped, whether or not the script was run.
ReleaseLock(w, reached) ==
  /\ w \in holding /\ holding' = holding \ {w}
  /\ lease' = [lease EXCEPT ![w] = 0]
  /\ IF reached /\ Holds(w) THEN owner' = NoOwner /\ left' = 0 ELSE UNCHANGED <<owner, left>>
  /\ UNCHANGED slotVars

-----------------------------------------------------------------------------
(* The slots. *)

\* The busy period ends with its last task.
Period(tasks) ==
  /\ working' = tasks
  /\ lapsed' = (lapsed /\ tasks # {})

\* Mutant of Refusal: a refused attempt renews the counter too.
RefusalRenews == life' = SlotTtl

Granted == count < Limit

\* A refusal touches nothing.
Refusal == UNCHANGED life

\* One script checks, counts and renews.
AcquireSlot(t, heard) ==
  /\ t \notin working
  /\ IF Granted
     THEN /\ count' = count + 1 /\ life' = SlotTtl
          /\ Period(IF heard THEN working \cup {t} ELSE working)
     ELSE Refusal /\ UNCHANGED <<count, working, lapsed>>
  /\ UNCHANGED lockVars

\* Mutant of Returned: a slot is returned twice.
ReturnedTwice == IF count <= 1 THEN 0 ELSE count - 2

Returned == IF count = 0 THEN 0 ELSE count - 1

\* Nothing tells whose slot is returned: the count may be another's by now.
ReleaseSlot(t, reached) ==
  /\ t \in working /\ Period(working \ {t})
  /\ count' = IF reached THEN Returned ELSE count
  /\ UNCHANGED <<life, lockVars>>

-----------------------------------------------------------------------------
Less(n) == IF n = 0 THEN 0 ELSE n - 1

\* A tick; keys that reach the end of their life are gone.
Tick ==
  /\ left' = Less(left) /\ life' = Less(life)
  /\ owner' = IF left' = 0 THEN NoOwner ELSE owner
  /\ lease' = [w \in Worker |-> Less(lease[w])]
  /\ count' = IF life' = 0 THEN 0 ELSE count
  /\ lapsed' = (lapsed \/ (count' # count /\ working # {}))
  /\ UNCHANGED <<holding, working>>

\* A process dies with its handle or its slot.
WorkerDies(w) ==
  /\ w \in holding /\ holding' = holding \ {w} /\ lease' = [lease EXCEPT ![w] = 0]
  /\ UNCHANGED <<owner, left, slotVars>>

TaskDies(t) ==
  /\ t \in working /\ Period(working \ {t})
  /\ UNCHANGED <<count, life, lockVars>>

CoordinationNext ==
  \/ Tick
  \/ \E w \in Worker :
        \/ WorkerDies(w)
        \/ \E ok \in BOOLEAN : AcquireLock(w, ok) \/ ExtendLock(w, ok) \/ ReleaseLock(w, ok)
  \/ \E t \in Task :
        \/ TaskDies(t)
        \/ \E ok \in BOOLEAN : AcquireSlot(t, ok) \/ ReleaseSlot(t, ok)

\* Time passes, and nothing else is sure to happen.
CoordinationSpec ==
  CoordinationInit /\ [][CoordinationNext]_coordinationVars /\ WF_coordinationVars(Tick)

-----------------------------------------------------------------------------
TypeOK ==
  /\ owner \in Worker \cup {NoOwner} /\ left \in 0..LockTtl
  /\ holding \subseteq Worker /\ lease \in [Worker -> 0..LockTtl]
  /\ count \in 0..Limit /\ life \in 0..SlotTtl
  /\ working \subseteq Task /\ lapsed \in BOOLEAN

\* Until the time a worker was last granted has run out the lock is its own:
\* no release or extension that comes late, from one whose lock expired, takes
\* it away (coordination/redis.py:42).
LeaseIsExclusive ==
  \A w \in Worker : lease[w] > 0 => owner = w /\ lease[w] <= left

\* Over deaths and lost replies no more tasks work than the limit allows,
\* unless the counter's own life ran out while one of them worked
\* (coordination/redis.py:236).
OnlyALapseOverAdmits == Cardinality(working) > Limit => lapsed

\* What the dead have left behind heals: no orphaned lock stays for ever, nor a
\* counter that leaked slots fill, however often others try meanwhile
\* (coordination/redis.py:14).
LeaksHeal ==
  /\ \A w \in Worker : []<>(owner # w \/ w \in holding)
  /\ []<>(count < Limit \/ working # {})
=============================================================================
