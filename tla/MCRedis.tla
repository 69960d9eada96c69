------------------------------- MODULE MCRedis -------------------------------
(***************************************************************************)
(* TLC instance of the two parts that share a Redis and no key: the stream *)
(* of events (two emitters, one viewer, three events over a run and its    *)
(* resume, two faults, a stream that keeps one entry), and coordination    *)
(* (two workers and a lock of two ticks; three tasks, two slots and a      *)
(* counter of two ticks).  A behaviour is one of one part; the other stays *)
(* as it is.                                                               *)
(***************************************************************************)
EXTENDS EventStream, Coordination

CONSTANTS e1, e2, v1, w1, w2, t1, t2, t3

VARIABLES part

redisVars == <<part, streamVars, coordinationVars>>

Events(step) == part = "events" /\ step /\ UNCHANGED <<part, coordinationVars>>
Keys(step) == part = "coordination" /\ step /\ UNCHANGED <<part, streamVars>>

RedisInit ==
    part \in {"events", "coordination"} /\ StreamInit /\ CoordinationInit

RedisNext == Events(StreamNext) \/ Keys(CoordinationNext)

\* The fairness of StreamSpec and of CoordinationSpec: of a behaviour's part, so
\* that one of the two disjuncts is never enabled.
RedisSpec ==
    /\ RedisInit /\ [][RedisNext]_redisVars
    /\ \A v \in Viewer : WF_redisVars(Events(ViewerStep(v)) \/ Keys(Tick))
==============================================================================
