----------------------------- MODULE EventStream -----------------------------
(***************************************************************************)
(* The events of one execution: numbered by the bus (events/bus.py),       *)
(* written side by side to the durable log and to a capped stream, read    *)
(* back by the live route (api/routes/executions.py), which replays the    *)
(* stream and then follows it, and shown by a page that reconnects.        *)
(*                                                                         *)
(* The stream is everything ever appended, log, of which the first floor   *)
(* entries are trimmed; a position in log stands for an entry's id.        *)
(***************************************************************************)
EXTENDS Naturals, Sequences, FiniteSets

CONSTANTS Emitter,        \* tasks of a run that emit side by side
          Viewer,
          Cap,            \* entries a trim leaves at least
          MaxEvents, MaxRuns, MaxFaults

ASSUME StreamAssumption ==
  Cap \in Nat \ {0} /\ MaxEvents \in Nat /\ MaxRuns \in Nat /\ MaxFaults \in Nat

VARIABLES phase,     \* of the run: off, on, or ending
          runs,      \* runs begun: the first, and one per resume
          sequence,  \* the bus's counter
          current,   \* the event each emitter delivers
          owed,      \* the sinks that have not answered it
          rows,      \* the durable log
          log, floor,
          status,    \* the durable status
          conn,      \* where each viewer's connection is
          at, goal,  \* the route's cursor, and the end of its backlog
          last,      \* the viewer's last event id
          seen,      \* the events it shows
          published, faults,
          refused    \* history: rows the unique key turned away

runVars == <<phase, runs, sequence, current, owed, status, published>>
store == <<rows, log, floor, refused>>
view == <<conn, at, goal, last, seen>>
streamVars == <<runVars, store, view, faults>>

Sink == {"log", "stream"}
Event == [run : 1..MaxRuns, sequence : Nat, ending : BOOLEAN]
NoEvent == [run |-> 0, sequence |-> 0, ending |-> FALSE]
Connection == {"new", "open_page", "final_page", "connect", "backlog", "tail",
               "dropped", "over"}

StreamInit ==
  /\ phase = "off" /\ runs = 0 /\ sequence = 0
  /\ current = [e \in Emitter |-> NoEvent] /\ owed = [e \in Emitter |-> {}]
  /\ rows = {} /\ log = <<>> /\ floor = 0 /\ status = "active"
  /\ conn = [v \in Viewer |-> "new"]
  /\ at = [v \in Viewer |-> 0] /\ goal = [v \in Viewer |-> 0]
  /\ last = [v \in Viewer |-> 0] /\ seen = [v \in Viewer |-> {}]
  /\ published = 0 /\ faults = 0 /\ refused = {}

-----------------------------------------------------------------------------
(* The run. *)

Numbers == {event.sequence : event \in rows}

\* Mutant of HighestNumber: the number of rows.
NumberOfRows == Cardinality(rows)

HighestNumber == IF rows = {} THEN 0
                 ELSE CHOOSE n \in Numbers : \A m \in Numbers : m <= n

\* Every emit is awaited, in the tasks and by the loop that gathers them.
Quiet == \A e \in Emitter : current[e] = NoEvent

\* A first start, and a resume of whatever is not over.
BeginRun ==
  /\ phase = "off" /\ status = "active" /\ runs < MaxRuns
  /\ phase' = "on" /\ runs' = runs + 1
  /\ sequence' = HighestNumber
  /\ UNCHANGED <<current, owed, status, published, store, view, faults>>

\* publish: the number is taken under the lock, the sinks run side by side.
Publish(e, ending) ==
  /\ current[e] = NoEvent /\ published < MaxEvents
  /\ sequence' = sequence + 1 /\ published' = published + 1
  /\ current' = [current EXCEPT ![e] =
       [run |-> runs, sequence |-> sequence + 1, ending |-> ending]]
  /\ owed' = [owed EXCEPT ![e] = Sink]

Emit(e) ==
  /\ phase = "on" /\ Publish(e, FALSE)
  /\ UNCHANGED <<phase, runs, status, store, view, faults>>

\* What the live route knows as an end, or, of a budget stop, does not.
Finish(e, ending) ==
  /\ phase = "on" /\ Quiet /\ Publish(e, ending)
  /\ phase' = "ending"
  /\ UNCHANGED <<runs, status, store, view, faults>>

SinkAnswers(e, s) ==
  /\ owed' = [owed EXCEPT ![e] = @ \ {s}]
  /\ current' = [current EXCEPT ![e] = IF owed[e] = {s} THEN NoEvent ELSE @]
  /\ UNCHANGED <<phase, runs, sequence, status, published>>

\* The row goes in unless its number is taken, which the bus takes for a
\* failed sink.
WriteRow(e) ==
  /\ "log" \in owed[e] /\ SinkAnswers(e, "log")
  /\ IF current[e].sequence \in Numbers
     THEN refused' = refused \cup {current[e]} /\ UNCHANGED rows
     ELSE rows' = rows \cup {current[e]} /\ UNCHANGED refused
  /\ UNCHANGED <<log, floor, view, faults>>

\* XADD trims, about to the cap and never below it.
AddToStream(e) ==
  /\ "stream" \in owed[e] /\ SinkAnswers(e, "stream")
  /\ log' = Append(log, current[e])
  /\ \/ UNCHANGED floor
     \/ floor + Cap < Len(log) + 1 /\ floor' = Len(log) + 1 - Cap
  /\ UNCHANGED <<rows, refused, view, faults>>

\* A sink that fails costs its copy of the event and nothing else.
SinkFails(e, s) ==
  /\ s \in owed[e] /\ faults < MaxFaults /\ SinkAnswers(e, s)
  /\ faults' = faults + 1
  /\ UNCHANGED <<store, view>>

\* The status becomes durable after the event that tells of it.
CommitStatus ==
  /\ phase = "ending" /\ Quiet
  /\ phase' = "off" /\ status' = "terminal"
  /\ UNCHANGED <<runs, sequence, current, owed, published, store, view, faults>>

\* A pause, or a failure of the engine, which is recorded without an event.
Leave(outcome) ==
  /\ phase = "on" /\ Quiet
  /\ phase' = "off" /\ status' = outcome
  /\ UNCHANGED <<runs, sequence, current, owed, published, store, view, faults>>

CrashRun ==
  /\ phase # "off" /\ faults < MaxFaults
  /\ phase' = "off" /\ faults' = faults + 1
  /\ current' = [e \in Emitter |-> NoEvent] /\ owed' = [e \in Emitter |-> {}]
  /\ UNCHANGED <<runs, sequence, status, published, store, view>>

-----------------------------------------------------------------------------
(* The route and the page. *)

Go(v, to) == conn' = [conn EXCEPT ![v] = to]

Larger(m, n) == IF m < n THEN n ELSE m

\* The page reads the status first: on a visit, and when its connection drops.
Check(v) ==
  /\ conn[v] \in {"new", "dropped"}
  /\ Go(v, IF status = "terminal" THEN "final_page"
           ELSE IF conn[v] = "new" THEN "open_page" ELSE "connect")
  /\ UNCHANGED <<runVars, store, at, goal, last, seen, faults>>

\* Then the durable log, which replaces what it showed.
Fetch(v) ==
  /\ conn[v] \in {"open_page", "final_page"}
  /\ seen' = [seen EXCEPT ![v] = rows]
  /\ Go(v, IF conn[v] = "final_page" THEN "over" ELSE "connect")
  /\ UNCHANGED <<runVars, store, at, goal, last, faults>>

\* XRANGE from the viewer's last id, that entry included, or from the start.
Open(v) ==
  /\ conn[v] = "connect"
  /\ at' = [at EXCEPT ![v] =
              IF last[v] = 0 THEN floor ELSE Larger(last[v] - 1, floor)]
  /\ goal' = [goal EXCEPT ![v] = Len(log)]
  /\ Go(v, "backlog")
  /\ UNCHANGED <<runVars, store, last, seen, faults>>

\* One message, and a look at the status if it may have been the last.
Deliver(v, p) ==
  /\ at' = [at EXCEPT ![v] = p] /\ last' = [last EXCEPT ![v] = p]
  /\ seen' = [seen EXCEPT ![v] = @ \cup {log[p]}]
  /\ IF log[p].ending /\ status = "terminal" THEN Go(v, "dropped") ELSE UNCHANGED conn
  /\ UNCHANGED <<runVars, store, goal, faults>>

Replay(v) ==
  /\ conn[v] = "backlog" /\ at[v] < goal[v]
  /\ Deliver(v, at[v] + 1)

\* Mutants of Opening and FollowFrom: no look at the status; the tail begins
\* with what is new to the stream.
OpeningAlways(v) == at[v] # 0

FollowFromNow(v) == Len(log)

\* With nothing to replay the cursor is no id that XREAD accepts.
Opening(v) == status # "terminal" /\ at[v] # 0

FollowFrom(v) == at[v]

Follow(v) ==
  /\ conn[v] = "backlog" /\ at[v] >= goal[v]
  /\ IF Opening(v)
     THEN Go(v, "tail") /\ at' = [at EXCEPT ![v] = FollowFrom(v)]
     ELSE Go(v, "dropped") /\ UNCHANGED at
  /\ UNCHANGED <<runVars, store, goal, last, seen, faults>>

Tailed(v) ==
  /\ conn[v] = "tail" /\ at[v] < Len(log)
  /\ Deliver(v, Larger(at[v], floor) + 1)

Drop(v) ==
  /\ conn[v] \in {"backlog", "tail"} /\ faults < MaxFaults
  /\ Go(v, "dropped") /\ faults' = faults + 1
  /\ UNCHANGED <<runVars, store, at, goal, last, seen>>

ViewerStep(v) ==
  Check(v) \/ Fetch(v) \/ Open(v) \/ Replay(v) \/ Follow(v) \/ Tailed(v)

StreamNext ==
  \/ BeginRun \/ CommitStatus \/ CrashRun
  \/ \E outcome \in {"active", "terminal"} : Leave(outcome)
  \/ \E e \in Emitter :
        \/ Emit(e) \/ WriteRow(e) \/ AddToStream(e)
        \/ \E ending \in BOOLEAN : Finish(e, ending)
        \/ \E s \in Sink : SinkFails(e, s)
  \/ \E v \in Viewer : ViewerStep(v) \/ Drop(v)

StreamSpec ==
  StreamInit /\ [][StreamNext]_streamVars /\ \A v \in Viewer : WF_streamVars(ViewerStep(v))

-----------------------------------------------------------------------------

\* Over crashes, pauses and lost rows, a run's numbers continue those of the
\* runs before: no event is turned away for a number already used, and history
\* read in order of numbers is in order of runs (events/bus.py:136).
NumbersContinue ==
  /\ refused = {}
  /\ \A early, late \in rows :
        early.run < late.run => early.sequence < late.sequence

\* A viewer has been shown every entry up to its last id that was not trimmed
\* away, over drops, replays and the step from backlog to tail
\* (api/routes/executions.py:418).
NothingIsSkipped ==
  \A v \in Viewer : conn[v] \in {"connect", "backlog", "tail", "dropped"} =>
     \A p \in 1..last[v] : p <= floor \/ log[p] \in seen[v]

\* A connection that is opened, or drops, once the execution is over comes to
\* an end (api/routes/executions.py:425).
LateConnectionsClose ==
  \A v \in Viewer :
     (status = "terminal" /\ conn[v] # "tail") ~> conn[v] = "over"

-----------------------------------------------------------------------------
(* What a comment says and the code does not do. *)

\* The stream "stops once the execution is confirmed terminal" instead of
\* blocking forever (api/routes/executions.py:414).
StreamsEnd == \A v \in Viewer : status = "terminal" ~> conn[v] = "over"
=============================================================================
