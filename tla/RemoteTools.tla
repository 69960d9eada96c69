----------------------------- MODULE RemoteTools -----------------------------
(***************************************************************************)
(* Tools of an MCP server (tools/mcp.py): the handshake and the discovery  *)
(* when the application starts, and the calls that share one pipe to the   *)
(* server and one back.                                                    *)
(*                                                                         *)
(* A request takes its number before it queues for the client's lock, and  *)
(* asyncio's lock is fair, so the lock is with the smallest number in      *)
(* flight.  Whoever holds it writes, then reads lines until one has its    *)
(* number.  A caller may leave at any time, and then its answer is read by *)
(* the next.                                                               *)
(***************************************************************************)
EXTENDS Naturals, Sequences

CONSTANTS
    Caller,         \* tasks that run a tool
    Startup,        \* the task that builds the application
    Remote,         \* the server's names of tools
    Slug,           \* _slugify: the engine's name of each
    Argument,       \* arguments the input schema accepts
    MaxRequests,    \* bound: requests numbered
    MaxStrays,      \* bound: lines that answer nothing
    NoQuestion

Client == Caller \cup {Startup}
Initialize == <<"initialize">>
ListTools == <<"tools/list">>
Question ==
    {Initialize, ListTools} \cup {<<"tools/call", r, a>> : r \in Remote, a \in Argument}

ASSUME RemoteToolsAssumption ==
    /\ Startup \notin Caller /\ DOMAIN Slug = Remote
    /\ MaxRequests \in Nat /\ MaxStrays \in Nat
    /\ NoQuestion \notin Question

VARIABLES
    phase,          \* of the application
    tools,          \* the registry: the remote tool behind a name
    progress, number, asks, answer,   \* of each client's request
    next,           \* _ids
    server,         \* its process
    requests,       \* written to its stdin, and not answered
    lines,          \* on its stdout, and not read
    strays

client == <<progress, number, asks, answer, next>>
pipes == <<server, requests, lines, strays>>
pipeVars == <<phase, tools, client, pipes>>

InFlight(c) == progress[c] \in {"queued", "reading"}

PipeInit ==
    /\ phase = "down" /\ tools = <<>>
    /\ progress = [c \in Client |-> "idle"]
    /\ number = [c \in Client |-> 0]
    /\ asks = [c \in Client |-> NoQuestion]
    /\ answer = [c \in Client |-> NoQuestion]
    /\ next = 1
    /\ server = "none" /\ requests = {} /\ lines = <<>> /\ strays = 0

-----------------------------------------------------------------------------
(* A request: _request, _write and _read_matching. *)

Ask(c, question) ==
    /\ next <= MaxRequests
    /\ progress' = [progress EXCEPT ![c] = "queued"]
    /\ number' = [number EXCEPT ![c] = next]
    /\ asks' = [asks EXCEPT ![c] = question]
    /\ answer' = [answer EXCEPT ![c] = NoQuestion]
    /\ next' = next + 1

HasLock(c) == InFlight(c) /\ \A d \in Client : InFlight(d) => number[c] <= number[d]

Ends(c, how) ==
    /\ progress' = [progress EXCEPT ![c] = how]
    /\ UNCHANGED <<number, asks, next>>

\* Bytes for a process that is gone are lost, or the drain raises.
Write(c) ==
    /\ progress[c] = "queued" /\ HasLock(c)
    /\ \/ /\ Ends(c, "reading")
          /\ requests' = IF server = "up"
                         THEN requests \cup {[number |-> number[c], asks |-> asks[c]]}
                         ELSE requests
       \/ server = "dead" /\ Ends(c, "failed") /\ UNCHANGED requests
    /\ UNCHANGED <<answer, phase, tools, server, lines, strays>>

\* Mutant of Matches: any answer will do.
MatchesAny(c, line) == line.says \in {"result", "error"}

Matches(c, line) == line.number = number[c]

\* Lines that are not JSON or not for this request are passed over; one that
\* is JSON but no object raises.  An error is the protocol's or, in what it
\* returned, the tool's.
Outcome(c, line) ==
    CASE line.says = "junk" -> "failed"
      [] line.says # "junk" /\ ~Matches(c, line) -> "reading"
      [] line.says = "result" /\ Matches(c, line) -> "ok"
      [] OTHER -> "failed"

Read(c) ==
    /\ progress[c] = "reading" /\ lines # <<>>
    /\ LET outcome == Outcome(c, Head(lines))
       IN /\ Ends(c, outcome)
          /\ answer' = IF outcome = "ok" THEN [answer EXCEPT ![c] = Head(lines).asks]
                       ELSE answer
    /\ lines' = Tail(lines)
    /\ UNCHANGED <<phase, tools, server, requests, strays>>

\* No line within the client's timeout, or no further line at all.
Unanswered(c) ==
    /\ progress[c] = "reading" /\ lines = <<>>
    /\ Ends(c, "failed")
    /\ UNCHANGED <<answer, phase, tools, pipes>>

-----------------------------------------------------------------------------
(* The application starts, with the server's tools or not at all. *)

Start ==
    /\ phase = "down"
    /\ Ask(Startup, Initialize)
    /\ phase' = "initialize" /\ server' = "up"
    /\ UNCHANGED <<tools, requests, lines, strays>>

\* The notification between the two requests is not answered.
List ==
    /\ phase = "initialize" /\ progress[Startup] = "ok"
    /\ Ask(Startup, ListTools)
    /\ phase' = "list"
    /\ UNCHANGED <<tools, pipes>>

\* Names that fold into one are refused by the registry, and what it holds by
\* then goes with the application that does not start.
Distinct(listed) == \A r, s \in listed : Slug[r] = Slug[s] => r = s

Discover(listed) ==
    /\ phase = "list" /\ progress[Startup] = "ok"
    /\ IF Distinct(listed)
       THEN /\ phase' = "serving"
            /\ tools' = [name \in {Slug[r] : r \in listed} |->
                            CHOOSE r \in listed : Slug[r] = name]
       ELSE phase' = "failed" /\ UNCHANGED tools
    /\ UNCHANGED <<client, pipes>>

StartupFails ==
    /\ \/ phase \in {"initialize", "list"} /\ progress[Startup] = "failed"
       \/ phase = "initialize" /\ progress[Startup] = "ok" /\ server = "dead"
    /\ phase' = "failed"
    /\ UNCHANGED <<tools, client, pipes>>

\* After the runner has seen its tasks end.
Close ==
    /\ phase = "serving" /\ \A c \in Caller : ~InFlight(c)
    /\ phase' = "closed" /\ server' = "dead" /\ requests' = {}
    /\ UNCHANGED <<tools, client, lines, strays>>

-----------------------------------------------------------------------------
(* Calls: Tool.invoke of a wrapped tool. *)

Call(c, name, a) ==
    /\ phase = "serving" /\ ~InFlight(c)
    /\ Ask(c, <<"tools/call", tools[name], a>>)
    /\ UNCHANGED <<phase, tools, pipes>>

\* Its deadline passes, or its task is cancelled: queued, writing or reading.
Leave(c) ==
    /\ InFlight(c)
    /\ Ends(c, "failed")
    /\ UNCHANGED <<answer, phase, tools, pipes>>

-----------------------------------------------------------------------------
(* The server: answers in any order, or never; other lines; its end. *)

Serve(r) ==
    /\ server = "up" /\ r \in requests
    /\ \E says \in {"result", "error"} :
         lines' = Append(lines, [number |-> r.number, asks |-> r.asks, says |-> says])
    /\ requests' = requests \ {r}
    /\ UNCHANGED <<phase, tools, client, server, strays>>

Stray ==
    /\ server = "up" /\ strays < MaxStrays
    /\ \E says \in {"log", "junk"} :
         lines' = Append(lines, [number |-> 0, asks |-> NoQuestion, says |-> says])
    /\ strays' = strays + 1
    /\ UNCHANGED <<phase, tools, client, server, requests>>

Die ==
    /\ server = "up"
    /\ server' = "dead" /\ requests' = {}
    /\ UNCHANGED <<phase, tools, client, lines, strays>>

PipeNext ==
    \/ Start \/ List \/ StartupFails \/ Close
    \/ \E listed \in SUBSET Remote : Discover(listed)
    \/ \E c \in Client : Write(c) \/ Read(c) \/ Unanswered(c)
    \/ \E c \in Caller : \/ Leave(c)
                         \/ \E name \in DOMAIN tools, a \in Argument : Call(c, name, a)
    \/ \E r \in requests : Serve(r)
    \/ Stray \/ Die

PipeSpec == PipeInit /\ [][PipeNext]_pipeVars

-----------------------------------------------------------------------------
\* A call that succeeds has the answer to what it asked, whoever left the pipe
\* before it with an answer still to come (_read_matching).
AnswersAreOwn == \A c \in Client : progress[c] = "ok" => answer[c] = asks[c]
==============================================================================
