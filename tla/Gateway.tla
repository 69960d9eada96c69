------------------------------- MODULE Gateway -------------------------------
(***************************************************************************)
(* How one server process reaches its language models: the credentials and *)
(* the active provider that operators set over HTTP                        *)
(* (api/routes/providers.py), the client and the router that are rebuilt   *)
(* from them (api/state.py, llm/factory.py, routing/model_router.py), and  *)
(* the calls that runs make meanwhile (llm/base.py).  The mock provider,   *)
(* always there, is left out: a call that goes to it never fails.          *)
(***************************************************************************)
EXTENDS Naturals, Sequences, FiniteSets

CONSTANTS Provider, Key, Handler, Run,
          Local,          \* the providers that need no key
          EnvProvider,    \* those that the settings configure
          Pinned,         \* the provider of the pinned model, None without one
          EnvKey, None, Keep,
          MaxAttempts,    \* attempts per request (domain/retry.py)
          MaxRepairs,     \* repairs per structured call
          StoredRows,     \* what the rows may be when a process starts
          MaxChanges      \* bound on the requests of operators

ASSUME GatewayAssumption ==
  /\ Local \subseteq Provider /\ EnvProvider \subseteq Provider
  /\ Pinned \in Provider \cup {None}
  /\ {None, Keep} \cap (Provider \cup Key \cup {EnvKey}) = {} /\ None # Keep
  /\ None \notin [key : Key \cup {None}, chosen : BOOLEAN]
  /\ Keep \notin {None} \cup [key : Key \cup {None}, chosen : BOOLEAN]
  /\ StoredRows \subseteq [Provider -> {None} \cup [key : Key \cup {None}, chosen : BOOLEAN]]
  /\ MaxAttempts \in Nat \ {0} /\ MaxRepairs \in Nat /\ MaxChanges \in Nat

VARIABLES row,       \* the stored credentials: key, and whether a model is chosen
          active,    \* the stored active provider
          clients,   \* every client this process built: the keys it builds
                     \* adapters with, and the providers it has one for
          llm,       \* the number of the installed client
          router,    \* the installed router: who may be chosen, who must be
          handler,   \* the requests of operators that are being served
          run,       \* the runs: what they captured, and the call they make
          up,        \* the process serves
          changes,   \* requests begun so far
          settled,   \* history: the last change was installed by a request that
                     \* met no other
          torn       \* history: the client was replaced and the router was not

stored == <<row, active>>
installed == <<clients, llm, router, settled, torn>>
vars == <<stored, installed, handler, run, up, changes>>
served == <<stored, installed, run, up, changes>>

Credential == [key : Key \cup {None}, chosen : BOOLEAN]

-----------------------------------------------------------------------------
(* What is derived from the stored rows. *)

\* A stored key wins over the settings'.
ResolvedKey(rows, p) ==
  IF rows[p] # None /\ rows[p].key # None THEN rows[p].key
  ELSE IF p \in EnvProvider \ Local THEN EnvKey ELSE None

Connected(rows) ==
  {p \in Provider : \/ p \notin Local /\ ResolvedKey(rows, p) # None
                    \/ p \in Local /\ (p \in EnvProvider \/ rows[p] # None)}

\* Mutant of Eligible: the active provider is taken whether connected or not.
EligibleUnchecked(rows, a) == IF a # None THEN {a} ELSE Connected(rows)

Eligible(rows, a) == IF a \in Connected(rows) THEN {a} ELSE Connected(rows)

\* The model chosen for the active provider, else the settings' pinned one.
Forced(rows, a) == IF a # None /\ rows[a] # None /\ rows[a].chosen THEN a ELSE Pinned

\* Without any provider the catalog holds the mock models alone, and forcing
\* another one raises.
Buildable(rows, a) == Forced(rows, a) # None => Eligible(rows, a) # {}

Router(rows, a) == [eligible |-> Eligible(rows, a), forced |-> Forced(rows, a)]

\* A forced model passes every criterion, the provider's connection too.
Routes(r) == IF r.forced # None THEN {r.forced} ELSE r.eligible

NewClient(rows) == [keys |-> [p \in Provider |-> ResolvedKey(rows, p)], built |-> {}]

-----------------------------------------------------------------------------
NoChange == [provider |-> None, row |-> Keep, active |-> Keep]

Free == [at |-> "free", change |-> NoChange, rows |-> [p \in Provider |-> None],
         active |-> None, alone |-> FALSE, old |-> 0, todo |-> {}, closing |-> None]

IdleRun == [at |-> "idle", llm |-> 0, router |-> [eligible |-> {}, forced |-> None],
            provider |-> None, round |-> 0, attempt |-> 0, sent |-> 0, torn |-> FALSE]

NoRows == [p \in Provider |-> None]

\* A start builds a router from the settings alone, and then from the rows.
Startable(rows, a) == Buildable(NoRows, None) /\ Buildable(rows, a)

\* A process starts on whatever was stored before.
Init ==
  /\ row \in StoredRows /\ active \in Provider \cup {None}
  /\ Startable(row, active)
  /\ clients = <<NewClient(row)>> /\ llm = 1 /\ router = Router(row, active)
  /\ handler = [h \in Handler |-> Free] /\ run = [r \in Run |-> IdleRun]
  /\ up = TRUE /\ changes = 0 /\ settled = TRUE /\ torn = FALSE

-----------------------------------------------------------------------------
(* PUT and DELETE: a transaction that reads and writes, then the reload. *)

Busy(h) == handler[h].at \in {"writing", "rows", "active", "install"}

\* What a request will write is worked out from what it reads first.
Begin(h, change) ==
  /\ up /\ handler[h].at = "free" /\ changes < MaxChanges
  /\ handler' = [g \in Handler |->
       IF g = h THEN [Free EXCEPT !.at = "writing", !.change = change,
                                  !.alone = \A f \in Handler : ~Busy(f)]
       ELSE IF Busy(g) THEN [handler[g] EXCEPT !.alone = FALSE] ELSE handler[g]]
  /\ changes' = changes + 1
  /\ UNCHANGED <<stored, installed, run, up>>

\* A partial update: what is omitted keeps what is stored.
Merged(p, key, clear, choose) ==
  LET old == IF row[p] = None THEN [key |-> None, chosen |-> FALSE] ELSE row[p]
  IN [key |-> IF clear THEN None ELSE IF key # None THEN key ELSE old.key,
      chosen |-> choose \/ old.chosen]

UpdateProvider(h, p, key, clear, choose) ==
  Begin(h, [NoChange EXCEPT !.provider = p, !.row = Merged(p, key, clear, choose)])

DeleteProvider(h, p) ==
  Begin(h, [provider |-> p, row |-> None, active |-> IF active = p THEN None ELSE Keep])

\* Checked in one session and set in the next.
SetActive(h, p) ==
  /\ p # None => p \in Connected(row)
  /\ Begin(h, [NoChange EXCEPT !.active = p])

\* The write and its commit; a failure ends the request with nothing written.
Commit(h) ==
  LET c == handler[h].change
  IN /\ handler[h].at = "writing"
     /\ row' = IF c.row = Keep THEN row ELSE [row EXCEPT ![c.provider] = c.row]
     /\ active' = IF c.active = Keep THEN active ELSE c.active
     /\ handler' = [handler EXCEPT ![h].at = "rows", ![h].change = NoChange]
     /\ settled' = FALSE
     /\ UNCHANGED <<clients, llm, router, torn, run, up, changes>>

StoreFails(h) ==
  /\ handler[h].at \in {"writing", "rows", "active"}
  /\ handler' = [handler EXCEPT ![h] = Free]
  /\ UNCHANGED served

\* reload_providers: two reads, two snapshots.
ReadRows(h) ==
  /\ handler[h].at = "rows"
  /\ handler' = [handler EXCEPT ![h].at = "active", ![h].rows = row]
  /\ UNCHANGED served

\* Mutant of ReadActive: the reload does not ask for the active provider.
ReadNoActive(h) ==
  /\ handler[h].at = "active"
  /\ handler' = [handler EXCEPT ![h].at = "install", ![h].active = None]
  /\ UNCHANGED served

ReadActive(h) ==
  /\ handler[h].at = "active"
  /\ handler' = [handler EXCEPT ![h].at = "install", ![h].active = active]
  /\ UNCHANGED served

\* The client is replaced before the router is built, without an await between.
Install(h) ==
  LET s == handler[h]  built == Buildable(s.rows, s.active)
  IN /\ s.at = "install"
     /\ clients' = Append(clients, NewClient(s.rows)) /\ llm' = Len(clients) + 1
     /\ router' = IF built THEN Router(s.rows, s.active) ELSE router
     /\ torn' = ~built
     /\ settled' = (built /\ s.alone)
     /\ handler' = [handler EXCEPT ![h] =
          IF built THEN [Free EXCEPT !.at = "closing", !.old = llm,
                                     !.todo = clients[llm].built]
          ELSE Free]
     /\ UNCHANGED <<stored, run, up, changes>>

\* aclose of the old client: one adapter after the other, an await for each,
\* of those it had at the beginning; at the end it forgets all of them.
CloseNext(h) ==
  /\ handler[h].at = "closing" /\ handler[h].todo # {}
  /\ \E p \in handler[h].todo :
        handler' = [handler EXCEPT ![h].todo = @ \ {p}, ![h].closing = p]
  /\ UNCHANGED served

Closed(h) ==
  /\ handler[h].at = "closing" /\ handler[h].todo = {}
  /\ clients' = [clients EXCEPT ![handler[h].old].built = {}]
  /\ handler' = [handler EXCEPT ![h] = Free]
  /\ UNCHANGED <<stored, llm, router, settled, torn, run, up, changes>>

-----------------------------------------------------------------------------
(* Calls of a run. *)

\* A new execution captures the client and the router in one step.
StartRun(r) ==
  /\ up /\ run[r].at = "idle"
  /\ run' = [run EXCEPT ![r] = [IdleRun EXCEPT !.at = "ready", !.llm = llm,
                                               !.router = router, !.torn = torn]]
  /\ UNCHANGED <<stored, installed, handler, up, changes>>

EndRun(r) ==
  /\ run[r].at = "ready"
  /\ run' = [run EXCEPT ![r] = IdleRun]
  /\ UNCHANGED <<stored, installed, handler, up, changes>>

\* A structured call; a plain one accepts every answer.  The adapter is built at
\* its first use, from the keys the client was made with.
Call(r, p) ==
  /\ run[r].at = "ready" /\ p \in Routes(run[r].router)
  /\ clients' = [clients EXCEPT ![run[r].llm].built = @ \cup {p}]
  /\ run' = [run EXCEPT ![r].at = "calling", ![r].provider = p,
                        ![r].round = 1, ![r].attempt = 1, ![r].sent = 1]
  /\ UNCHANGED <<stored, llm, router, settled, torn, handler, up, changes>>

Served(keys, p) == p \in Local \/ keys[p] # None

\* An adapter whose connections are being closed raises what nobody retries.
BeingClosed(r) ==
  \E h \in Handler : /\ handler[h].at = "closing" /\ handler[h].old = run[r].llm
                     /\ handler[h].closing = run[r].provider

Outcome == {"valid", "schema_violation", "rate_limited", "provider_unavailable",
            "network_error", "configuration_error", "external"}

\* What a request can meet: by HTTP status, by transport, or before it is sent.
Possible(r, outcome) ==
  /\ Served(clients[run[r].llm].keys, run[r].provider) \/ outcome = "configuration_error"
  /\ outcome = "external" => BeingClosed(r)

Retryable == {"rate_limited", "provider_unavailable", "network_error"}

\* Mutant of ShouldRetry: the last attempt is retried too.
ShouldRetryLast(attempt, outcome) == attempt <= MaxAttempts /\ outcome \in Retryable

ShouldRetry(attempt, outcome) == attempt < MaxAttempts /\ outcome \in Retryable

ShouldRepair(round, outcome) == outcome = "schema_violation" /\ round <= MaxRepairs

\* A retry repeats the request; a repair is a new one, with its own attempts.
Answer(r, outcome) ==
  LET c == run[r]
  IN /\ c.at = "calling" /\ Possible(r, outcome)
     /\ run' = [run EXCEPT ![r] =
          IF ShouldRetry(c.attempt, outcome)
          THEN [c EXCEPT !.attempt = @ + 1, !.sent = @ + 1]
          ELSE IF ShouldRepair(c.round, outcome)
          THEN [c EXCEPT !.round = @ + 1, !.attempt = 1, !.sent = @ + 1]
          ELSE [c EXCEPT !.at = "ready", !.provider = None, !.round = 0, !.attempt = 0,
                         !.sent = 0]]
     /\ UNCHANGED <<stored, installed, handler, up, changes>>

-----------------------------------------------------------------------------
(* The process dies, and starts again on what is stored, if it can. *)

Crash ==
  /\ up /\ up' = FALSE
  /\ handler' = [h \in Handler |-> Free] /\ run' = [r \in Run |-> IdleRun]
  /\ UNCHANGED <<stored, installed, changes>>

Restart ==
  /\ ~up /\ Startable(row, active)
  /\ up' = TRUE
  /\ clients' = <<NewClient(row)>> /\ llm' = 1 /\ router' = Router(row, active)
  /\ settled' = TRUE /\ torn' = FALSE
  /\ UNCHANGED <<stored, handler, run, changes>>

HandlerStep(h) ==
  \/ Commit(h) \/ ReadRows(h) \/ ReadActive(h) \/ Install(h) \/ CloseNext(h) \/ Closed(h)

Next ==
  \/ \E h \in Handler :
       \/ \E p \in Provider, key \in Key \cup {None}, clear, choose \in BOOLEAN :
            UpdateProvider(h, p, key, clear, choose)
       \/ \E p \in Provider : DeleteProvider(h, p)
       \/ \E p \in Provider \cup {None} : SetActive(h, p)
       \/ HandlerStep(h) \/ StoreFails(h)
  \/ \E r \in Run :
       \/ StartRun(r) \/ EndRun(r)
       \/ \E p \in Provider : Call(r, p)
       \/ \E outcome \in Outcome : Answer(r, outcome)
  \/ Crash \/ Restart

Spec == Init /\ [][Next]_vars

-----------------------------------------------------------------------------

\* A change served by a request that met no other is in force when its reload
\* ends, and until the next change: new runs get the client and the router that
\* the stored rows and the stored active provider stand for, also when they were
\* written by requests that failed or overlapped before it (api/state.py:65).
SettingsTakeEffect ==
  (up /\ settled) => /\ clients[llm].keys = NewClient(row).keys
                     /\ router = Router(row, active)

\* Whatever the order of changes, restarts and starts, a run's router offers no
\* provider that its own client has no key for, unless a reload failed half-way
\* (api/state.py:80, 95; llm/factory.py:128).
OffersAreServed ==
  \A r \in Run :
    (run[r].at # "idle" /\ ~run[r].torn) =>
      \A p \in run[r].router.eligible : Served(clients[run[r].llm].keys, p)

\* Retries and repairs multiply and no more: the requests of one structured call
\* are at most the attempts of each of its rounds (llm/factory.py:272).
CallsAreBounded ==
  \A r \in Run : run[r].sent <= (MaxRepairs + 1) * MaxAttempts
=============================================================================
