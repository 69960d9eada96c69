---------------------------- MODULE ServicesProofs ----------------------------
(***************************************************************************)
(* The services that runs share: the gateway to the language models, the   *)
(* stream of events, and the locks and slots in Redis.  They share no      *)
(* state and are proved about side by side, each for any values of its     *)
(* constants.                                                              *)
(***************************************************************************)
EXTENDS Coordination, EventStream, Gateway, FiniteSetTheorems, SequenceTheorems,
        WellFoundedInduction, TLAPS


-----------------------------------------------------------------------------
(* The gateway.  First its types, and that what runs and requests refer to  *)
(* is there.                                                                *)

Rows == [Provider -> {None} \cup Credential]
Client == [keys : [Provider -> Key \cup {EnvKey, None}], built : SUBSET Provider]
RouterRecord == [eligible : SUBSET Provider, forced : Provider \cup {None}]
Change ==
  [provider : Provider \cup {None}, row : {Keep, None} \cup Credential,
   active : {Keep, None} \cup Provider]
HandlerRecord ==
  [at : {"free", "writing", "rows", "active", "install", "closing"}, change : Change,
   rows : Rows, active : Provider \cup {None}, alone : BOOLEAN, old : Nat,
   todo : SUBSET Provider, closing : Provider \cup {None}]
RunRecord ==
  [at : {"idle", "ready", "calling"}, llm : Nat, router : RouterRecord,
   provider : Provider \cup {None}, round : Nat, attempt : Nat, sent : Nat, torn : BOOLEAN]

GatewayTyped ==
  /\ row \in Rows /\ active \in Provider \cup {None}
  /\ clients \in Seq(Client) /\ llm \in 1..Len(clients) /\ router \in RouterRecord
  /\ handler \in [Handler -> HandlerRecord] /\ run \in [Run -> RunRecord]
  /\ up \in BOOLEAN /\ settled \in BOOLEAN /\ torn \in BOOLEAN

ReferencesHold ==
  /\ \A r \in Run : run[r].at # "idle" => run[r].llm \in 1..Len(clients)
  /\ \A h \in Handler : handler[h].at = "closing" => handler[h].old \in 1..Len(clients)
  /\ ~up => /\ \A h \in Handler : handler[h] = Free
            /\ \A r \in Run : run[r] = IdleRun

Sound == GatewayTyped /\ ReferencesHold

LEMMA DerivedAreTyped ==
  ASSUME NEW rs \in Rows, NEW a \in Provider \cup {None}
  PROVE  NewClient(rs) \in Client /\ Router(rs, a) \in RouterRecord
<1>1. \A p \in Provider : ResolvedKey(rs, p) \in Key \cup {EnvKey, None}
  BY DEF ResolvedKey, Rows, Credential
<1>2. NewClient(rs) \in Client
  BY <1>1 DEF NewClient, Client
<1>3. Connected(rs) \subseteq Provider
  BY DEF Connected
<1>4. Eligible(rs, a) \in SUBSET Provider
  BY <1>3 DEF Eligible
<1>5. Forced(rs, a) \in Provider \cup {None}
  BY GatewayAssumption DEF GatewayAssumption, Forced
<1> QED BY <1>2, <1>4, <1>5 DEF Router, RouterRecord

LEMMA ConstantsAreTyped ==
  /\ NoChange \in Change /\ Free \in HandlerRecord /\ IdleRun \in RunRecord
  /\ [p \in Provider |-> None] \in Rows
BY DEF NoChange, Change, Free, HandlerRecord, IdleRun, RunRecord, RouterRecord, Rows

\* An update of one client's adapters leaves the keys of all as they are.
LEMMA ClientUpdates ==
  ASSUME NEW cs \in Seq(Client), NEW i \in 1..Len(cs), NEW c \in Client,
         c.keys = cs[i].keys
  PROVE  LET ds == [cs EXCEPT ![i] = c]
         IN  /\ ds \in Seq(Client) /\ Len(ds) = Len(cs)
             /\ \A j \in 1..Len(cs) : ds[j].keys = cs[j].keys
<1> DEFINE ds == [cs EXCEPT ![i] = c]
<1>1. /\ ds \in Seq(Client) /\ Len(ds) = Len(cs)
      /\ \A j \in 1..Len(cs) : ds[j] = IF j = i THEN c ELSE cs[j]
  BY ExceptSeq
<1> HIDE DEF ds
<1>2. \A j \in 1..Len(cs) : ds[j].keys = cs[j].keys
  BY <1>1
<1> QED BY <1>1, <1>2 DEF ds

LEMMA SoundInit == Init => Sound
<1> SUFFICES ASSUME Init PROVE Sound
  OBVIOUS
<1>1. row \in Rows
  BY GatewayAssumption DEF Init, GatewayAssumption, Rows, Credential
<1>2. NewClient(row) \in Client /\ Router(row, active) \in RouterRecord
  BY <1>1, DerivedAreTyped DEF Init
<1>3. clients \in Seq(Client) /\ Len(clients) = 1
  BY <1>2 DEF Init
<1>4. GatewayTyped
  <2>1. /\ active \in Provider \cup {None} /\ router \in RouterRecord
        /\ up \in BOOLEAN /\ settled \in BOOLEAN /\ torn \in BOOLEAN
    BY <1>2 DEF Init
  <2>2. handler \in [Handler -> HandlerRecord] /\ run \in [Run -> RunRecord]
    BY ConstantsAreTyped DEF Init
  <2>3. llm \in 1..Len(clients)
    BY <1>3 DEF Init
  <2> QED BY <1>1, <1>3, <2>1, <2>2, <2>3 DEF GatewayTyped
<1> QED BY <1>4 DEF Init, Sound, ReferencesHold, IdleRun, Free

\* What a request of an operator begins with.
LEMMA BeginKeepsSound ==
  ASSUME Sound, NEW h \in Handler, NEW change \in Change, Begin(h, change)
  PROVE  Sound'
<1> DEFINE new(g) ==
      IF g = h THEN [Free EXCEPT !.at = "writing", !.change = change,
                                 !.alone = \A f \in Handler : ~Busy(f)]
      ELSE IF Busy(g) THEN [handler[g] EXCEPT !.alone = FALSE] ELSE handler[g]
<1>1. ASSUME NEW g \in Handler PROVE new(g) \in HandlerRecord
  <2>1. handler[g] \in HandlerRecord /\ Free \in HandlerRecord
    BY ConstantsAreTyped DEF Sound, GatewayTyped
  <2>2. (\A f \in Handler : ~Busy(f)) \in BOOLEAN
    OBVIOUS
  <2>3. [Free EXCEPT !.at = "writing", !.change = change,
                     !.alone = \A f \in Handler : ~Busy(f)] \in HandlerRecord
    BY <2>1, <2>2 DEF HandlerRecord
  <2>4. [handler[g] EXCEPT !.alone = FALSE] \in HandlerRecord
    BY <2>1 DEF HandlerRecord
  <2> QED BY <2>1, <2>3, <2>4
<1>2. ASSUME NEW g \in Handler, new(g).at = "closing"
      PROVE  handler[g].at = "closing" /\ new(g).old = handler[g].old
  BY <1>2 DEF Busy, Free, Sound, GatewayTyped, HandlerRecord
<1>3. handler' = [g \in Handler |-> new(g)] /\ UNCHANGED <<stored, installed, run, up>> /\ up
  BY DEF Begin
<1> HIDE DEF new
<1>4. GatewayTyped'
  BY <1>1, <1>3 DEF Sound, GatewayTyped, stored, installed
<1>5. ReferencesHold'
  BY <1>2, <1>3 DEF Sound, ReferencesHold, installed
<1> QED BY <1>4, <1>5 DEF Sound

\* A step of a request that leaves the clients alone.
LEMMA HandlerKeepsSound ==
  ASSUME Sound, NEW h \in Handler, NEW new \in HandlerRecord,
         handler' = [handler EXCEPT ![h] = new],
         new.at = "closing" => handler[h].at = "closing" /\ new.old = handler[h].old,
         row' \in Rows, active' \in Provider \cup {None}, settled' \in BOOLEAN,
         UNCHANGED <<clients, llm, router, torn, run, up>>, handler[h] # Free
  PROVE  Sound'
<1>1. GatewayTyped'
  BY DEF Sound, GatewayTyped
<1>2. ReferencesHold'
  BY DEF Sound, GatewayTyped, ReferencesHold
<1> QED BY <1>1, <1>2 DEF Sound

LEMMA HandlersAreTyped ==
  ASSUME Sound, NEW h \in Handler
  PROVE  /\ handler[h] \in HandlerRecord /\ handler[h].change \in Change
         /\ handler[h].at # "free" => up /\ handler[h] # Free
BY DEF Sound, GatewayTyped, ReferencesHold, HandlerRecord, Free

LEMMA RequestsKeepSound ==
  ASSUME Sound, NEW h \in Handler,
         Commit(h) \/ StoreFails(h) \/ ReadRows(h) \/ ReadActive(h) \/ CloseNext(h)
  PROVE  Sound'
<1>0. handler[h] \in HandlerRecord /\ handler[h].change \in Change /\ handler[h] # Free
  BY HandlersAreTyped DEF Commit, StoreFails, ReadRows, ReadActive, CloseNext
<1>1. CASE Commit(h)
  <2> DEFINE new == [handler[h] EXCEPT !.at = "rows", !.change = NoChange]
  <2>1. new \in HandlerRecord /\ new.at = "rows" /\ handler' = [handler EXCEPT ![h] = new]
    BY <1>0, <1>1, ConstantsAreTyped DEF Commit, HandlerRecord
  <2>2. row' \in Rows /\ active' \in Provider \cup {None}
    BY <1>0, <1>1 DEF Commit, Change, Sound, GatewayTyped, Rows
  <2> HIDE DEF new
  <2> QED BY <1>0, <1>1, <2>1, <2>2, HandlerKeepsSound DEF Commit
<1>2. CASE StoreFails(h)
  BY <1>0, <1>2, ConstantsAreTyped, HandlerKeepsSound
  DEF StoreFails, served, stored, installed, Sound, GatewayTyped, Free
<1>3. CASE ReadRows(h)
  <2> DEFINE new == [handler[h] EXCEPT !.at = "active", !.rows = row]
  <2>1. new \in HandlerRecord /\ new.at = "active" /\ handler' = [handler EXCEPT ![h] = new]
    BY <1>0, <1>3 DEF ReadRows, HandlerRecord, Sound, GatewayTyped
  <2> HIDE DEF new
  <2> QED BY <1>0, <1>3, <2>1, HandlerKeepsSound
          DEF ReadRows, served, stored, installed, Sound, GatewayTyped
<1>4. CASE ReadActive(h)
  <2> DEFINE new == [handler[h] EXCEPT !.at = "install", !.active = active]
  <2>1. new \in HandlerRecord /\ new.at = "install" /\ handler' = [handler EXCEPT ![h] = new]
    BY <1>0, <1>4 DEF ReadActive, HandlerRecord, Sound, GatewayTyped
  <2> HIDE DEF new
  <2> QED BY <1>0, <1>4, <2>1, HandlerKeepsSound
          DEF ReadActive, served, stored, installed, Sound, GatewayTyped
<1>5. CASE CloseNext(h)
  <2>1. PICK p \in handler[h].todo :
           handler' = [handler EXCEPT ![h].todo = @ \ {p}, ![h].closing = p]
    BY <1>5 DEF CloseNext
  <2> DEFINE new == [handler[h] EXCEPT !.todo = @ \ {p}, !.closing = p]
  <2>2. p \in Provider
    BY <1>0 DEF HandlerRecord
  <2>3. /\ new \in HandlerRecord /\ handler' = [handler EXCEPT ![h] = new]
        /\ new.old = handler[h].old /\ handler[h].at = "closing"
    BY <1>0, <1>5, <2>1, <2>2 DEF CloseNext, HandlerRecord, Sound, GatewayTyped
  <2> HIDE DEF new
  <2> QED BY <1>0, <1>5, <2>3, HandlerKeepsSound
          DEF CloseNext, served, stored, installed, Sound, GatewayTyped
<1> QED BY <1>1, <1>2, <1>3, <1>4, <1>5

\* The clients only get more, or change in what they have built.
LEMMA InstallKeepsSound ==
  ASSUME Sound, NEW h \in Handler, Install(h)
  PROVE  /\ Sound' /\ Len(clients') = Len(clients) + 1
         /\ \A i \in 1..Len(clients) : clients'[i] = clients[i]
         /\ clients'[Len(clients) + 1] = NewClient(handler[h].rows)
<1> DEFINE s == handler[h]
           built == Buildable(s.rows, s.active)
           new == IF built THEN [Free EXCEPT !.at = "closing", !.old = llm,
                                             !.todo = clients[llm].built]
                  ELSE Free
<1>0. s \in HandlerRecord /\ s.rows \in Rows /\ s.active \in Provider \cup {None} /\ up
  BY HandlersAreTyped DEF Install, HandlerRecord
<1>1. NewClient(s.rows) \in Client /\ Router(s.rows, s.active) \in RouterRecord
  BY <1>0, DerivedAreTyped
<1>2. /\ clients' = Append(clients, NewClient(s.rows)) /\ llm' = Len(clients) + 1
      /\ router' = IF built THEN Router(s.rows, s.active) ELSE router
      /\ torn' = ~built /\ settled' = (built /\ s.alone)
      /\ handler' = [handler EXCEPT ![h] = new]
      /\ UNCHANGED <<stored, run, up>>
  BY DEF Install
<1>3. /\ clients' \in Seq(Client) /\ Len(clients') = Len(clients) + 1
      /\ \A i \in 1..Len(clients) : clients'[i] = clients[i]
      /\ clients'[Len(clients) + 1] = NewClient(s.rows)
  BY <1>1, <1>2, AppendProperties DEF Sound, GatewayTyped
<1>4. clients[llm].built \in SUBSET Provider /\ llm \in Nat /\ Len(clients) \in Nat
  <2>1. clients \in Seq(Client) /\ llm \in 1..Len(clients)
    BY DEF Sound, GatewayTyped
  <2>2. clients[llm] \in Client /\ Len(clients) \in Nat
    BY <2>1, ElementOfSeq, LenProperties
  <2> QED BY <2>1, <2>2 DEF Client
<1>5. new \in HandlerRecord
  BY <1>4, ConstantsAreTyped DEF HandlerRecord
<1>6. new.at = "closing" => new.old \in 1..Len(clients')
  BY <1>3, <1>4 DEF Free, Sound, GatewayTyped
<1>7. built \in BOOLEAN /\ s.alone \in BOOLEAN
  BY <1>0 DEF HandlerRecord, Buildable
<1> HIDE DEF new, built, s
<1>8. GatewayTyped'
  <2>1. torn' \in BOOLEAN /\ settled' \in BOOLEAN
    BY <1>2, <1>7
  <2>2. router' \in RouterRecord /\ handler' \in [Handler -> HandlerRecord]
    BY <1>1, <1>2, <1>5 DEF Sound, GatewayTyped
  <2>3. llm' \in 1..Len(clients')
    BY <1>2, <1>3, <1>4
  <2> QED BY <1>2, <1>3, <2>1, <2>2, <2>3 DEF Sound, GatewayTyped, stored
<1>9. ReferencesHold'
  <2>1. \A i \in 1..Len(clients) : i \in 1..Len(clients')
    BY <1>3, <1>4
  <2>2. \A r \in Run : run'[r].at # "idle" => run'[r].llm \in 1..Len(clients')
    BY <1>2, <2>1 DEF Sound, ReferencesHold
  <2>3. \A g \in Handler : handler'[g].at = "closing" => handler'[g].old \in 1..Len(clients')
    BY <1>2, <1>6, <2>1 DEF Sound, ReferencesHold, GatewayTyped
  <2> QED BY <1>0, <1>2, <2>2, <2>3 DEF ReferencesHold
<1> QED BY <1>3, <1>8, <1>9 DEF Sound, s

LEMMA ClosedKeepsSound ==
  ASSUME Sound, NEW h \in Handler, Closed(h)
  PROVE  /\ Sound' /\ Len(clients') = Len(clients)
         /\ \A i \in 1..Len(clients) : clients'[i].keys = clients[i].keys
<1>1. handler[h].old \in 1..Len(clients) /\ clients \in Seq(Client)
  BY DEF Closed, Sound, GatewayTyped, ReferencesHold
<1>2. /\ clients' \in Seq(Client) /\ Len(clients') = Len(clients)
      /\ \A i \in 1..Len(clients) : clients'[i].keys = clients[i].keys
  <2> DEFINE i == handler[h].old
             c == [clients[i] EXCEPT !.built = {}]
  <2>1. clients' = [clients EXCEPT ![i] = c]
    BY DEF Closed
  <2>2. clients[i] \in Client
    BY <1>1, ElementOfSeq
  <2>3. c \in Client /\ c.keys = clients[i].keys /\ i \in 1..Len(clients)
    BY <1>1, <2>2 DEF Client
  <2> HIDE DEF i, c
  <2> QED BY <1>1, <2>1, <2>3, ClientUpdates
<1>3. /\ handler' = [handler EXCEPT ![h] = Free]
      /\ UNCHANGED <<stored, llm, router, settled, torn, run, up>>
  BY DEF Closed
<1>4. GatewayTyped'
  BY <1>2, <1>3, ConstantsAreTyped DEF Sound, GatewayTyped, stored
<1>5. ReferencesHold'
  BY <1>2, <1>3 DEF Sound, GatewayTyped, ReferencesHold, Free
<1> QED BY <1>2, <1>4, <1>5 DEF Sound

LEMMA CallKeepsSound ==
  ASSUME Sound, NEW r \in Run, NEW p \in Provider, Call(r, p)
  PROVE  /\ Sound' /\ Len(clients') = Len(clients)
         /\ \A i \in 1..Len(clients) : clients'[i].keys = clients[i].keys
<1> DEFINE i == run[r].llm
           c == [clients[i] EXCEPT !.built = @ \cup {p}]
           new == [run[r] EXCEPT !.at = "calling", !.provider = p,
                                 !.round = 1, !.attempt = 1, !.sent = 1]
<1>1. i \in 1..Len(clients) /\ clients \in Seq(Client) /\ run[r] \in RunRecord
  BY DEF Call, Sound, GatewayTyped, ReferencesHold
<1>2. c \in Client /\ c.keys = clients[i].keys
  <2>1. clients[i] \in Client
    BY <1>1, ElementOfSeq
  <2> QED BY <2>1 DEF Client
<1>3. /\ clients' = [clients EXCEPT ![i] = c] /\ run' = [run EXCEPT ![r] = new]
      /\ new \in RunRecord /\ new.llm = i /\ run[r].at = "ready"
      /\ UNCHANGED <<stored, llm, router, settled, torn, handler, up>>
  BY <1>1 DEF Call, RunRecord, Sound, GatewayTyped
<1> HIDE DEF new, c, i
<1>4. /\ clients' \in Seq(Client) /\ Len(clients') = Len(clients)
      /\ \A j \in 1..Len(clients) : clients'[j].keys = clients[j].keys
  BY <1>1, <1>2, <1>3, ClientUpdates
<1>5. GatewayTyped'
  BY <1>3, <1>4 DEF Sound, GatewayTyped, stored
<1>6. ReferencesHold'
  <2>1. up
    BY <1>3 DEF Sound, ReferencesHold, IdleRun
  <2> QED BY <1>1, <1>3, <1>4, <2>1 DEF Sound, GatewayTyped, ReferencesHold
<1> QED BY <1>4, <1>5, <1>6 DEF Sound

\* The other steps of a run leave the clients alone.
LEMMA RunsKeepSound ==
  ASSUME Sound, NEW r \in Run,
         StartRun(r) \/ EndRun(r) \/ \E outcome \in Outcome : Answer(r, outcome)
  PROVE  Sound'
<1>0. run[r] \in RunRecord /\ IdleRun \in RunRecord /\ llm \in 1..Len(clients)
  BY ConstantsAreTyped DEF Sound, GatewayTyped
<1>1. ASSUME NEW new \in RunRecord, run' = [run EXCEPT ![r] = new],
             new.at # "idle" => up /\ new.llm \in 1..Len(clients), ~up => new = IdleRun,
             UNCHANGED <<stored, installed, handler, up>>
      PROVE  Sound'
  <2>1. GatewayTyped'
    BY <1>1 DEF Sound, GatewayTyped, stored, installed
  <2>2. ReferencesHold'
    BY <1>1 DEF Sound, GatewayTyped, ReferencesHold, installed
  <2> QED BY <2>1, <2>2 DEF Sound
<1>2. CASE StartRun(r)
  <2> DEFINE new == [IdleRun EXCEPT !.at = "ready", !.llm = llm, !.router = router,
                                    !.torn = torn]
  <2>0. llm \in Nat /\ router \in RouterRecord /\ torn \in BOOLEAN
    BY DEF Sound, GatewayTyped
  <2>1. /\ new \in RunRecord /\ new.llm = llm /\ run' = [run EXCEPT ![r] = new] /\ up
        /\ UNCHANGED <<stored, installed, handler, up>>
    BY <1>0, <1>2, <2>0 DEF StartRun, RunRecord, Sound, GatewayTyped
  <2> HIDE DEF new
  <2> QED BY <1>0, <1>1, <2>1
<1>3. CASE EndRun(r)
  BY <1>0, <1>1, <1>3 DEF EndRun, IdleRun
<1>4. ASSUME NEW outcome \in Outcome, Answer(r, outcome) PROVE Sound'
  <2>1. run[r].at = "calling" /\ UNCHANGED <<stored, installed, handler, up>>
    BY <1>4 DEF Answer
  <2>2. up /\ run[r].llm \in 1..Len(clients)
    BY <2>1 DEF Sound, ReferencesHold, IdleRun
  <2>0. run[r].round \in Nat /\ run[r].attempt \in Nat /\ run[r].sent \in Nat
    BY <1>0 DEF RunRecord
  <2>3. run[r].round + 1 \in Nat /\ run[r].attempt + 1 \in Nat /\ run[r].sent + 1 \in Nat
    BY <2>0
  <2>4. PICK new \in RunRecord : run' = [run EXCEPT ![r] = new] /\ new.llm = run[r].llm
    <3>1. CASE ShouldRetry(run[r].attempt, outcome)
      <4> DEFINE new == [run[r] EXCEPT !.attempt = @ + 1, !.sent = @ + 1]
      <4>1. run' = [run EXCEPT ![r] = new]
        BY <1>4, <3>1 DEF Answer
      <4>2. new \in RunRecord /\ new.llm = run[r].llm
        BY <1>0, <2>3 DEF RunRecord
      <4> QED BY <4>1, <4>2
    <3>2. CASE ~ShouldRetry(run[r].attempt, outcome) /\ ShouldRepair(run[r].round, outcome)
      <4> DEFINE new == [run[r] EXCEPT !.round = @ + 1, !.attempt = 1, !.sent = @ + 1]
      <4>1. run' = [run EXCEPT ![r] = new]
        BY <1>4, <3>2 DEF Answer
      <4>2. new \in RunRecord /\ new.llm = run[r].llm
        BY <1>0, <2>3 DEF RunRecord
      <4> QED BY <4>1, <4>2
    <3>3. CASE ~ShouldRetry(run[r].attempt, outcome) /\ ~ShouldRepair(run[r].round, outcome)
      <4> DEFINE new == [run[r] EXCEPT !.at = "ready", !.provider = None, !.round = 0,
                                       !.attempt = 0, !.sent = 0]
      <4>1. run' = [run EXCEPT ![r] = new]
        BY <1>4, <3>3 DEF Answer
      <4>2. new \in RunRecord /\ new.llm = run[r].llm
        BY <1>0 DEF RunRecord
      <4> QED BY <4>1, <4>2
    <3> QED BY <3>1, <3>2, <3>3
  <2> QED BY <1>1, <2>1, <2>2, <2>4
<1> QED BY <1>2, <1>3, <1>4

\* A process that dies takes runs and requests with it; one that starts has a
\* client of its own.
LEMMA ProcessKeepsSound ==
  ASSUME Sound, Crash \/ Restart
  PROVE  Sound'
<1>1. CASE Crash
  <2>1. GatewayTyped'
    BY <1>1, ConstantsAreTyped DEF Crash, stored, installed, Sound, GatewayTyped
  <2> QED BY <1>1, <2>1 DEF Crash, installed, Sound, ReferencesHold, IdleRun, Free
<1>2. CASE Restart
  <2>1. NewClient(row) \in Client /\ Router(row, active) \in RouterRecord
    BY DerivedAreTyped DEF Sound, GatewayTyped
  <2>2. clients' \in Seq(Client) /\ Len(clients') = 1
    BY <1>2, <2>1 DEF Restart
  <2>3. llm' \in 1..Len(clients') /\ router' \in RouterRecord
    BY <1>2, <2>1, <2>2 DEF Restart
  <2>4. up' \in BOOLEAN /\ settled' \in BOOLEAN /\ torn' \in BOOLEAN
    BY <1>2 DEF Restart
  <2>5. GatewayTyped'
    BY <1>2, <2>2, <2>3, <2>4 DEF Restart, stored, Sound, GatewayTyped
  <2>6. ReferencesHold'
    BY <1>2 DEF Restart, Sound, ReferencesHold, IdleRun, Free
  <2> QED BY <2>5, <2>6 DEF Sound
<1> QED BY <1>1, <1>2

\* The requests that operators make, as what they will write.
LEMMA ChangesAreTyped ==
  ASSUME Sound, NEW h \in Handler,
         \/ \E p \in Provider, key \in Key \cup {None}, clear, choose \in BOOLEAN :
              UpdateProvider(h, p, key, clear, choose)
         \/ \E p \in Provider : DeleteProvider(h, p)
         \/ \E p \in Provider \cup {None} : SetActive(h, p)
  PROVE  \E change \in Change : Begin(h, change)
<1>1. ASSUME NEW p \in Provider, NEW key \in Key \cup {None}, NEW clear \in BOOLEAN,
             NEW choose \in BOOLEAN, UpdateProvider(h, p, key, clear, choose)
      PROVE  \E change \in Change : Begin(h, change)
  <2>1. row[p] \in {None} \cup Credential
    BY DEF Sound, GatewayTyped, Rows
  <2>2. Merged(p, key, clear, choose) \in Credential
    <3> DEFINE old == IF row[p] = None THEN [key |-> None, chosen |-> FALSE] ELSE row[p]
    <3>1. old.key \in Key \cup {None} /\ old.chosen \in BOOLEAN
      BY <2>1 DEF Credential
    <3> HIDE DEF old
    <3>2. Merged(p, key, clear, choose) =
            [key |-> IF clear THEN None ELSE IF key # None THEN key ELSE old.key,
             chosen |-> choose \/ old.chosen]
      BY DEF Merged, old
    <3>3. (choose \/ old.chosen) \in BOOLEAN
      BY <3>1
    <3> QED BY <3>1, <3>2, <3>3 DEF Credential
  <2>3. [NoChange EXCEPT !.provider = p, !.row = Merged(p, key, clear, choose)] \in Change
    BY <2>2 DEF NoChange, Change
  <2> QED BY <1>1, <2>3 DEF UpdateProvider
<1>2. ASSUME NEW p \in Provider, DeleteProvider(h, p)
      PROVE  \E change \in Change : Begin(h, change)
  <2>1. [provider |-> p, row |-> None, active |-> IF active = p THEN None ELSE Keep] \in Change
    BY DEF Change
  <2> QED BY <1>2, <2>1 DEF DeleteProvider
<1>3. ASSUME NEW p \in Provider \cup {None}, SetActive(h, p)
      PROVE  \E change \in Change : Begin(h, change)
  <2>1. [NoChange EXCEPT !.active = p] \in Change
    BY DEF NoChange, Change
  <2> QED BY <1>3, <2>1 DEF SetActive
<1> QED BY <1>1, <1>2, <1>3

\* The steps of the gateway: one that begins a request, one of a request, one of
\* a run, or one of the process.
GatewayStep ==
  \/ \E h \in Handler : \/ \E change \in Change : Begin(h, change)
                        \/ HandlerStep(h) \/ StoreFails(h)
  \/ \E r \in Run : \/ StartRun(r) \/ EndRun(r)
                    \/ \E p \in Provider : Call(r, p)
                    \/ \E outcome \in Outcome : Answer(r, outcome)
  \/ Crash \/ Restart

LEMMA NextIsGatewayStep == ASSUME Sound, Next PROVE GatewayStep
BY ChangesAreTyped DEF Next, GatewayStep

LEMMA SoundStep == ASSUME Sound, [Next]_vars PROVE Sound'
<1>1. CASE Next
  BY <1>1, NextIsGatewayStep, BeginKeepsSound, RequestsKeepSound, InstallKeepsSound,
     ClosedKeepsSound, RunsKeepSound, CallKeepsSound, ProcessKeepsSound
  DEF GatewayStep, HandlerStep
<1>2. CASE UNCHANGED vars
  BY <1>2 DEF vars, stored, installed, Sound, GatewayTyped, ReferencesHold
<1> QED BY <1>1, <1>2

-----------------------------------------------------------------------------
(* The requests of one call. *)

\* Of a call in its nth round, each round before had its attempts at most.
CallIsCounted(c) ==
  IF c.at = "calling"
  THEN /\ c.round \in 1..MaxRepairs + 1 /\ c.attempt \in 1..MaxAttempts
       /\ c.sent <= (c.round - 1) * MaxAttempts + c.attempt
  ELSE c.sent = 0

CallsAreCountedByRound == \A r \in Run : CallIsCounted(run[r])

LEMMA CallsStep ==
  ASSUME Sound, CallsAreCountedByRound, [Next]_vars
  PROVE  CallsAreCountedByRound'
<1>0. MaxAttempts \in Nat /\ MaxAttempts >= 1 /\ MaxRepairs \in Nat
  BY GatewayAssumption DEF GatewayAssumption
<1>1. CallIsCounted(IdleRun)
  BY DEF CallIsCounted, IdleRun
<1>2. CASE UNCHANGED run
  BY <1>2 DEF CallsAreCountedByRound
<1>3. ASSUME NEW r \in Run, NEW new, CallIsCounted(new), run' = [run EXCEPT ![r] = new]
      PROVE  CallsAreCountedByRound'
  BY <1>3 DEF CallsAreCountedByRound, Sound, GatewayTyped
<1>4. ASSUME NEW r \in Run, StartRun(r) \/ EndRun(r) PROVE CallsAreCountedByRound'
  <2>1. CallIsCounted([IdleRun EXCEPT !.at = "ready", !.llm = llm, !.router = router,
                                      !.torn = torn])
    BY DEF CallIsCounted, IdleRun
  <2> QED BY <1>1, <1>3, <1>4, <2>1 DEF StartRun, EndRun
<1>5. ASSUME NEW r \in Run, NEW p \in Provider, Call(r, p) PROVE CallsAreCountedByRound'
  <2> DEFINE new == [run[r] EXCEPT !.at = "calling", !.provider = p,
                                   !.round = 1, !.attempt = 1, !.sent = 1]
  <2>1. run[r] \in RunRecord
    BY DEF Sound, GatewayTyped
  <2>2. new.at = "calling" /\ new.round = 1 /\ new.attempt = 1 /\ new.sent = 1
    BY <2>1 DEF RunRecord
  <2>3. run' = [run EXCEPT ![r] = new]
    BY <1>5, <2>1 DEF Call, Sound, GatewayTyped
  <2> HIDE DEF new
  <2>4. (1 - 1) * MaxAttempts = 0
    BY <1>0
  <2>5. CallIsCounted(new)
    BY <1>0, <2>2, <2>4 DEF CallIsCounted
  <2> QED BY <1>3, <2>3, <2>5
<1>6. ASSUME NEW r \in Run, NEW outcome \in Outcome, Answer(r, outcome)
      PROVE  CallsAreCountedByRound'
  <2> DEFINE c == run[r]
  <2>1. /\ c \in RunRecord /\ CallIsCounted(c) /\ c.at = "calling"
        /\ c.round \in Nat /\ c.attempt \in Nat /\ c.sent \in Nat
    BY <1>6 DEF Sound, GatewayTyped, CallsAreCountedByRound, Answer, RunRecord
  <2>2. /\ c.round \in 1..MaxRepairs + 1 /\ c.attempt \in 1..MaxAttempts
        /\ c.sent <= (c.round - 1) * MaxAttempts + c.attempt
    BY <2>1 DEF CallIsCounted
  <2>3. /\ (c.round - 1) * MaxAttempts \in Int
        /\ ((c.round + 1) - 1) * MaxAttempts = (c.round - 1) * MaxAttempts + MaxAttempts
    BY <1>0, <2>1
  <2>4. CASE ShouldRetry(c.attempt, outcome)
    <3> DEFINE new == [c EXCEPT !.attempt = @ + 1, !.sent = @ + 1]
    <3>1. run' = [run EXCEPT ![r] = new]
      BY <1>6, <2>4 DEF Answer
    <3>2. /\ new.at = "calling" /\ new.round = c.round /\ new.attempt = c.attempt + 1
          /\ new.sent = c.sent + 1
      BY <2>1 DEF RunRecord
    <3>3. c.attempt < MaxAttempts
      BY <2>4 DEF ShouldRetry
    <3> HIDE DEF new, c
    <3>4. CallIsCounted(new)
      BY <1>0, <2>1, <2>2, <2>3, <3>2, <3>3 DEF CallIsCounted
    <3> QED BY <1>3, <3>1, <3>4
  <2>5. CASE ~ShouldRetry(c.attempt, outcome) /\ ShouldRepair(c.round, outcome)
    <3> DEFINE new == [c EXCEPT !.round = @ + 1, !.attempt = 1, !.sent = @ + 1]
    <3>1. run' = [run EXCEPT ![r] = new]
      BY <1>6, <2>5 DEF Answer
    <3>2. /\ new.at = "calling" /\ new.round = c.round + 1 /\ new.attempt = 1
          /\ new.sent = c.sent + 1
      BY <2>1 DEF RunRecord
    <3>3. c.round <= MaxRepairs
      BY <2>5 DEF ShouldRepair
    <3> HIDE DEF new, c
    <3>4. CallIsCounted(new)
      BY <1>0, <2>1, <2>2, <2>3, <3>2, <3>3 DEF CallIsCounted
    <3> QED BY <1>3, <3>1, <3>4
  <2>6. CASE ~ShouldRetry(c.attempt, outcome) /\ ~ShouldRepair(c.round, outcome)
    <3> DEFINE new == [c EXCEPT !.at = "ready", !.provider = None, !.round = 0,
                                !.attempt = 0, !.sent = 0]
    <3>1. run' = [run EXCEPT ![r] = new]
      BY <1>6, <2>6 DEF Answer
    <3>2. CallIsCounted(new)
      BY <2>1 DEF CallIsCounted, RunRecord
    <3> HIDE DEF new
    <3> QED BY <1>3, <3>1, <3>2
  <2> QED BY <2>4, <2>5, <2>6
<1>7. CASE Crash
  BY <1>1, <1>7 DEF Crash, CallsAreCountedByRound
<1>8. ASSUME NEW h \in Handler,
             (\E change \in Change : Begin(h, change)) \/ HandlerStep(h) \/ StoreFails(h)
      PROVE  UNCHANGED run
  BY <1>8 DEF Begin, HandlerStep, Commit, StoreFails, ReadRows, ReadActive, Install, CloseNext,
              Closed, served
<1>9. CASE Restart \/ UNCHANGED vars
  BY <1>2, <1>9 DEF Restart, vars
<1> QED BY <1>2, <1>4, <1>5, <1>6, <1>7, <1>8, <1>9, NextIsGatewayStep DEF GatewayStep

\* Retries and repairs multiply and no more (llm/factory.py:272), for any
\* number of attempts and repairs.
THEOREM CallsAreAlwaysBounded == Spec => []CallsAreBounded
<1>1. Init => CallsAreCountedByRound
  BY DEF Init, CallsAreCountedByRound, CallIsCounted, IdleRun
<1>2. Sound /\ CallsAreCountedByRound => CallsAreBounded
  <2> SUFFICES ASSUME Sound, CallsAreCountedByRound, NEW r \in Run
               PROVE  run[r].sent <= (MaxRepairs + 1) * MaxAttempts
    BY DEF CallsAreBounded
  <2> DEFINE c == run[r]
  <2>1. /\ c \in RunRecord /\ CallIsCounted(c)
        /\ c.round \in Nat /\ c.attempt \in Nat /\ c.sent \in Nat
        /\ MaxAttempts \in Nat /\ MaxRepairs \in Nat
    BY GatewayAssumption
    DEF GatewayAssumption, Sound, GatewayTyped, CallsAreCountedByRound, RunRecord
  <2> HIDE DEF c
  <2>2. (MaxRepairs + 1) * MaxAttempts >= 0
    BY <2>1
  <2>3. CASE c.at = "calling"
    <3>1. /\ c.round <= MaxRepairs + 1 /\ c.attempt <= MaxAttempts /\ c.round >= 1
          /\ c.sent <= (c.round - 1) * MaxAttempts + c.attempt
      BY <2>1, <2>3 DEF CallIsCounted
    <3>2. (c.round - 1) * MaxAttempts + MaxAttempts = c.round * MaxAttempts
      BY <2>1
    <3>3. c.round * MaxAttempts <= (MaxRepairs + 1) * MaxAttempts
      BY <2>1, <3>1
    <3>4. (c.round - 1) * MaxAttempts \in Int /\ c.round * MaxAttempts \in Int
      BY <2>1
    <3> QED BY <2>1, <3>1, <3>2, <3>3, <3>4 DEF c
  <2>4. CASE c.at # "calling"
    BY <2>1, <2>2, <2>4 DEF CallIsCounted, c
  <2> QED BY <2>3, <2>4
<1>3. Sound /\ [Next]_vars => Sound'
  BY SoundStep
<1>4. Sound /\ CallsAreCountedByRound /\ [Next]_vars => CallsAreCountedByRound'
  BY CallsStep
<1> QED BY SoundInit, <1>1, <1>2, <1>3, <1>4, PTL DEF Spec

-----------------------------------------------------------------------------
(* What operators set, in force. *)

\* No request that is alone among those at work can have read what another one
\* has changed since: there is no other.
AloneIsAlone ==
  \A h \in Handler : (handler[h].alone /\ Busy(h)) => \A g \in Handler \ {h} : ~Busy(g)

ReadsAreCurrent ==
  \A h \in Handler : handler[h].alone =>
    /\ handler[h].at \in {"active", "install"} => handler[h].rows = row
    /\ handler[h].at = "install" => handler[h].active = active

Settling == AloneIsAlone /\ ReadsAreCurrent /\ SettingsTakeEffect

\* A request that goes on is alone as long as no other one begins.
LEMMA GoingOnKeepsAlone ==
  ASSUME Sound, AloneIsAlone, NEW h \in Handler, NEW new,
         handler' = [handler EXCEPT ![h] = new],
         new.alone => handler[h].alone,
         new.at \in {"writing", "rows", "active", "install"} => Busy(h)
  PROVE  AloneIsAlone'
<1> SUFFICES ASSUME NEW f \in Handler, handler'[f].alone, Busy(f)', NEW g \in Handler \ {f}
             PROVE  ~Busy(g)'
  BY DEF AloneIsAlone
<1>1. \A k \in Handler : handler'[k] = IF k = h THEN new ELSE handler[k]
  BY DEF Sound, GatewayTyped
<1>2. handler[f].alone /\ Busy(f)
  BY <1>1 DEF Busy
<1>3. ~Busy(g)
  BY <1>2 DEF AloneIsAlone
<1> QED BY <1>1, <1>3 DEF Busy

LEMMA BeginKeepsAlone ==
  ASSUME Sound, AloneIsAlone, ReadsAreCurrent, NEW h \in Handler, NEW change,
         Begin(h, change)
  PROVE  AloneIsAlone' /\ ReadsAreCurrent'
<1>1. ASSUME NEW g \in Handler, handler'[g].alone
      PROVE  \/ g = h /\ handler'[g].at = "writing" /\ \A f \in Handler : ~Busy(f)
             \/ g # h /\ handler'[g] = handler[g] /\ ~Busy(g)
  <2>1. CASE g = h
    BY <1>1, <2>1 DEF Begin, Free
  <2>2. CASE g # h /\ Busy(g)
    <3>1. handler'[g] = [handler[g] EXCEPT !.alone = FALSE] /\ handler[g] \in HandlerRecord
      BY <2>2 DEF Begin, Sound, GatewayTyped
    <3>2. handler'[g].alone = FALSE
      BY <3>1 DEF HandlerRecord
    <3> QED BY <1>1, <3>2
  <2>3. CASE g # h /\ ~Busy(g)
    BY <2>3 DEF Begin
  <2> QED BY <2>1, <2>2, <2>3
<1>2. ASSUME NEW f \in Handler \ {h} PROVE Busy(f)' => Busy(f)
  BY DEF Begin, Busy, Sound, GatewayTyped, HandlerRecord
<1>3. AloneIsAlone'
  BY <1>1, <1>2 DEF AloneIsAlone, Busy
<1>4. ReadsAreCurrent'
  BY <1>1 DEF ReadsAreCurrent, Busy, Begin, stored
<1> QED BY <1>3, <1>4

LEMMA RequestsKeepAlone ==
  ASSUME Sound, AloneIsAlone, ReadsAreCurrent, NEW h \in Handler,
         HandlerStep(h) \/ StoreFails(h)
  PROVE  AloneIsAlone' /\ ReadsAreCurrent'
<1>0. handler[h] \in HandlerRecord /\ handler \in [Handler -> HandlerRecord]
  BY DEF Sound, GatewayTyped
<1>1. CASE Commit(h)
  <2> DEFINE new == [handler[h] EXCEPT !.at = "rows", !.change = NoChange]
  <2>1. /\ handler' = [handler EXCEPT ![h] = new] /\ new.alone = handler[h].alone
        /\ new.at = "rows" /\ Busy(h)
    BY <1>0, <1>1 DEF Commit, HandlerRecord, Busy
  <2> HIDE DEF new
  <2>2. AloneIsAlone'
    BY <2>1, GoingOnKeepsAlone
  <2>3. ASSUME NEW g \in Handler, g # h, handler'[g].alone
        PROVE  ~Busy(g)'
    BY <1>0, <2>1, <2>3 DEF AloneIsAlone, Busy
  <2>4. ReadsAreCurrent'
    BY <1>0, <2>1, <2>3 DEF ReadsAreCurrent, Busy
  <2> QED BY <2>2, <2>4
<1>2. CASE StoreFails(h) \/ Closed(h)
  <2>1. handler' = [handler EXCEPT ![h] = Free] /\ row' = row /\ active' = active
    BY <1>2 DEF StoreFails, Closed, served, stored
  <2>2. Free.alone = FALSE /\ Free.at = "free"
    BY DEF Free
  <2>3. AloneIsAlone'
    BY <2>1, <2>2, GoingOnKeepsAlone
  <2> QED BY <1>0, <2>1, <2>2, <2>3 DEF ReadsAreCurrent
<1>3. CASE ReadRows(h)
  <2> DEFINE new == [handler[h] EXCEPT !.at = "active", !.rows = row]
  <2>1. /\ handler' = [handler EXCEPT ![h] = new] /\ new.alone = handler[h].alone
        /\ new.at = "active" /\ new.rows = row /\ Busy(h) /\ row' = row /\ active' = active
    BY <1>0, <1>3 DEF ReadRows, HandlerRecord, Busy, served, stored
  <2> HIDE DEF new
  <2>2. AloneIsAlone'
    BY <2>1, GoingOnKeepsAlone
  <2> QED BY <1>0, <2>1, <2>2 DEF ReadsAreCurrent
<1>4. CASE ReadActive(h)
  <2> DEFINE new == [handler[h] EXCEPT !.at = "install", !.active = active]
  <2>1. /\ handler' = [handler EXCEPT ![h] = new] /\ new.alone = handler[h].alone
        /\ new.at = "install" /\ new.rows = handler[h].rows /\ new.active = active
        /\ Busy(h) /\ handler[h].at = "active" /\ row' = row /\ active' = active
    BY <1>0, <1>4 DEF ReadActive, HandlerRecord, Busy, served, stored
  <2> HIDE DEF new
  <2>2. AloneIsAlone'
    BY <2>1, GoingOnKeepsAlone
  <2> QED BY <1>0, <2>1, <2>2 DEF ReadsAreCurrent
<1>5. CASE Install(h)
  <2>1. PICK new : /\ handler' = [handler EXCEPT ![h] = new]
                   /\ new.alone = FALSE /\ new.at \in {"free", "closing"}
    <3> DEFINE closing == [Free EXCEPT !.at = "closing", !.old = llm,
                                       !.todo = clients[llm].built]
    <3>1. closing.alone = FALSE /\ closing.at = "closing" /\ Free.alone = FALSE /\ Free.at = "free"
      BY DEF Free
    <3>2. handler' = [handler EXCEPT ![h] = closing] \/ handler' = [handler EXCEPT ![h] = Free]
      BY <1>5 DEF Install
    <3> HIDE DEF closing
    <3> QED BY <3>1, <3>2
  <2>2. AloneIsAlone'
    BY <2>1, GoingOnKeepsAlone
  <2>3. row' = row /\ active' = active
    BY <1>5 DEF Install, stored
  <2> QED BY <1>0, <2>1, <2>2, <2>3 DEF ReadsAreCurrent
<1>6. CASE CloseNext(h)
  <2>1. PICK p \in handler[h].todo :
           handler' = [handler EXCEPT ![h].todo = @ \ {p}, ![h].closing = p]
    BY <1>6 DEF CloseNext
  <2> DEFINE new == [handler[h] EXCEPT !.todo = @ \ {p}, !.closing = p]
  <2>2. /\ handler' = [handler EXCEPT ![h] = new] /\ new.alone = handler[h].alone
        /\ new.at = "closing" /\ row' = row /\ active' = active
    BY <1>0, <1>6, <2>1 DEF CloseNext, HandlerRecord, served, stored
  <2> HIDE DEF new
  <2>3. AloneIsAlone'
    BY <2>2, GoingOnKeepsAlone
  <2> QED BY <1>0, <2>2, <2>3 DEF ReadsAreCurrent
<1> QED BY <1>1, <1>2, <1>3, <1>4, <1>5, <1>6 DEF HandlerStep

\* What is in force stays so while nobody changes what is stored: an adapter that
\* is built or closed leaves the keys of its client as they are.
LEMMA InForceStays ==
  ASSUME Sound, SettingsTakeEffect, up' => up, settled' => settled,
         UNCHANGED <<row, active, llm, router>>,
         \A i \in 1..Len(clients) : clients'[i].keys = clients[i].keys
  PROVE  SettingsTakeEffect'
<1>1. llm \in 1..Len(clients)
  BY DEF Sound, GatewayTyped
<1> QED BY <1>1 DEF SettingsTakeEffect, NewClient, ResolvedKey

LEMMA InstallTakesEffect ==
  ASSUME Sound, Settling, NEW h \in Handler, Install(h)
  PROVE  SettingsTakeEffect'
<1> SUFFICES ASSUME settled' PROVE SettingsTakeEffect'
  BY DEF SettingsTakeEffect
<1>1. /\ handler[h].at = "install" /\ handler[h].alone
      /\ Buildable(handler[h].rows, handler[h].active) /\ llm' = Len(clients) + 1
      /\ row' = row /\ active' = active
  BY DEF Install, stored
<1>2. handler[h].rows = row /\ handler[h].active = active
  BY <1>1 DEF Settling, ReadsAreCurrent
<1>3. router' = Router(row, active)
  BY <1>1, <1>2 DEF Install
<1>4. clients'[llm'] = NewClient(row)
  BY <1>1, <1>2, InstallKeepsSound
<1>5. NewClient(row)' = NewClient(row) /\ Router(row, active)' = Router(row, active)
  BY <1>1 DEF NewClient, ResolvedKey, Router, Eligible, Connected, Forced
<1> QED BY <1>3, <1>4, <1>5 DEF SettingsTakeEffect

LEMMA SettlingStep ==
  ASSUME Sound, Settling, [Next]_vars
  PROVE  Settling'
<1> USE DEF Settling
<1>0. \A i \in 1..Len(clients) : clients[i].keys = clients[i].keys
  OBVIOUS
<1>1. ASSUME NEW h \in Handler, NEW change \in Change, Begin(h, change) PROVE Settling'
  BY <1>0, <1>1, BeginKeepsAlone, InForceStays DEF Begin, stored, installed
<1>2. ASSUME NEW h \in Handler, HandlerStep(h) \/ StoreFails(h) PROVE Settling'
  <2>1. ASSUME Commit(h) PROVE SettingsTakeEffect'
    BY <2>1 DEF Commit, SettingsTakeEffect
  <2>2. ASSUME StoreFails(h) \/ ReadRows(h) \/ ReadActive(h) \/ CloseNext(h)
        PROVE  SettingsTakeEffect'
    BY <1>0, <2>2, InForceStays
    DEF StoreFails, ReadRows, ReadActive, CloseNext, served, stored, installed
  <2>3. ASSUME Closed(h) PROVE SettingsTakeEffect'
    BY <2>3, ClosedKeepsSound, InForceStays DEF Closed, stored
  <2>4. ASSUME Install(h) PROVE SettingsTakeEffect'
    BY <2>4, InstallTakesEffect
  <2>5. SettingsTakeEffect'
    BY <1>2, <2>1, <2>2, <2>3, <2>4 DEF HandlerStep
  <2> QED BY <1>2, <2>5, RequestsKeepAlone
<1>3. ASSUME UNCHANGED <<handler, row, active>> PROVE AloneIsAlone' /\ ReadsAreCurrent'
  BY <1>3 DEF AloneIsAlone, ReadsAreCurrent, Busy
<1>4. ASSUME NEW r \in Run,
             StartRun(r) \/ EndRun(r) \/ (\E outcome \in Outcome : Answer(r, outcome))
      PROVE  Settling'
  <2>1. UNCHANGED <<stored, installed, handler, up>>
    BY <1>4 DEF StartRun, EndRun, Answer
  <2> QED BY <1>0, <1>3, <2>1, InForceStays DEF stored, installed
<1>5. ASSUME NEW r \in Run, NEW p \in Provider, Call(r, p) PROVE Settling'
  BY <1>3, <1>5, CallKeepsSound, InForceStays DEF Call, stored
<1>6. CASE Crash
  BY <1>6 DEF Crash, Free, AloneIsAlone, ReadsAreCurrent, SettingsTakeEffect, Busy
<1>7. CASE Restart
  <2>1. UNCHANGED <<handler, row, active>>
    BY <1>7 DEF Restart, stored
  <2>2. clients'[llm'].keys = NewClient(row).keys /\ router' = Router(row, active)
    BY <1>7 DEF Restart
  <2>3. NewClient(row)' = NewClient(row) /\ Router(row, active)' = Router(row, active)
    BY <2>1 DEF NewClient, ResolvedKey, Router, Eligible, Connected, Forced
  <2> QED BY <1>3, <2>1, <2>2, <2>3 DEF SettingsTakeEffect
<1>8. CASE UNCHANGED vars
  BY <1>0, <1>3, <1>8, InForceStays DEF vars, stored, installed
<1> QED BY <1>1, <1>2, <1>4, <1>5, <1>6, <1>7, <1>8, NextIsGatewayStep DEF GatewayStep

\* The client and the router that new runs get are those that the stored rows and
\* the stored active provider stand for, from the end of a reload that met no
\* other request until the next change (api/state.py:65), for any providers, keys
\* and number of requests.
THEOREM SettingsAlwaysTakeEffect == Spec => []SettingsTakeEffect
<1>1. Init => Settling
  BY DEF Init, Settling, AloneIsAlone, ReadsAreCurrent, SettingsTakeEffect, Free
<1>2. Settling => SettingsTakeEffect
  BY DEF Settling
<1>3. Sound /\ [Next]_vars => Sound'
  BY SoundStep
<1>4. Sound /\ Settling /\ [Next]_vars => Settling'
  BY SettlingStep
<1> QED BY SoundInit, <1>1, <1>2, <1>3, <1>4, PTL DEF Spec

-----------------------------------------------------------------------------
(* What routers offer. *)

\* The installed router offers no provider that the installed client cannot call.
InstalledOffersAreServed ==
  ~torn => \A p \in router.eligible : Served(clients[llm].keys, p)

LEMMA EligibleAreServed ==
  ASSUME NEW rs \in Rows, NEW a \in Provider \cup {None},
         NEW p \in Router(rs, a).eligible
  PROVE  Served(NewClient(rs).keys, p)
<1>1. p \in Connected(rs)
  BY DEF Router, Eligible
<1> QED BY <1>1 DEF Connected, Served, NewClient

\* Runs that keep their client and router keep being served, whatever is built,
\* closed or appended.
LEMMA OffersStay ==
  ASSUME Sound, OffersAreServed, UNCHANGED run,
         \A i \in 1..Len(clients) : clients'[i].keys = clients[i].keys
  PROVE  OffersAreServed'
<1>1. \A r \in Run : run[r].at # "idle" => run[r].llm \in 1..Len(clients)
  BY DEF Sound, ReferencesHold
<1> QED BY <1>1 DEF OffersAreServed, Served

LEMMA InstalledOffersStay ==
  ASSUME Sound, InstalledOffersAreServed, UNCHANGED <<llm, router, torn>>,
         \A i \in 1..Len(clients) : clients'[i].keys = clients[i].keys
  PROVE  InstalledOffersAreServed'
<1>1. llm \in 1..Len(clients)
  BY DEF Sound, GatewayTyped
<1> QED BY <1>1 DEF InstalledOffersAreServed, Served

LEMMA InstallKeepsOffers ==
  ASSUME Sound, OffersAreServed, InstalledOffersAreServed, NEW h \in Handler, Install(h)
  PROVE  OffersAreServed' /\ InstalledOffersAreServed'
<1>1. /\ \A i \in 1..Len(clients) : clients'[i] = clients[i]
      /\ clients'[Len(clients) + 1] = NewClient(handler[h].rows)
  BY InstallKeepsSound
<1>2. OffersAreServed'
  BY <1>1, OffersStay DEF Install
<1>3. ASSUME ~torn', NEW p \in router'.eligible PROVE Served(clients'[llm'].keys, p)
  <2>1. Buildable(handler[h].rows, handler[h].active) /\ llm' = Len(clients) + 1
    BY <1>3 DEF Install
  <2>2. router' = Router(handler[h].rows, handler[h].active)
    BY <2>1 DEF Install
  <2>3. handler[h].rows \in Rows /\ handler[h].active \in Provider \cup {None}
    BY HandlersAreTyped DEF HandlerRecord
  <2>4. Served(NewClient(handler[h].rows).keys, p)
    BY <1>3, <2>2, <2>3, EligibleAreServed
  <2> QED BY <1>1, <2>1, <2>4
<1> QED BY <1>2, <1>3 DEF InstalledOffersAreServed, Served

LEMMA RunsKeepOffers ==
  ASSUME Sound, OffersAreServed, InstalledOffersAreServed, NEW r \in Run,
         StartRun(r) \/ EndRun(r) \/ \E outcome \in Outcome : Answer(r, outcome)
  PROVE  OffersAreServed'
<1>0. run \in [Run -> RunRecord] /\ run[r] \in RunRecord
  BY DEF Sound, GatewayTyped
<1>1. ASSUME NEW new, run' = [run EXCEPT ![r] = new], UNCHANGED clients,
             (new.at # "idle" /\ ~new.torn) =>
               \A p \in new.router.eligible : Served(clients[new.llm].keys, p)
      PROVE  OffersAreServed'
  BY <1>0, <1>1 DEF OffersAreServed, Served
<1>2. CASE StartRun(r)
  <2> DEFINE new == [IdleRun EXCEPT !.at = "ready", !.llm = llm, !.router = router,
                                    !.torn = torn]
  <2>1. run' = [run EXCEPT ![r] = new] /\ UNCHANGED clients
    BY <1>2 DEF StartRun, installed
  <2>2. new.llm = llm /\ new.router = router /\ new.torn = torn
    BY DEF IdleRun
  <2> HIDE DEF new
  <2> QED BY <1>1, <2>1, <2>2 DEF InstalledOffersAreServed
<1>3. CASE EndRun(r)
  <2>1. run' = [run EXCEPT ![r] = IdleRun] /\ UNCHANGED clients /\ IdleRun.at = "idle"
    BY <1>3 DEF EndRun, installed, IdleRun
  <2> QED BY <1>1, <2>1
<1>4. ASSUME NEW outcome \in Outcome, Answer(r, outcome) PROVE OffersAreServed'
  <2>1. run[r].at = "calling" /\ UNCHANGED clients
    BY <1>4 DEF Answer, installed
  <2>2. PICK new : /\ run' = [run EXCEPT ![r] = new]
                   /\ new.llm = run[r].llm /\ new.router = run[r].router
                   /\ new.torn = run[r].torn
    <3> DEFINE again == [run[r] EXCEPT !.attempt = @ + 1, !.sent = @ + 1]
               repaired == [run[r] EXCEPT !.round = @ + 1, !.attempt = 1, !.sent = @ + 1]
               answered == [run[r] EXCEPT !.at = "ready", !.provider = None, !.round = 0,
                                          !.attempt = 0, !.sent = 0]
               same(new) == /\ new.llm = run[r].llm /\ new.router = run[r].router
                            /\ new.torn = run[r].torn
    <3>1. same(again) /\ same(repaired) /\ same(answered)
      BY <1>0 DEF RunRecord
    <3>2. \/ run' = [run EXCEPT ![r] = again] \/ run' = [run EXCEPT ![r] = repaired]
          \/ run' = [run EXCEPT ![r] = answered]
      BY <1>4 DEF Answer
    <3> HIDE DEF again, repaired, answered
    <3> QED BY <3>1, <3>2
  <2> QED BY <1>1, <2>1, <2>2 DEF OffersAreServed
<1> QED BY <1>2, <1>3, <1>4

LEMMA CallKeepsOffers ==
  ASSUME Sound, OffersAreServed, NEW r \in Run, NEW p \in Provider, Call(r, p)
  PROVE  OffersAreServed'
<1> DEFINE new == [run[r] EXCEPT !.at = "calling", !.provider = p,
                                 !.round = 1, !.attempt = 1, !.sent = 1]
<1>1. /\ run \in [Run -> RunRecord] /\ run[r] \in RunRecord
      /\ \A s \in Run : run[s].at # "idle" => run[s].llm \in 1..Len(clients)
  BY DEF Sound, GatewayTyped, ReferencesHold
<1>2. /\ run' = [run EXCEPT ![r] = new] /\ run[r].at = "ready"
      /\ new.llm = run[r].llm /\ new.router = run[r].router /\ new.torn = run[r].torn
  BY <1>1 DEF Call, RunRecord
<1> HIDE DEF new
<1>3. \A i \in 1..Len(clients) : clients'[i].keys = clients[i].keys
  BY CallKeepsSound
<1> SUFFICES ASSUME NEW s \in Run, run'[s].at # "idle", ~run'[s].torn,
                    NEW q \in run'[s].router.eligible
             PROVE  Served(clients'[run'[s].llm].keys, q)
  BY DEF OffersAreServed, Served
<1>4. /\ run'[s].llm = run[s].llm /\ run'[s].router = run[s].router
      /\ run'[s].torn = run[s].torn /\ run[s].at # "idle"
  BY <1>1, <1>2
<1>5. Served(clients[run[s].llm].keys, q)
  BY <1>4 DEF OffersAreServed
<1> QED BY <1>1, <1>3, <1>4, <1>5

LEMMA OffersStep ==
  ASSUME Sound, OffersAreServed, InstalledOffersAreServed, [Next]_vars
  PROVE  OffersAreServed' /\ InstalledOffersAreServed'
<1>0. \A i \in 1..Len(clients) : clients[i].keys = clients[i].keys
  OBVIOUS
<1>1. ASSUME UNCHANGED <<installed, run>>
      PROVE  OffersAreServed' /\ InstalledOffersAreServed'
  BY <1>0, <1>1, OffersStay, InstalledOffersStay DEF installed
<1>2. ASSUME NEW h \in Handler, NEW change \in Change, Begin(h, change)
      PROVE  OffersAreServed' /\ InstalledOffersAreServed'
  BY <1>1, <1>2 DEF Begin
<1>3. ASSUME NEW h \in Handler, HandlerStep(h) \/ StoreFails(h)
      PROVE  OffersAreServed' /\ InstalledOffersAreServed'
  <2>1. CASE StoreFails(h) \/ ReadRows(h) \/ ReadActive(h) \/ CloseNext(h)
    BY <1>1, <2>1 DEF StoreFails, ReadRows, ReadActive, CloseNext, served
  <2>2. CASE Commit(h)
    BY <1>0, <2>2, OffersStay, InstalledOffersStay DEF Commit
  <2>3. CASE Install(h)
    BY <2>3, InstallKeepsOffers
  <2>4. CASE Closed(h)
    BY <2>4, ClosedKeepsSound, OffersStay, InstalledOffersStay DEF Closed
  <2> QED BY <1>3, <2>1, <2>2, <2>3, <2>4 DEF HandlerStep
<1>4. ASSUME NEW r \in Run,
             StartRun(r) \/ EndRun(r) \/ (\E outcome \in Outcome : Answer(r, outcome))
      PROVE  OffersAreServed' /\ InstalledOffersAreServed'
  <2>1. UNCHANGED installed
    BY <1>4 DEF StartRun, EndRun, Answer
  <2> QED BY <1>0, <1>4, <2>1, RunsKeepOffers, InstalledOffersStay DEF installed
<1>5. ASSUME NEW r \in Run, NEW p \in Provider, Call(r, p)
      PROVE  OffersAreServed' /\ InstalledOffersAreServed'
  BY <1>5, CallKeepsOffers, CallKeepsSound, InstalledOffersStay DEF Call
<1>6. CASE Crash
  <2>1. OffersAreServed'
    BY <1>6 DEF Crash, IdleRun, OffersAreServed
  <2> QED BY <1>0, <1>6, <2>1, InstalledOffersStay DEF Crash, installed
<1>7. CASE Restart
  <2>1. row \in Rows /\ active \in Provider \cup {None}
    BY DEF Sound, GatewayTyped
  <2>2. clients'[llm'] = NewClient(row) /\ router' = Router(row, active)
    BY <1>7 DEF Restart
  <2>3. InstalledOffersAreServed'
    BY <2>1, <2>2, EligibleAreServed DEF InstalledOffersAreServed, Served
  <2>4. \A r \in Run : run'[r].at = "idle"
    BY <1>7 DEF Restart, Sound, ReferencesHold, IdleRun
  <2> QED BY <2>3, <2>4 DEF OffersAreServed
<1>8. CASE UNCHANGED vars
  BY <1>1, <1>8 DEF vars
<1> QED BY <1>2, <1>3, <1>4, <1>5, <1>6, <1>7, <1>8, NextIsGatewayStep DEF GatewayStep

\* No run's router offers a provider that the run's own client has no key for,
\* unless the reload it started after had failed half-way (api/state.py:80, 95),
\* for any providers, keys, runs and interleaving of requests.
THEOREM OffersAreAlwaysServed == Spec => []OffersAreServed
<1>1. Init => OffersAreServed /\ InstalledOffersAreServed
  <2> SUFFICES ASSUME Init PROVE OffersAreServed /\ InstalledOffersAreServed
    OBVIOUS
  <2>1. row \in Rows /\ active \in Provider \cup {None}
    BY SoundInit DEF Sound, GatewayTyped
  <2>2. clients[llm] = NewClient(row) /\ router = Router(row, active)
    BY DEF Init
  <2>3. InstalledOffersAreServed
    BY <2>1, <2>2, EligibleAreServed DEF InstalledOffersAreServed
  <2>4. OffersAreServed
    BY DEF Init, OffersAreServed, IdleRun
  <2> QED BY <2>3, <2>4
<1>2. Sound /\ [Next]_vars => Sound'
  BY SoundStep
<1>3. Sound /\ OffersAreServed /\ InstalledOffersAreServed /\ [Next]_vars
        => OffersAreServed' /\ InstalledOffersAreServed'
  BY OffersStep
<1> QED BY SoundInit, <1>1, <1>2, <1>3, PTL DEF Spec
-----------------------------------------------------------------------------
(* The numbers of events.  The counter of the bus is never below a number  *)
(* that was used, and what an emitter still has to write is above all that *)
(* the runs before wrote.                                                  *)

Delivery == [run : Nat, sequence : Nat, ending : BOOLEAN]

StreamTyped ==
  /\ runs \in Nat /\ sequence \in Nat
  /\ current \in [Emitter -> Delivery] /\ owed \in [Emitter -> SUBSET Sink]
  /\ rows \subseteq Delivery
  /\ log \in Seq(Delivery) /\ floor \in Nat

\* An emitter that delivers an event still owes it to a sink, and none does
\* once the run is over.
DeliveriesAreOwed ==
  /\ \A e \in Emitter : current[e] = NoEvent <=> owed[e] = {}
  /\ phase = "off" => Quiet

RowsAreCounted == \A r \in rows : r.run <= runs /\ r.sequence <= sequence

\* What is delivered carries a number of this run that no other emitter has,
\* above the earlier runs' and, before its row is written, not among the rows.
DeliveriesAreNumbered ==
  \A e \in Emitter : current[e] # NoEvent =>
     /\ current[e].run = runs /\ current[e].sequence <= sequence
     /\ \A d \in Emitter : current[d] # NoEvent /\ current[d].sequence = current[e].sequence
                           => d = e
     /\ \A r \in rows : r.run < runs => r.sequence < current[e].sequence
     /\ "log" \in owed[e] => \A r \in rows : r.sequence # current[e].sequence

Numbered == StreamTyped /\ DeliveriesAreOwed /\ RowsAreCounted
            /\ DeliveriesAreNumbered /\ NumbersContinue

\* A set of numbers with a bound has a largest.
LEMMA LargestExists ==
  ASSUME NEW S \in SUBSET Nat, S # {}, NEW k \in Nat, \A m \in S : m <= k
  PROVE  \E n \in S : \A m \in S : m <= n
<1> DEFINE Above(n) == {m \in S : n < m}
           D == {Above(n) : n \in S}
<1>1. IsFiniteSet(S)
  BY FS_BoundedSetOfNaturals
<1>2. IsWellFoundedOn(StrictSubsetOrdering(S), SUBSET S)
  BY <1>1, FS_StrictSubsetOrderingWellFounded, FS_FiniteSubsetsOfFinite
<1>3. D \subseteq SUBSET S /\ D # {}
  OBVIOUS
<1>4. PICK X \in D : \A Y \in D : ~ (<<Y, X>> \in StrictSubsetOrdering(S))
  <2> HIDE DEF D
  <2> QED BY <1>2, <1>3, WFMin
<1>5. PICK n \in S : X = Above(n)
  OBVIOUS
<1>6. ASSUME NEW m \in S, n < m PROVE FALSE
  <2>0. m \in Nat /\ n \in Nat /\ \A x \in S : x \in Nat
    OBVIOUS
  <2>1. Above(m) \subseteq Above(n) /\ m \in Above(n) /\ m \notin Above(m)
    <3>1. \A x \in S : m < x => n < x
      BY <1>6, <2>0
    <3>2. ~(m < m)
      BY <2>0
    <3> QED BY <1>6, <3>1, <3>2
  <2>2. Above(m) \in D /\ Above(m) \in SUBSET S /\ Above(n) \in SUBSET S
    OBVIOUS
  <2> HIDE DEF Above, D
  <2>3. <<Above(m), Above(n)>> \in StrictSubsetOrdering(S)
    BY <2>1, <2>2 DEF StrictSubsetOrdering
  <2> QED BY <1>4, <1>5, <2>2, <2>3
<1> QED BY <1>6

\* The number a resumed run begins with is that of a row, and none is above it.
LEMMA HighestIsHighest ==
  ASSUME StreamTyped, RowsAreCounted
  PROVE  /\ HighestNumber \in Nat /\ HighestNumber <= sequence
         /\ \A r \in rows : r.sequence <= HighestNumber
<1>1. Numbers \subseteq Nat /\ \A m \in Numbers : m <= sequence
  BY DEF Numbers, StreamTyped, RowsAreCounted, Delivery
<1>2. CASE rows = {}
  BY <1>2 DEF HighestNumber, StreamTyped
<1>3. CASE rows # {}
  <2>1. Numbers # {}
    BY <1>3 DEF Numbers
  <2>2. \E n \in Numbers : \A m \in Numbers : m <= n
    BY <1>1, <2>1, LargestExists DEF StreamTyped
  <2>3. HighestNumber \in Numbers /\ \A m \in Numbers : m <= HighestNumber
    BY <1>3, <2>2 DEF HighestNumber
  <2> QED BY <1>1, <2>3 DEF Numbers
<1> QED BY <1>2, <1>3

LEMMA NumberedInit == StreamInit => Numbered
BY DEF StreamInit, Numbered, StreamTyped, DeliveriesAreOwed, RowsAreCounted, Quiet,
       DeliveriesAreNumbered, NumbersContinue, NoEvent, Delivery

\* A number is taken: it is above all that were used.
LEMMA PublishKeepsNumbered ==
  ASSUME Numbered, NEW e \in Emitter, NEW ending \in BOOLEAN, Publish(e, ending),
         phase # "off", phase' # "off", UNCHANGED <<runs, store>>
  PROVE  Numbered'
<1> DEFINE new == [run |-> runs, sequence |-> sequence + 1, ending |-> ending]
<1>1. /\ sequence' = sequence + 1 /\ new \in Delivery /\ new # NoEvent
      /\ current' = [current EXCEPT ![e] = new] /\ owed' = [owed EXCEPT ![e] = Sink]
      /\ current[e] = NoEvent
  BY DEF Numbered, StreamTyped, Publish, Delivery, NoEvent
<1>2. new.run = runs /\ new.sequence = sequence + 1
  OBVIOUS
<1> HIDE DEF new
<1>3. StreamTyped'
  BY <1>1 DEF Numbered, StreamTyped, store
<1>4. DeliveriesAreOwed'
  BY <1>1 DEF Numbered, StreamTyped, DeliveriesAreOwed, Sink
<1>5. RowsAreCounted'
  BY <1>1 DEF Numbered, StreamTyped, RowsAreCounted, store, Delivery
<1>6. DeliveriesAreNumbered'
  <2> SUFFICES ASSUME NEW d \in Emitter, current'[d] # NoEvent
               PROVE  /\ current'[d].run = runs /\ current'[d].sequence <= sequence'
                      /\ \A c \in Emitter :
                            current'[c] # NoEvent /\ current'[c].sequence = current'[d].sequence
                            => c = d
                      /\ \A r \in rows : r.run < runs => r.sequence < current'[d].sequence
                      /\ "log" \in owed'[d] => \A r \in rows : r.sequence # current'[d].sequence
    BY DEF DeliveriesAreNumbered, store
  <2>1. /\ current \in [Emitter -> Delivery] /\ sequence \in Nat /\ runs \in Nat
        /\ \A r \in rows : r.run \in Nat /\ r.sequence \in Nat /\ r.sequence <= sequence
        /\ \A c \in Emitter : current[c].sequence \in Nat
    BY DEF Numbered, StreamTyped, RowsAreCounted, Delivery
  <2>2. \A c \in Emitter : current[c] # NoEvent => current[c].sequence <= sequence
    BY DEF Numbered, DeliveriesAreNumbered
  <2>3. CASE d = e
    BY <1>1, <1>2, <2>1, <2>2, <2>3
  <2>4. CASE d # e
    <3>1. current'[d] = current[d] /\ owed'[d] = owed[d]
      BY <1>1, <2>1, <2>4 DEF Numbered, StreamTyped
    <3>2. \A c \in Emitter : c # e => current'[c] = current[c]
      BY <1>1, <2>1
    <3>3. current'[e].sequence # current'[d].sequence
      BY <1>1, <1>2, <2>1, <2>2, <3>1
    <3>4. /\ current[d].run = runs /\ current[d].sequence <= sequence
          /\ \A c \in Emitter : current[c] # NoEvent /\ current[c].sequence = current[d].sequence
                                => c = d
          /\ \A r \in rows : r.run < runs => r.sequence < current[d].sequence
          /\ "log" \in owed[d] => \A r \in rows : r.sequence # current[d].sequence
      BY <3>1 DEF Numbered, DeliveriesAreNumbered
    <3> QED BY <1>1, <2>1, <3>1, <3>2, <3>3, <3>4
  <2> QED BY <2>3, <2>4
<1>7. NumbersContinue'
  BY DEF Numbered, NumbersContinue, store
<1> QED BY <1>3, <1>4, <1>5, <1>6, <1>7 DEF Numbered

\* A sink answers: an emitter owes less, and the rows are those of before.
LEMMA AnswerKeepsNumbered ==
  ASSUME Numbered, NEW e \in Emitter, NEW s \in owed[e], SinkAnswers(e, s),
         UNCHANGED <<rows, refused>>, log' \in Seq(Delivery), floor' \in Nat
  PROVE  Numbered'
<1>1. /\ runs' = runs /\ sequence' = sequence /\ phase' = phase
      /\ owed' = [owed EXCEPT ![e] = @ \ {s}]
      /\ current' = [current EXCEPT ![e] = IF owed[e] = {s} THEN NoEvent ELSE @]
  BY DEF SinkAnswers
<1>2. NoEvent \in Delivery
  BY DEF NoEvent, Delivery
<1>3. StreamTyped'
  BY <1>1, <1>2 DEF Numbered, StreamTyped
<1>4. DeliveriesAreOwed'
  BY <1>1 DEF Numbered, StreamTyped, DeliveriesAreOwed, Quiet
<1>5. \A d \in Emitter : current'[d] # NoEvent =>
          current[d] # NoEvent /\ current'[d] = current[d] /\ owed'[d] \subseteq owed[d]
  BY <1>1 DEF Numbered, StreamTyped, DeliveriesAreOwed
<1>6. DeliveriesAreNumbered'
  BY <1>1, <1>5 DEF Numbered, DeliveriesAreNumbered
<1>7. RowsAreCounted' /\ NumbersContinue'
  BY <1>1 DEF Numbered, RowsAreCounted, NumbersContinue
<1> QED BY <1>3, <1>4, <1>6, <1>7 DEF Numbered

\* A row is written: its number is new, so that no row is turned away.
LEMMA WriteRowKeepsNumbered ==
  ASSUME Numbered, NEW e \in Emitter, WriteRow(e)
  PROVE  Numbered'
<1> DEFINE new == current[e]
<1>1. /\ "log" \in owed[e] /\ SinkAnswers(e, "log") /\ new # NoEvent
      /\ UNCHANGED <<log, floor>>
  BY DEF WriteRow, Numbered, DeliveriesAreOwed
<1>2. new.sequence \notin Numbers
  BY <1>1 DEF Numbered, DeliveriesAreNumbered, Numbers
<1>3. rows' = rows \cup {new} /\ refused' = refused
  BY <1>2 DEF WriteRow
<1>4. /\ runs' = runs /\ sequence' = sequence /\ phase' = phase
      /\ owed' = [owed EXCEPT ![e] = @ \ {"log"}]
      /\ current' = [current EXCEPT ![e] = IF owed[e] = {"log"} THEN NoEvent ELSE @]
  BY <1>1 DEF SinkAnswers
<1>5. NoEvent \in Delivery /\ new \in Delivery
  BY DEF NoEvent, Delivery, Numbered, StreamTyped
<1>6. StreamTyped'
  BY <1>1, <1>3, <1>4, <1>5 DEF Numbered, StreamTyped
<1>7. DeliveriesAreOwed'
  BY <1>4 DEF Numbered, StreamTyped, DeliveriesAreOwed, Quiet
<1>8. /\ new.run = runs /\ new.sequence <= sequence
      /\ new.run \in Nat /\ new.sequence \in Nat
      /\ \A r \in rows : r.run < runs => r.sequence < new.sequence
      /\ \A d \in Emitter : current[d] # NoEvent /\ current[d].sequence = new.sequence => d = e
  BY <1>1, <1>5 DEF Numbered, DeliveriesAreNumbered, Delivery
<1>9. \A d \in Emitter : current'[d] # NoEvent =>
          current[d] # NoEvent /\ current'[d] = current[d] /\ owed'[d] \subseteq owed[d]
  BY <1>4 DEF Numbered, StreamTyped, DeliveriesAreOwed
<1>10. "log" \notin owed'[e]
  BY <1>4 DEF Numbered, StreamTyped
<1> HIDE DEF new
<1>11. RowsAreCounted'
  BY <1>3, <1>4, <1>8 DEF Numbered, StreamTyped, RowsAreCounted
<1>12. DeliveriesAreNumbered'
  <2> SUFFICES ASSUME NEW d \in Emitter, current'[d] # NoEvent
               PROVE  /\ current[d].run = runs /\ current[d].sequence <= sequence
                      /\ \A c \in Emitter :
                            current'[c] # NoEvent /\ current'[c].sequence = current[d].sequence
                            => c = d
                      /\ \A r \in rows' : r.run < runs => r.sequence < current[d].sequence
                      /\ "log" \in owed'[d] => \A r \in rows' : r.sequence # current[d].sequence
    BY <1>4, <1>9 DEF DeliveriesAreNumbered
  <2>1. current[d] # NoEvent
    BY <1>9
  <2>2. /\ current[d].run = runs /\ current[d].sequence <= sequence
        /\ \A c \in Emitter : current[c] # NoEvent /\ current[c].sequence = current[d].sequence
                              => c = d
        /\ \A r \in rows : r.run < runs => r.sequence < current[d].sequence
        /\ "log" \in owed[d] => \A r \in rows : r.sequence # current[d].sequence
    BY <2>1 DEF Numbered, DeliveriesAreNumbered
  <2>3. \A r \in rows' : r.run < runs => r.sequence < current[d].sequence
    <3>1. ~(new.run < runs)
      BY <1>8
    <3> QED BY <1>3, <2>2, <3>1
  <2>4. "log" \in owed'[d] => \A r \in rows' : r.sequence # current[d].sequence
    BY <1>3, <1>8, <1>9, <1>10, <2>1, <2>2
  <2> QED BY <1>9, <2>2, <2>3, <2>4
<1>13. NumbersContinue'
  <2>1. refused' = {}
    BY <1>3 DEF Numbered, NumbersContinue
  <2> SUFFICES ASSUME NEW r \in rows', NEW q \in rows', r.run < q.run
               PROVE  r.sequence < q.sequence
    BY <2>1 DEF NumbersContinue
  <2>2. r \in Delivery /\ q \in Delivery /\ runs \in Nat
    BY <1>3, <1>5, <1>6 DEF StreamTyped, Numbered
  <2>3. CASE r \in rows /\ q \in rows
    BY <2>3 DEF Numbered, NumbersContinue
  <2>4. CASE q = new
    <3>1. r \in rows
      BY <1>3, <2>2, <2>4 DEF Delivery
    <3> QED BY <1>8, <2>4, <3>1
  <2>5. CASE r = new /\ q \in rows
    <3>1. q.run <= runs
      BY <2>5 DEF Numbered, RowsAreCounted
    <3> QED BY <1>8, <2>2, <2>5, <3>1 DEF Delivery
  <2> QED BY <1>3, <2>3, <2>4, <2>5
<1> QED BY <1>6, <1>7, <1>11, <1>12, <1>13 DEF Numbered

\* A run begins where the rows end.
LEMMA BeginKeepsNumbered ==
  ASSUME Numbered, BeginRun
  PROVE  Numbered'
<1>1. /\ runs' = runs + 1 /\ sequence' = HighestNumber /\ phase = "off"
      /\ UNCHANGED <<current, owed, store>>
  BY DEF BeginRun
<1>2. /\ HighestNumber \in Nat /\ \A r \in rows : r.sequence <= HighestNumber
  BY HighestIsHighest DEF Numbered
<1>3. \A d \in Emitter : current[d] = NoEvent
  BY <1>1 DEF Numbered, DeliveriesAreOwed, Quiet
<1>4. StreamTyped'
  BY <1>1, <1>2 DEF Numbered, StreamTyped, store
<1>5. DeliveriesAreOwed' /\ DeliveriesAreNumbered'
  BY <1>1, <1>3 DEF Numbered, DeliveriesAreOwed, DeliveriesAreNumbered, Quiet
<1>6. RowsAreCounted'
  BY <1>1, <1>2 DEF Numbered, StreamTyped, RowsAreCounted, store, Delivery
<1>7. NumbersContinue'
  BY <1>1 DEF Numbered, NumbersContinue, store
<1> QED BY <1>4, <1>5, <1>6, <1>7 DEF Numbered

\* A viewer only reads.
LEMMA ViewersOnlyRead ==
  ASSUME NEW v \in Viewer, ViewerStep(v) \/ Drop(v)
  PROVE  UNCHANGED <<runVars, store>>
BY DEF ViewerStep, Check, Fetch, Open, Replay, Follow, Tailed, Deliver, Drop

LEMMA NumberedStep ==
  ASSUME Numbered, [StreamNext]_streamVars
  PROVE  Numbered'
<1>1. CASE BeginRun
  BY <1>1, BeginKeepsNumbered
<1>2. CASE CommitStatus \/ \E outcome \in {"active", "terminal"} : Leave(outcome)
  BY <1>2 DEF CommitStatus, Leave, store, Numbered, StreamTyped, DeliveriesAreOwed, Quiet,
              RowsAreCounted, DeliveriesAreNumbered, NumbersContinue
<1>3. CASE CrashRun
  <2>1. NoEvent \in Delivery
    BY DEF NoEvent, Delivery
  <2> QED BY <1>3, <2>1 DEF CrashRun, store, Numbered, StreamTyped, DeliveriesAreOwed, Quiet,
              RowsAreCounted, DeliveriesAreNumbered, NumbersContinue
<1>4. ASSUME NEW e \in Emitter, Emit(e) PROVE Numbered'
  BY <1>4, PublishKeepsNumbered DEF Emit
<1>5. ASSUME NEW e \in Emitter, NEW ending \in BOOLEAN, Finish(e, ending) PROVE Numbered'
  BY <1>5, PublishKeepsNumbered DEF Finish
<1>6. ASSUME NEW e \in Emitter, WriteRow(e) PROVE Numbered'
  BY <1>6, WriteRowKeepsNumbered
<1>7. ASSUME NEW e \in Emitter, AddToStream(e) PROVE Numbered'
  <2>1. "stream" \in owed[e] /\ SinkAnswers(e, "stream") /\ UNCHANGED <<rows, refused>>
    BY <1>7 DEF AddToStream
  <2>2. current[e] \in Delivery
    BY DEF Numbered, StreamTyped
  <2>3. log' \in Seq(Delivery) /\ Len(log) \in Nat
    BY <1>7, <2>2 DEF AddToStream, Numbered, StreamTyped
  <2>4. floor' \in Nat
    BY <1>7, <2>3, StreamAssumption DEF AddToStream, StreamAssumption, Numbered, StreamTyped
  <2> QED BY <2>1, <2>3, <2>4, AnswerKeepsNumbered
<1>8. ASSUME NEW e \in Emitter, NEW s \in Sink, SinkFails(e, s) PROVE Numbered'
  <2>1. log' \in Seq(Delivery) /\ floor' \in Nat
    BY <1>8 DEF SinkFails, store, Numbered, StreamTyped
  <2> QED BY <1>8, <2>1, AnswerKeepsNumbered DEF SinkFails, store
<1>9. CASE UNCHANGED <<runVars, store>>
  BY <1>9 DEF runVars, store, Numbered, StreamTyped, DeliveriesAreOwed, Quiet,
              RowsAreCounted, DeliveriesAreNumbered, NumbersContinue
<1> QED
  BY <1>1, <1>2, <1>3, <1>4, <1>5, <1>6, <1>7, <1>8, <1>9, ViewersOnlyRead
  DEF StreamNext, streamVars

\* No event is turned away, and the numbers of the rows are in order of runs
\* (events/bus.py:136), for any emitters, viewers, runs and faults.
THEOREM NumbersAlwaysContinue == StreamSpec => []NumbersContinue
<1>1. Numbered /\ [StreamNext]_streamVars => Numbered'
  BY NumberedStep
<1>2. Numbered => NumbersContinue
  BY DEF Numbered
<1> QED BY NumberedInit, <1>1, <1>2, PTL DEF StreamSpec

-----------------------------------------------------------------------------
(* The viewers.  What a viewer was shown is complete up to its last id and, *)
(* while it is connected, up to the route's cursor: the two part when it    *)
(* reconnects, and a replay takes the id back.                              *)

\* The entries up to position n that were not trimmed have been shown to v.
ShownUpTo(v, n) == \A p \in 1..n : p <= floor \/ log[p] \in seen[v]

PositionsAreLogged ==
  /\ floor \in 0..Len(log) /\ (floor # 0 => floor < Len(log))
  /\ at \in [Viewer -> 0..Len(log)] /\ goal \in [Viewer -> 0..Len(log)]
  /\ last \in [Viewer -> 0..Len(log)]
  /\ conn \in [Viewer -> Connection] /\ DOMAIN seen = Viewer

ViewIsComplete(v) ==
  /\ conn[v] \in {"new", "open_page"} => last[v] = 0
  /\ conn[v] \in {"connect", "backlog", "tail", "dropped"} => ShownUpTo(v, last[v])
  /\ conn[v] \in {"backlog", "tail"} => ShownUpTo(v, at[v])

LogTyped == log \in Seq(Delivery)

Complete == LogTyped /\ PositionsAreLogged /\ \A v \in Viewer : ViewIsComplete(v)

LEMMA CompleteInit == StreamInit => Complete
BY DEF StreamInit, Complete, LogTyped, PositionsAreLogged, ViewIsComplete, ShownUpTo, Connection

\* A log that grows, and is trimmed further, takes nothing from what was shown.
LEMMA GrowthKeepsComplete ==
  ASSUME Complete, UNCHANGED view, log' \in Seq(Delivery), Len(log') >= Len(log),
         \A p \in 1..Len(log) : log'[p] = log[p], floor' \in floor..Len(log'),
         floor' # 0 => floor' < Len(log')
  PROVE  Complete'
<1>1. Len(log) \in Nat /\ Len(log') \in Nat
  BY DEF Complete, LogTyped
<1>2. PositionsAreLogged'
  BY <1>1 DEF Complete, PositionsAreLogged, view
<1>3. ASSUME NEW v \in Viewer, NEW n \in 0..Len(log), ShownUpTo(v, n)
      PROVE  ShownUpTo(v, n)'
  <2>1. \A p \in 1..n : p \in 1..Len(log) /\ p \in Nat /\ log'[p] = log[p]
    BY <1>1
  <2>2. floor \in Nat /\ floor' \in Nat /\ floor <= floor'
    BY <1>1 DEF Complete, PositionsAreLogged
  <2> QED BY <1>3, <2>1, <2>2 DEF ShownUpTo, view
<1>4. ASSUME NEW v \in Viewer PROVE ViewIsComplete(v)'
  <2>1. last[v] \in 0..Len(log) /\ at[v] \in 0..Len(log)
    BY DEF Complete, PositionsAreLogged
  <2>2. ViewIsComplete(v)
    BY DEF Complete
  <2>3. last'[v] = last[v] /\ at'[v] = at[v] /\ conn'[v] = conn[v]
    BY DEF view
  <2>4. conn[v] \in {"connect", "backlog", "tail", "dropped"} => ShownUpTo(v, last[v])'
    BY <1>3, <2>1, <2>2, <2>3 DEF ViewIsComplete, ShownUpTo
  <2>5. conn[v] \in {"backlog", "tail"} => ShownUpTo(v, at[v])'
    BY <1>3, <2>1, <2>2, <2>3 DEF ViewIsComplete, ShownUpTo
  <2> QED BY <2>2, <2>3, <2>4, <2>5 DEF ViewIsComplete
<1> QED BY <1>2, <1>4 DEF Complete, LogTyped

\* One message moves the cursor and the id on to it, over what was trimmed.
LEMMA DeliveryKeepsComplete ==
  ASSUME Complete, NEW v \in Viewer, conn[v] \in {"backlog", "tail"}, NEW p \in 1..Len(log),
         Deliver(v, p), \A q \in 1..p-1 : q <= at[v] \/ q <= floor
  PROVE  Complete'
<1>0. Len(log) \in Nat /\ p \in 0..Len(log) /\ at[v] \in Nat /\ p \in Nat
  BY DEF Complete, LogTyped, PositionsAreLogged
<1>1. /\ UNCHANGED <<log, floor, goal>>
      /\ at' = [at EXCEPT ![v] = p] /\ last' = [last EXCEPT ![v] = p]
      /\ seen' = [seen EXCEPT ![v] = @ \cup {log[p]}]
      /\ conn' = conn \/ conn' = [conn EXCEPT ![v] = "dropped"]
  BY DEF Deliver, store, Go
<1>2. PositionsAreLogged' /\ LogTyped'
  BY <1>0, <1>1 DEF Complete, PositionsAreLogged, Connection, LogTyped
<1>3. ShownUpTo(v, p)'
  <2> SUFFICES ASSUME NEW q \in 1..p PROVE q <= floor \/ log[q] \in seen'[v]
    BY <1>1 DEF ShownUpTo
  <2>1. seen'[v] = seen[v] \cup {log[p]}
    BY <1>1 DEF Complete, PositionsAreLogged
  <2>2. CASE q = p
    BY <2>1, <2>2
  <2>3. CASE q # p
    <3>1. q \in 1..p-1 /\ q \in Nat
      BY <1>0, <2>3
    <3>2. CASE q <= at[v]
      <4>1. q \in 1..at[v] /\ ShownUpTo(v, at[v])
        BY <1>0, <3>1, <3>2 DEF Complete, ViewIsComplete
      <4> QED BY <2>1, <4>1 DEF ShownUpTo
    <3> QED BY <3>1, <3>2
  <2> QED BY <2>2, <2>3
<1>4. ASSUME NEW u \in Viewer PROVE ViewIsComplete(u)'
  <2>1. CASE u = v
    <3>1. at'[v] = p /\ last'[v] = p /\ conn'[v] \in {"backlog", "tail", "dropped"}
      BY <1>1 DEF Complete, PositionsAreLogged
    <3> QED BY <1>3, <2>1, <3>1 DEF ViewIsComplete, ShownUpTo
  <2>2. CASE u # v
    <3>1. /\ at'[u] = at[u] /\ last'[u] = last[u] /\ conn'[u] = conn[u] /\ seen'[u] = seen[u]
      BY <1>1, <2>2 DEF Complete, PositionsAreLogged
    <3>2. ViewIsComplete(u)
      BY DEF Complete
    <3> QED BY <1>1, <3>1, <3>2 DEF ViewIsComplete, ShownUpTo
  <2> QED BY <2>1, <2>2
<1> QED BY <1>2, <1>4 DEF Complete

\* A step of a viewer that shows nothing new, or everything anew.
LEMMA ConnectionKeepsComplete ==
  ASSUME Complete, NEW v \in Viewer, Check(v) \/ Fetch(v) \/ Open(v) \/ Follow(v) \/ Drop(v)
  PROVE  Complete'
<1>0. /\ Len(log) \in Nat /\ UNCHANGED <<log, floor, last>>
      /\ floor \in 0..Len(log) /\ last[v] \in 0..Len(log)
  BY DEF Complete, LogTyped, PositionsAreLogged, Check, Fetch, Open, Follow, Drop, store
<1>1. PositionsAreLogged' /\ LogTyped'
  <2>1. CASE Open(v)
    <3>1. Len(log) \in 0..Len(log)
      BY <1>0
    <3>2. (IF last[v] = 0 THEN floor ELSE Larger(last[v] - 1, floor)) \in 0..Len(log)
      BY <1>0 DEF Larger
    <3>3. at' \in [Viewer -> 0..Len(log)] /\ goal' \in [Viewer -> 0..Len(log)]
      BY <2>1, <3>1, <3>2 DEF Open, Complete, PositionsAreLogged
    <3> QED BY <1>0, <2>1, <3>3
            DEF Open, Go, Complete, PositionsAreLogged, Connection, LogTyped
  <2>2. CASE Follow(v)
    BY <1>0, <2>2 DEF Follow, FollowFrom, Go, Complete, PositionsAreLogged, Connection, LogTyped
  <2> QED BY <1>0, <2>1, <2>2
          DEF Check, Fetch, Drop, Go, Complete, PositionsAreLogged, Connection, LogTyped
<1>2. ASSUME NEW u \in Viewer, u # v PROVE ViewIsComplete(u)'
  <2>1. /\ at'[u] = at[u] /\ last'[u] = last[u] /\ conn'[u] = conn[u] /\ seen'[u] = seen[u]
    BY <1>2 DEF Check, Fetch, Open, Follow, FollowFrom, Drop, Go, Complete, PositionsAreLogged
  <2>2. ViewIsComplete(u)
    BY DEF Complete
  <2> QED BY <1>0, <2>1, <2>2 DEF ViewIsComplete, ShownUpTo
<1>3. ViewIsComplete(v)'
  <2>0. ViewIsComplete(v) /\ conn \in [Viewer -> Connection]
    BY DEF Complete, PositionsAreLogged
  <2>1. CASE Check(v)
    BY <1>0, <2>0, <2>1 DEF Check, Go, ViewIsComplete, ShownUpTo
  <2>2. CASE Fetch(v)
    <3>1. conn[v] = "open_page" => last[v] = 0
      BY <2>0 DEF ViewIsComplete
    <3>2. ShownUpTo(v, 0)'
      BY DEF ShownUpTo
    <3> QED BY <1>0, <2>0, <2>2, <3>1, <3>2 DEF Fetch, Go, ViewIsComplete, ShownUpTo
  <2>3. CASE Open(v)
    <3>1. /\ at'[v] = IF last[v] = 0 THEN floor ELSE Larger(last[v] - 1, floor)
          /\ conn'[v] = "backlog" /\ seen' = seen
      BY <2>0, <2>3 DEF Open, Go, Complete, PositionsAreLogged
    <3>2. ShownUpTo(v, last[v])
      BY <2>0, <2>3 DEF Open, ViewIsComplete
    <3>3. \A q \in 1..at'[v] : q \in 1..last[v] \/ q <= floor
      BY <1>0, <3>1 DEF Larger
    <3>4. ShownUpTo(v, at[v])'
      BY <1>0, <3>1, <3>2, <3>3 DEF ShownUpTo
    <3>5. ShownUpTo(v, last[v])'
      BY <1>0, <3>1, <3>2 DEF ShownUpTo
    <3> QED BY <1>0, <3>1, <3>4, <3>5 DEF ViewIsComplete
  <2>4. CASE Follow(v)
    BY <1>0, <2>0, <2>4
    DEF Follow, FollowFrom, Go, ViewIsComplete, ShownUpTo, Complete, PositionsAreLogged
  <2>5. CASE Drop(v)
    BY <1>0, <2>0, <2>5 DEF Drop, Go, ViewIsComplete, ShownUpTo
  <2> QED BY <2>1, <2>2, <2>3, <2>4, <2>5
<1> QED BY <1>1, <1>2, <1>3 DEF Complete

LEMMA CompleteStep ==
  ASSUME Numbered, Complete, [StreamNext]_streamVars
  PROVE  Complete'
<1>0. /\ Len(log) \in Nat /\ floor \in 0..Len(log) /\ log \in Seq(Delivery)
      /\ floor # 0 => floor < Len(log)
  BY DEF Complete, LogTyped, PositionsAreLogged
<1>1. CASE UNCHANGED <<log, floor, view>>
  BY <1>0, <1>1, GrowthKeepsComplete
<1>2. ASSUME NEW e \in Emitter, AddToStream(e) PROVE Complete'
  <2>1. current[e] \in Delivery
    BY DEF Numbered, StreamTyped
  <2>2. /\ log' \in Seq(Delivery) /\ Len(log') = Len(log) + 1
        /\ \A p \in 1..Len(log) : log'[p] = log[p]
    BY <1>0, <1>2, <2>1 DEF AddToStream
  <2>3. floor' \in floor..Len(log') /\ (floor' # 0 => floor' < Len(log'))
    BY <1>0, <1>2, <2>2, StreamAssumption DEF AddToStream, StreamAssumption
  <2>4. UNCHANGED view
    BY <1>2 DEF AddToStream
  <2> QED BY <1>0, <2>2, <2>3, <2>4, GrowthKeepsComplete
<1>3. ASSUME NEW v \in Viewer, Replay(v) PROVE Complete'
  <2>1. /\ at[v] \in 0..Len(log) /\ goal[v] \in 0..Len(log) /\ at[v] < goal[v]
        /\ conn[v] = "backlog" /\ Deliver(v, at[v] + 1)
    BY <1>3 DEF Replay, Complete, PositionsAreLogged
  <2>2. at[v] + 1 \in 1..Len(log) /\ \A q \in 1..(at[v] + 1) - 1 : q <= at[v]
    BY <1>0, <2>1
  <2> QED BY <2>1, <2>2, DeliveryKeepsComplete
<1>4. ASSUME NEW v \in Viewer, Tailed(v) PROVE Complete'
  <2> DEFINE p == Larger(at[v], floor) + 1
  <2>1. at[v] \in 0..Len(log) /\ at[v] < Len(log) /\ conn[v] = "tail" /\ Deliver(v, p)
    BY <1>4 DEF Tailed, Complete, PositionsAreLogged
  <2>2. p \in 1..Len(log)
    BY <1>0, <2>1 DEF Larger
  <2>3. \A q \in 1..p-1 : q <= at[v] \/ q <= floor
    BY <1>0, <2>1 DEF Larger
  <2> HIDE DEF p
  <2> QED BY <2>1, <2>2, <2>3, DeliveryKeepsComplete
<1>5. ASSUME NEW v \in Viewer, Check(v) \/ Fetch(v) \/ Open(v) \/ Follow(v) \/ Drop(v)
      PROVE  Complete'
  BY <1>5, ConnectionKeepsComplete
<1>6. CASE BeginRun \/ CommitStatus \/ CrashRun \/ \E outcome \in {"active", "terminal"} : Leave(outcome)
  BY <1>1, <1>6 DEF BeginRun, CommitStatus, CrashRun, Leave, store
<1>7. ASSUME NEW e \in Emitter,
             \/ Emit(e) \/ WriteRow(e) \/ \E ending \in BOOLEAN : Finish(e, ending)
             \/ \E s \in Sink : SinkFails(e, s)
      PROVE  Complete'
  BY <1>1, <1>7 DEF Emit, WriteRow, Finish, SinkFails, store
<1>8. CASE UNCHANGED streamVars
  BY <1>1, <1>8 DEF streamVars, store
<1> QED BY <1>2, <1>3, <1>4, <1>5, <1>6, <1>7, <1>8 DEF StreamNext, ViewerStep

\* A viewer misses nothing up to its last id that was not trimmed away, over
\* any drops, replays and trims (api/routes/executions.py:418).
THEOREM NothingIsEverSkipped == StreamSpec => []NothingIsSkipped
<1>1. Numbered /\ [StreamNext]_streamVars => Numbered'
  BY NumberedStep
<1>2. Numbered /\ Complete /\ [StreamNext]_streamVars => Complete'
  BY CompleteStep
<1>3. Complete => NothingIsSkipped
  BY DEF Complete, ViewIsComplete, ShownUpTo, NothingIsSkipped
<1> QED BY NumberedInit, CompleteInit, <1>1, <1>2, <1>3, PTL DEF StreamSpec
-----------------------------------------------------------------------------
(* Locks and slots. *)

USE CoordinationAssumption DEF CoordinationAssumption

\* A type-correct state stays type-correct under every step.
THEOREM TypeCorrect == CoordinationSpec => []TypeOK
<1>1. CoordinationInit => TypeOK
  <2> SUFFICES ASSUME CoordinationInit PROVE TypeOK
    OBVIOUS
  <2>1. lapsed \in BOOLEAN
    BY DEF CoordinationInit
  <2>2. 0 \in 0..LockTtl /\ 0 \in 0..Limit /\ 0 \in 0..SlotTtl
    OBVIOUS
  <2> QED BY <2>1, <2>2 DEF CoordinationInit, TypeOK
<1>2. TypeOK /\ [CoordinationNext]_coordinationVars => TypeOK'
  <2> SUFFICES ASSUME TypeOK, [CoordinationNext]_coordinationVars PROVE TypeOK'
    OBVIOUS
  <2> USE DEF TypeOK, lockVars, slotVars
  <2>1. CASE Tick
    <3>1. \A n \in Nat : \A m \in 0..n : Less(m) \in 0..n
      BY DEF Less
    <3>2. left' \in 0..LockTtl /\ life' \in 0..SlotTtl
      BY <2>1, <3>1 DEF Tick
    <3>3. lease' \in [Worker -> 0..LockTtl]
      BY <2>1, <3>1 DEF Tick
    <3>4. lapsed' \in BOOLEAN
      BY <2>1 DEF Tick
    <3>5. owner' \in Worker \cup {NoOwner} /\ count' \in 0..Limit
      BY <2>1 DEF Tick
    <3> QED BY <2>1, <3>2, <3>3, <3>4, <3>5 DEF Tick
  <2>2. ASSUME NEW w \in Worker, WorkerDies(w) PROVE TypeOK'
    BY <2>2 DEF WorkerDies
  <2>3. ASSUME NEW w \in Worker, NEW ok \in BOOLEAN, AcquireLock(w, ok) PROVE TypeOK'
    BY <2>3 DEF AcquireLock
  <2>4. ASSUME NEW w \in Worker, NEW ok \in BOOLEAN, ExtendLock(w, ok) PROVE TypeOK'
    BY <2>4 DEF ExtendLock
  <2>5. ASSUME NEW w \in Worker, NEW ok \in BOOLEAN, ReleaseLock(w, ok) PROVE TypeOK'
    BY <2>5 DEF ReleaseLock
  <2>6. ASSUME NEW t \in Task, TaskDies(t) PROVE TypeOK'
    <3>1. lapsed' \in BOOLEAN
      BY <2>6 DEF TaskDies, Period
    <3> QED BY <2>6, <3>1 DEF TaskDies, Period
  <2>7. ASSUME NEW t \in Task, NEW ok \in BOOLEAN, AcquireSlot(t, ok) PROVE TypeOK'
    <3>1. lapsed' \in BOOLEAN
      BY <2>7 DEF AcquireSlot, Period
    <3>2. count' \in 0..Limit /\ life' \in 0..SlotTtl
      BY <2>7 DEF AcquireSlot, Granted, Refusal
    <3> QED BY <2>7, <3>1, <3>2 DEF AcquireSlot, Period
  <2>8. ASSUME NEW t \in Task, NEW ok \in BOOLEAN, ReleaseSlot(t, ok) PROVE TypeOK'
    <3>1. lapsed' \in BOOLEAN
      BY <2>8 DEF ReleaseSlot, Period
    <3>2. count' \in 0..Limit
      BY <2>8 DEF ReleaseSlot, Returned
    <3> QED BY <2>8, <3>1, <3>2 DEF ReleaseSlot, Period
  <2>9. CASE UNCHANGED coordinationVars
    BY <2>9 DEF coordinationVars
  <2> QED BY <2>1, <2>2, <2>3, <2>4, <2>5, <2>6, <2>7, <2>8, <2>9 DEF CoordinationNext
<1> QED BY <1>1, <1>2, PTL DEF CoordinationSpec

-----------------------------------------------------------------------------
(* The lock.  A lease is inductive together with the type alone: what ends *)
(* it early is its owner's own release, and the key outlives it.           *)

\* As long as a worker's lease runs the lock stays its own.
THEOREM LocksExclude == CoordinationSpec => []LeaseIsExclusive
<1>1. CoordinationInit => LeaseIsExclusive
  BY DEF CoordinationInit, LeaseIsExclusive
<1>2. TypeOK /\ LeaseIsExclusive /\ [CoordinationNext]_coordinationVars => LeaseIsExclusive'
  <2> SUFFICES ASSUME TypeOK, LeaseIsExclusive, [CoordinationNext]_coordinationVars,
                      NEW v \in Worker, lease'[v] > 0
               PROVE  owner' = v /\ lease'[v] <= left'
    BY DEF LeaseIsExclusive
  <2> USE DEF TypeOK, LeaseIsExclusive, lockVars
  <2>1. CASE Tick
    <3>1. lease'[v] = Less(lease[v]) /\ left' = Less(left)
      BY <2>1 DEF Tick
    <3>2. lease[v] > 0 /\ lease'[v] = lease[v] - 1
      BY <3>1 DEF Less
    <3>3. owner = v /\ lease[v] <= left /\ left' = left - 1 /\ left' # 0
      BY <3>1, <3>2 DEF Less
    <3> QED BY <2>1, <3>2, <3>3 DEF Tick
  <2>2. ASSUME NEW w \in Worker, WorkerDies(w) PROVE owner' = v /\ lease'[v] <= left'
    BY <2>2 DEF WorkerDies
  <2>3. ASSUME NEW w \in Worker, NEW ok \in BOOLEAN, AcquireLock(w, ok)
        PROVE  owner' = v /\ lease'[v] <= left'
    <3>1. \A u \in Worker : lease[u] = 0
      BY <2>3 DEF AcquireLock
    <3> QED BY <2>3, <3>1 DEF AcquireLock
  <2>4. ASSUME NEW w \in Worker, NEW ok \in BOOLEAN, ExtendLock(w, ok)
        PROVE  owner' = v /\ lease'[v] <= left'
    <3>1. v # w => lease'[v] = lease[v]
      BY <2>4 DEF ExtendLock
    <3>2. v = w
      BY <2>4, <3>1 DEF ExtendLock, Holds
    <3> QED BY <2>4, <3>2 DEF ExtendLock, Holds
  <2>5. ASSUME NEW w \in Worker, NEW ok \in BOOLEAN, ReleaseLock(w, ok)
        PROVE  owner' = v /\ lease'[v] <= left'
    <3>1. v # w /\ lease'[v] = lease[v]
      BY <2>5 DEF ReleaseLock
    <3>2. owner = v /\ ~Holds(w)
      BY <3>1 DEF Holds
    <3> QED BY <2>5, <3>1, <3>2 DEF ReleaseLock
  <2>6. CASE UNCHANGED lockVars
    BY <2>6
  <2> QED BY <2>1, <2>2, <2>3, <2>4, <2>5, <2>6
          DEF CoordinationNext, TaskDies, AcquireSlot, ReleaseSlot, coordinationVars
<1> QED BY <1>1, <1>2, TypeCorrect, PTL DEF CoordinationSpec

-----------------------------------------------------------------------------
(* The slots.  Until the counter lapses it counts every task that works,   *)
(* and perhaps some that died; that is what the limit then bounds.         *)

Counted == ~lapsed => Cardinality(working) <= count

\* Taking one task out lowers the number of tasks by one, adding one raises it
\* by one.
LEMMA OneTask ==
  ASSUME NEW tasks \in SUBSET Task, NEW t \in Task
  PROVE  /\ IsFiniteSet(tasks) /\ Cardinality(tasks) \in Nat
         /\ t \in tasks => Cardinality(tasks \ {t}) = Cardinality(tasks) - 1
         /\ t \notin tasks => Cardinality(tasks \cup {t}) = Cardinality(tasks) + 1
<1>1. IsFiniteSet(tasks)
  BY FS_Subset
<1> QED BY <1>1, FS_CardinalityType, FS_RemoveElement, FS_AddElement

\* Every step keeps the count above the number of tasks until it lapses.
LEMMA CountedStep == TypeOK /\ Counted /\ [CoordinationNext]_coordinationVars => Counted'
<1> SUFFICES ASSUME TypeOK, Counted, [CoordinationNext]_coordinationVars, ~lapsed'
             PROVE  Cardinality(working') <= count'
  BY DEF Counted
<1> USE DEF TypeOK, slotVars
<1>0. Cardinality({}) = 0 /\ IsFiniteSet(working) /\ Cardinality(working) \in Nat
  BY FS_EmptySet, FS_Subset, FS_CardinalityType
<1>1. CASE Tick
  <2>1. working' = working /\ ~lapsed /\ (count' = count \/ working = {})
    BY <1>1 DEF Tick
  <2>2. count' \in Nat
    BY <1>1 DEF Tick
  <2> QED BY <2>1, <2>2, <1>0 DEF Counted
<1>2. ASSUME NEW t \in Task, TaskDies(t) PROVE Cardinality(working') <= count'
  <2>1. working' = working \ {t} /\ count' = count /\ (~lapsed \/ working' = {})
    BY <1>2 DEF TaskDies, Period
  <2>2. Cardinality(working \ {t}) = Cardinality(working) - 1
    BY <1>2, OneTask DEF TaskDies
  <2>3. ~lapsed => Cardinality(working) <= count
    BY DEF Counted
  <2>4. CASE working' = {}
    BY <1>0, <2>1, <2>4
  <2>5. CASE ~lapsed
    BY <1>0, <2>1, <2>2, <2>3, <2>5
  <2> QED BY <2>1, <2>4, <2>5
<1>3. ASSUME NEW t \in Task, NEW ok \in BOOLEAN, AcquireSlot(t, ok)
      PROVE  Cardinality(working') <= count'
  <2>1. CASE Granted
    <3>1. count' = count + 1 /\ working' \in {working, working \cup {t}}
      BY <1>3, <2>1 DEF AcquireSlot, Period
    <3>2. ~lapsed \/ working' = {}
      BY <1>3, <2>1 DEF AcquireSlot, Period
    <3>3. Cardinality(working \cup {t}) = Cardinality(working) + 1
      BY <1>3, OneTask DEF AcquireSlot
    <3>4. CASE working' = {}
      BY <1>0, <3>1, <3>4
    <3>5. CASE ~lapsed
      <4>1. Cardinality(working) <= count
        BY <3>5 DEF Counted
      <4>2. CASE working' = working
        BY <1>0, <3>1, <4>1, <4>2
      <4>3. CASE working' = working \cup {t}
        BY <1>0, <3>1, <3>3, <4>1, <4>3
      <4> QED BY <3>1, <4>2, <4>3
    <3> QED BY <3>2, <3>4, <3>5
  <2>2. CASE ~Granted
    BY <1>3, <2>2 DEF AcquireSlot, Counted
  <2> QED BY <2>1, <2>2
<1>4. ASSUME NEW t \in Task, NEW ok \in BOOLEAN, ReleaseSlot(t, ok)
      PROVE  Cardinality(working') <= count'
  <2>1. /\ working' = working \ {t} /\ (~lapsed \/ working' = {})
        /\ count' \in {count, Returned}
    BY <1>4 DEF ReleaseSlot, Period
  <2>2. Cardinality(working \ {t}) = Cardinality(working) - 1
    BY <1>4, OneTask DEF ReleaseSlot
  <2>3. count' \in Nat /\ count' >= count - 1
    BY <2>1 DEF Returned
  <2> QED BY <1>0, <2>1, <2>2, <2>3 DEF Counted
<1>5. CASE UNCHANGED slotVars
  BY <1>5 DEF Counted
<1> QED BY <1>1, <1>2, <1>3, <1>4, <1>5
        DEF CoordinationNext, WorkerDies, AcquireLock, ExtendLock, ReleaseLock, lockVars, coordinationVars

\* Only a counter that ran out under its holders lets too many tasks work.
THEOREM AdmissionIsBounded == CoordinationSpec => []OnlyALapseOverAdmits
<1>1. CoordinationInit => Counted
  BY FS_EmptySet DEF CoordinationInit, Counted
<1>2. TypeOK /\ Counted => OnlyALapseOverAdmits
  BY FS_Subset, FS_CardinalityType DEF TypeOK, Counted, OnlyALapseOverAdmits
<1> QED BY <1>1, <1>2, CountedStep, TypeCorrect, PTL DEF CoordinationSpec
=============================================================================
