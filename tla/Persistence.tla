----------------------------- MODULE Persistence -----------------------------
(***************************************************************************)
(* How the state of one execution is stored: the checkpoint manager        *)
(* (checkpoint/manager.py) over the repositories (persistence/             *)
(* repositories.py) in PostgreSQL at READ COMMITTED.  Writers are runs of  *)
(* the execution; a resume that raced another (see ExecutionRunner) makes  *)
(* two of them write at once, in one process or in two.  One action is one *)
(* statement or one commit.  A content stands for everything a checkpoint  *)
(* is hashed over: state, graph, status, reason and node.                  *)
(***************************************************************************)
EXTENDS Naturals, Sequences, FiniteSets

CONSTANTS Process, Writer, ProcessOf,
          Creator,        \* the writer that made the execution
          Content,
          Terminal,       \* the contents whose status is terminal
          None,
          MaxVersion      \* bound on the saves of a behaviour

ASSUME PersistenceAssumption ==
  /\ ProcessOf \in [Writer -> Process] /\ Creator \in Writer
  /\ None \notin Content /\ Terminal \subseteq Content /\ MaxVersion \in Nat
  /\ None \notin [version : Nat, content : Content]
  /\ None \notin [version : Nat, base : Content \cup {None}]

VARIABLES log,       \* committed checkpoints by sequence, from 0 at index 1
          row,       \* the state row: version and content, None without it
          header,    \* the content whose status the execution's header shows
          cache,     \* _last_hash of the manager of each process
          write,     \* the checkpoint a writer is storing
          copy,      \* the version a writer's state carries, and as history the
                     \* content the row had at that version, None for no such row
          disturbed  \* history: what a cached hash stands for may be out of date

stored == <<log, row, header>>
vars == <<stored, cache, write, copy, disturbed>>

Idle == [at |-> "idle", content |-> None, sequence |-> 0, new |-> FALSE]

Init ==
  /\ log = <<>> /\ row = None /\ header = None
  /\ cache = [p \in Process |-> None]
  /\ write = [w \in Writer |-> Idle]
  /\ copy = [w \in Writer |-> IF w = Creator THEN [version |-> 0, base |-> None] ELSE None]
  /\ disturbed = FALSE

Recorded == {log[i].content : i \in 1..Len(log)}
Live(w) == copy[w] # None /\ write[w].at = "idle"
At(w, place) == write[w].at = place
Go(w, place) == write' = [write EXCEPT ![w].at = place]

\* A statement that touches the state row waits for the transaction that did.
RowIsFree == \A w \in Writer : write[w].at # "saved"

\* The version the upsert returns, and the one a versioned update sets.
NextVersion(w) == IF row = None THEN copy[w].version + 1 ELSE row.version + 1

\* History: the last hash some other process keeps is not of the last write.
Foreign(w) == \E p \in Process \ {ProcessOf[w]} : cache[p] # None

\* History: a second run of the execution starts beside one.
Raced(w) == \E v \in Writer \ {w} : copy[v] # None

-----------------------------------------------------------------------------
(* write: a checkpoint and the row it reflects, in one transaction. *)

Skip(w, c) ==
  /\ Live(w) /\ cache[ProcessOf[w]] = c
  /\ UNCHANGED vars

Begin(w, c) ==
  /\ Live(w) /\ cache[ProcessOf[w]] # c
  /\ write' = [write EXCEPT ![w] = [Idle EXCEPT !.at = "begun", !.content = c]]
  /\ UNCHANGED <<stored, cache, copy, disturbed>>

\* next_sequence, read before the look for the hash.
Number(w) ==
  /\ At(w, "begun")
  /\ write' = [write EXCEPT ![w].at = "numbered", ![w].sequence = Len(log)]
  /\ UNCHANGED <<stored, cache, copy, disturbed>>

\* Mutant of FindByHash: the history is not consulted.
FindNothing(w) == FALSE

FindByHash(w) == write[w].content \in Recorded

LookUp(w) ==
  /\ At(w, "numbered")
  /\ write' = [write EXCEPT ![w].at = IF FindByHash(w) THEN "appended" ELSE "absent"]
  /\ UNCHANGED <<stored, cache, copy, disturbed>>

\* A second insert of one sequence waits for the first's transaction.
InsertIsFree(w) ==
  \A v \in Writer \ {w} : write[v].new => write[v].sequence # write[w].sequence

\* UNIQUE(execution_id, sequence).
Taken(w) == write[w].sequence < Len(log)

InsertCheckpoint(w) ==
  /\ At(w, "absent") /\ InsertIsFree(w) /\ ~Taken(w)
  /\ write' = [write EXCEPT ![w].at = "appended", ![w].new = TRUE]
  /\ UNCHANGED <<stored, cache, copy, disturbed>>

\* append rolls back to adopt the other's row; the block of the transaction it
\* has ended lets no further statement through, and the write fails.
LoseSequence(w) ==
  /\ At(w, "absent") /\ InsertIsFree(w) /\ Taken(w)
  /\ write' = [write EXCEPT ![w] = Idle]
  /\ UNCHANGED <<stored, cache, copy, disturbed>>

\* The upsert hands its version to the state in memory, committed or not.
SaveRow(w) ==
  /\ At(w, "appended") /\ RowIsFree /\ NextVersion(w) <= MaxVersion
  /\ Go(w, "saved")
  /\ UNCHANGED <<stored, cache, copy, disturbed>>

Store(w) ==
  LET c == write[w].content
  IN /\ log' = IF write[w].new
               THEN Append(log, [content |-> c, version |-> copy[w].version]) ELSE log
     /\ row' = [version |-> NextVersion(w), content |-> c]
     /\ header' = c

\* base is None for a version that no row has.
Advance(w, base) == copy' = [copy EXCEPT ![w] = [version |-> NextVersion(w), base |-> base]]

Commit(w) ==
  /\ At(w, "saved") /\ Store(w) /\ Advance(w, write[w].content)
  /\ write' = [write EXCEPT ![w].at = "committed", ![w].new = FALSE]
  /\ disturbed' = (disturbed \/ Foreign(w))
  /\ UNCHANGED cache

\* The commit's answer is lost: the caller gets an error for what was stored.
CommitUnheard(w) ==
  /\ At(w, "saved") /\ Store(w) /\ Advance(w, write[w].content)
  /\ write' = [write EXCEPT ![w] = Idle]
  /\ disturbed' = TRUE
  /\ UNCHANGED cache

\* A statement or the commit fails: rolled back, all but the version in memory.
Rollback(w) ==
  /\ write[w].at \in {"begun", "numbered", "absent", "appended", "saved"}
  /\ IF At(w, "saved") THEN Advance(w, None) ELSE UNCHANGED copy
  /\ write' = [write EXCEPT ![w] = Idle]
  /\ UNCHANGED <<stored, cache, disturbed>>

\* Mutant of Remembered: the hash is kept before the commit is known.
RememberedEarly(w) == At(w, "saved") \/ At(w, "committed")

Remembered(w) == At(w, "committed")

Remember(w) ==
  /\ Remembered(w)
  /\ cache' = [cache EXCEPT ![ProcessOf[w]] = write[w].content]
  /\ write' = IF At(w, "committed") THEN [write EXCEPT ![w] = Idle] ELSE write
  /\ UNCHANGED <<stored, copy, disturbed>>

-----------------------------------------------------------------------------
(* save_state: the row alone, against the version the state carries or not. *)

Matches(w) == row # None /\ row.version = copy[w].version

\* Refused, an update that matches no row changes nothing at all.
SaveState(w, c, checked, committed) ==
  /\ Live(w) /\ RowIsFree /\ NextVersion(w) <= MaxVersion
  /\ checked => Matches(w)
  /\ row' = IF committed THEN [version |-> NextVersion(w), content |-> c] ELSE row
  /\ Advance(w, IF committed THEN c ELSE None)
  /\ disturbed' = (disturbed \/ (committed /\ \E p \in Process : cache[p] # None))
  /\ UNCHANGED <<log, header, cache, write>>

-----------------------------------------------------------------------------
(* Resume, and the end of a writer. *)

\* The live row is preferred to the checkpoint; a terminal one is refused.
Resume(w) ==
  /\ copy[w] = None /\ row # None /\ row.content \notin Terminal
  /\ copy' = [copy EXCEPT ![w] = [version |-> row.version, base |-> row.content]]
  /\ disturbed' = (disturbed \/ Raced(w))
  /\ UNCHANGED <<stored, cache, write>>

\* resume_from_sequence, the operator's way back: the snapshot's own version.
Rewind(w, i) ==
  /\ copy[w] = None
  /\ copy' = [copy EXCEPT ![w] = [version |-> log[i].version, base |-> log[i].content]]
  /\ disturbed' = (disturbed \/ Raced(w))
  /\ UNCHANGED <<stored, cache, write>>

Leave(w) ==
  /\ Live(w) /\ row # None
  /\ copy' = [copy EXCEPT ![w] = None]
  /\ UNCHANGED <<stored, cache, write, disturbed>>

Crash(p) ==
  /\ \E w \in Writer : ProcessOf[w] = p /\ copy[w] # None
  /\ cache' = [cache EXCEPT ![p] = None]
  /\ copy' = [w \in Writer |-> IF ProcessOf[w] = p THEN None ELSE copy[w]]
  /\ write' = [w \in Writer |-> IF ProcessOf[w] = p THEN Idle ELSE write[w]]
  /\ UNCHANGED <<stored, disturbed>>

WriterStep(w) ==
  \/ Number(w) \/ LookUp(w) \/ InsertCheckpoint(w) \/ LoseSequence(w)
  \/ SaveRow(w) \/ Commit(w) \/ Remember(w)

Next ==
  \/ \E w \in Writer :
        \/ WriterStep(w) \/ CommitUnheard(w) \/ Rollback(w)
        \/ \E c \in Content : Begin(w, c) \/ Skip(w, c)
        \/ \E c \in Content, checked, committed \in BOOLEAN :
              SaveState(w, c, checked, committed)
        \/ Resume(w) \/ Leave(w)
        \/ \E i \in 1..Len(log) : Rewind(w, i)
  \/ \E p \in Process : Crash(p)

Spec == Init /\ [][Next]_vars

-----------------------------------------------------------------------------
TypeOK ==
  /\ log \in Seq([content : Content, version : Nat])
  /\ row \in {None} \cup [version : Nat, content : Content]
  /\ header \in Content \cup {None}
  /\ cache \in [Process -> Content \cup {None}]
  /\ write \in [Writer -> [at : {"idle", "begun", "numbered", "absent", "appended",
                                 "saved", "committed"},
                           content : Content \cup {None}, sequence : Nat, new : BOOLEAN]]
  /\ copy \in [Writer -> {None} \cup [version : Nat, base : Content \cup {None}]]
  /\ disturbed \in BOOLEAN

Store_ == INSTANCE CheckpointStore WITH
  history <- [i \in 1..Len(log) |-> log[i].content],
  current <- IF row = None THEN None ELSE row.content,
  shown <- header

\* However the statements of two writers interleave, fail or lose their
\* answers, what is committed is an append-only history without a snapshot
\* twice, and a checkpoint, the row and the header move in one step
\* (checkpoint/manager.py:142, persistence/repositories.py:540).
ImplementsStore == Store_!Spec

\* A state whose version is the row's carries what the row holds: the versioned
\* save overwrites nothing it has not read.  Only a version that a rolled back
\* save left in memory can meet another's row
\* (persistence/repositories.py:430, 460).
VersionsTellWritesApart ==
  \A w \in Writer :
    (/\ copy[w] # None /\ row # None
     /\ copy[w].version = row.version /\ copy[w].base # None) => copy[w].base = row.content

\* What is skipped is what the row holds, over failures and restarts, as long as
\* one run at a time writes, no other process wrote and no answer was lost
\* (checkpoint/manager.py:109).
SkippedIsStored ==
  \A w \in Writer :
    (~disturbed /\ Live(w) /\ cache[ProcessOf[w]] # None)
      => row # None /\ row.content = cache[ProcessOf[w]]
=============================================================================
