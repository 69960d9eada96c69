-------------------------- MODULE PersistenceProofs --------------------------
(***************************************************************************)
(* For every set of writers, processes and contents: what is committed is  *)
(* a history without repetition that moves with the row, versions tell     *)
(* writes apart, and a skip is right unless something disturbed it.        *)
(***************************************************************************)
EXTENDS Persistence, SequenceTheorems, TLAPS

USE PersistenceAssumption DEF PersistenceAssumption

Entry == [content : Content, version : Nat]
Row == [version : Nat, content : Content]
Copy == [version : Nat, base : Content \cup {None}]
WriteRecord ==
  [at : {"idle", "begun", "numbered", "absent", "appended", "saved", "committed"},
   content : Content \cup {None}, sequence : Nat, new : BOOLEAN]

\* A writer that stores has a state to store and knows its content.
WriteInv ==
  \A w \in Writer : write[w].at # "idle" => copy[w] # None /\ write[w].content \in Content

\* What was looked up is absent below the number that was read, so that an
\* insert at that number is of something new; at most one is under way.
InsertInv ==
  \A w \in Writer :
    /\ write[w].at \in {"numbered", "absent"} => write[w].sequence <= Len(log)
    /\ write[w].at = "absent" =>
         \A i \in 1..Len(log) : i <= write[w].sequence => log[i].content # write[w].content
    /\ write[w].at \in {"appended", "saved"} /\ ~write[w].new => write[w].content \in Recorded
    /\ write[w].new =>
         /\ write[w].at \in {"appended", "saved"} /\ write[w].sequence = Len(log)
         /\ write[w].content \notin Recorded
         /\ \A v \in Writer : write[v].new => v = w

\* No version in memory is more than one ahead, and one that a row has had is
\* that row's.
VersionInv ==
  /\ row = None => /\ log = <<>>
                   /\ \A w \in Writer : copy[w] # None => w = Creator /\ copy[w].base = None
  /\ row # None =>
       /\ \A w \in Writer : copy[w] # None =>
            /\ copy[w].version <= row.version + 1
            /\ copy[w].base # None =>
                 /\ copy[w].version <= row.version
                 /\ copy[w].version = row.version => copy[w].base = row.content
       /\ \A i \in 1..Len(log) :
            /\ log[i].version <= row.version
            /\ log[i].version = row.version => log[i].content = row.content

\* Undisturbed, one run is alive and a hash in a cache is the row's, or about
\* to be.
CacheInv ==
  ~disturbed =>
    /\ \A v, w \in Writer : copy[v] # None /\ copy[w] # None => v = w
    /\ \A w \in Writer : write[w].at = "committed" =>
          row # None /\ row.content = write[w].content
    /\ \A p \in Process : cache[p] # None =>
          /\ row # None
          /\ row.content = cache[p]
               \/ \E w \in Writer : ProcessOf[w] = p /\ write[w].at = "committed"

IInv == TypeOK /\ WriteInv /\ InsertInv /\ VersionInv /\ CacheInv
-----------------------------------------------------------------------------
\* The types of the records a step builds (persistence/tables.py).
LEMMA TypeFacts ==
  TypeOK <=> /\ log \in Seq(Entry) /\ row \in {None} \cup Row /\ header \in Content \cup {None}
             /\ cache \in [Process -> Content \cup {None}]
             /\ write \in [Writer -> WriteRecord]
             /\ copy \in [Writer -> {None} \cup Copy] /\ disturbed \in BOOLEAN
BY DEF TypeOK, Entry, Row, Copy, WriteRecord

\* An entry is appended at the end and leaves the others where they are.
LEMMA LogGrows ==
  ASSUME log \in Seq(Entry), NEW e \in Entry, log' = Append(log, e)
  PROVE /\ log' \in Seq(Entry) /\ Len(log') = Len(log) + 1 /\ Len(log) \in Nat
        /\ \A i \in 1..Len(log) : log'[i] = log[i] /\ log[i] \in Entry
        /\ log'[Len(log) + 1] = e
        /\ \A i \in 1..Len(log') : i \in 1..Len(log) \/ i = Len(log) + 1
  OBVIOUS

\* Without an insert the log is what it was.
LEMMA LogStays ==
  ASSUME log \in Seq(Entry)
  PROVE Len(log) \in Nat /\ \A i \in 1..Len(log) : log[i] \in Entry
  OBVIOUS

\* A new execution: nothing stored, and only its creator knows it.
LEMMA InitInv == Init => IInv
<1> SUFFICES ASSUME Init PROVE IInv OBVIOUS
<1>1. TypeOK
  <2>1. [version |-> 0, base |-> None] \in Copy /\ Idle \in WriteRecord
    BY DEF Copy, WriteRecord, Idle
  <2>2. copy \in [Writer -> {None} \cup Copy] /\ write \in [Writer -> WriteRecord]
    BY <2>1 DEF Init
  <2>3. log \in Seq(Entry)
    BY DEF Init
  <2>4. disturbed \in BOOLEAN
    BY DEF Init
  <2> QED BY <2>2, <2>3, <2>4, TypeFacts DEF Init
<1>2. WriteInv /\ InsertInv
  BY DEF Init, WriteInv, InsertInv, Idle, Recorded
<1>3. VersionInv /\ CacheInv
  BY DEF Init, VersionInv, CacheInv, Idle
<1> QED BY <1>1, <1>2, <1>3 DEF IInv
-----------------------------------------------------------------------------
(* The steps that touch only what a writer has under way. *)

\* A step that changes one writer's record, to one that keeps its part of the
\* invariant, and nothing else.
Private(w, r) ==
  /\ write' = [write EXCEPT ![w] = r]
  /\ UNCHANGED <<log, row, header, cache, copy, disturbed>>

LEMMA PrivateStep ==
  ASSUME IInv, NEW w \in Writer, NEW r \in WriteRecord, Private(w, r),
         r.at # "idle" => copy[w] # None /\ r.content \in Content,
         r.at \in {"numbered", "absent"} => r.sequence <= Len(log),
         r.at = "absent" =>
           \A i \in 1..Len(log) : i <= r.sequence => log[i].content # r.content,
         r.at \in {"appended", "saved"} /\ ~r.new => r.content \in Recorded,
         r.new => /\ r.at \in {"appended", "saved"} /\ r.sequence = Len(log)
                  /\ r.content \notin Recorded
                  /\ \A v \in Writer : write[v].new => v = w,
         r.at # "committed", write[w].at # "committed"
  PROVE IInv'
<1>1. /\ write \in [Writer -> WriteRecord] /\ write'[w] = r
      /\ \A v \in Writer : v # w => write'[v] = write[v]
  BY TypeFacts DEF Private, IInv
<1>2. TypeOK'
  <2>1. write' \in [Writer -> WriteRecord]
    BY <1>1 DEF Private
  <2> QED BY <2>1 DEF Private, IInv, TypeOK, WriteRecord
<1>3. WriteInv'
  BY <1>1 DEF Private, IInv, WriteInv
<1>4. InsertInv'
  <2> SUFFICES ASSUME NEW v \in Writer PROVE
        (/\ write[v].at \in {"numbered", "absent"} => write[v].sequence <= Len(log)
         /\ write[v].at = "absent" =>
              \A i \in 1..Len(log) : i <= write[v].sequence => log[i].content # write[v].content
         /\ write[v].at \in {"appended", "saved"} /\ ~write[v].new => write[v].content \in Recorded
         /\ write[v].new =>
              /\ write[v].at \in {"appended", "saved"} /\ write[v].sequence = Len(log)
              /\ write[v].content \notin Recorded
              /\ \A u \in Writer : write[u].new => u = v)'
    BY DEF InsertInv
  <2>1. Recorded' = Recorded /\ log' = log
    BY DEF Recorded, Private
  <2>2. CASE v = w
    BY <1>1, <2>1, <2>2
  <2>3. CASE v # w
    BY <1>1, <2>1, <2>3 DEF IInv, InsertInv
  <2> QED BY <2>2, <2>3
<1>5. VersionInv'
  BY DEF Private, IInv, VersionInv
<1>6. CacheInv'
  <2>1. \A v \in Writer : write'[v].at = "committed" <=> write[v].at = "committed"
    BY <1>1
  <2>2. \A v \in Writer : write'[v].at = "committed" => write'[v].content = write[v].content
    BY <1>1
  <2> QED BY <2>1, <2>2 DEF Private, IInv, CacheInv
<1> QED BY <1>2, <1>3, <1>4, <1>5, <1>6 DEF IInv

\* A write begins, looks and inserts; a sequence number lost is a write lost.
LEMMA BeginStep ==
  ASSUME IInv, NEW w \in Writer, NEW c \in Content, Begin(w, c) PROVE IInv'
<1> DEFINE r == [Idle EXCEPT !.at = "begun", !.content = c]
<1>1. /\ r \in WriteRecord /\ r.at = "begun" /\ r.content = c /\ r.new = FALSE
  BY DEF Idle, WriteRecord
<1>2. Private(w, r) /\ copy[w] # None /\ write[w].at = "idle"
  BY DEF Begin, Private, Live, stored
<1> HIDE DEF r
<1> QED BY <1>1, <1>2, PrivateStep

LEMMA NumberStep ==
  ASSUME IInv, NEW w \in Writer, Number(w) PROVE IInv'
<1> DEFINE r == [write[w] EXCEPT !.at = "numbered", !.sequence = Len(log)]
<1>0. write \in [Writer -> WriteRecord] /\ Len(log) \in Nat /\ write[w] \in WriteRecord
  BY TypeFacts, LogStays DEF IInv
<1>1. /\ r \in WriteRecord /\ r.at = "numbered" /\ r.sequence = Len(log)
      /\ r.content = write[w].content /\ r.new = write[w].new
  BY <1>0 DEF WriteRecord
<1>2. Private(w, r) /\ write[w].at = "begun"
  BY <1>0 DEF Number, At, Private, stored
<1>3. copy[w] # None /\ r.content \in Content /\ r.new = FALSE
  <2>1. ~write[w].new
    BY <1>2 DEF IInv, InsertInv
  <2> QED BY <1>0, <1>1, <1>2, <2>1 DEF IInv, WriteInv, WriteRecord
<1> HIDE DEF r
<1> QED BY <1>0, <1>1, <1>2, <1>3, PrivateStep

LEMMA LookUpStep ==
  ASSUME IInv, NEW w \in Writer, LookUp(w) PROVE IInv'
<1> DEFINE r == [write[w] EXCEPT !.at = IF FindByHash(w) THEN "appended" ELSE "absent"]
<1>0. write \in [Writer -> WriteRecord] /\ write[w] \in WriteRecord
  BY TypeFacts DEF IInv
<1>1. /\ r \in WriteRecord /\ r.at = (IF FindByHash(w) THEN "appended" ELSE "absent")
      /\ r.sequence = write[w].sequence /\ r.content = write[w].content /\ r.new = write[w].new
  BY <1>0 DEF WriteRecord
<1>2. Private(w, r) /\ write[w].at = "numbered"
  BY <1>0 DEF LookUp, At, Private, stored
<1>3. copy[w] # None /\ r.content \in Content /\ ~r.new /\ r.sequence <= Len(log)
  <2>1. ~write[w].new
    BY <1>2 DEF IInv, InsertInv
  <2> QED BY <1>0, <1>1, <1>2, <2>1 DEF IInv, WriteInv, InsertInv
<1>4. r.at = "absent" => \A i \in 1..Len(log) : log[i].content # r.content
  BY <1>1 DEF FindByHash, Recorded
<1>5. r.at = "appended" => r.content \in Recorded
  BY <1>1 DEF FindByHash
<1>6. r.at \in {"appended", "absent"}
  BY <1>1
<1> HIDE DEF r
<1> QED BY <1>1, <1>2, <1>3, <1>4, <1>5, <1>6, PrivateStep

LEMMA InsertStep ==
  ASSUME IInv, NEW w \in Writer, InsertCheckpoint(w) PROVE IInv'
<1> DEFINE r == [write[w] EXCEPT !.at = "appended", !.new = TRUE]
<1>0. write \in [Writer -> WriteRecord] /\ write[w] \in WriteRecord /\ Len(log) \in Nat
  BY TypeFacts, LogStays DEF IInv
<1>1. /\ r \in WriteRecord /\ r.at = "appended" /\ r.new = TRUE
      /\ r.sequence = write[w].sequence /\ r.content = write[w].content
  BY <1>0 DEF WriteRecord
<1>2. Private(w, r) /\ write[w].at = "absent"
  BY <1>0 DEF InsertCheckpoint, At, Private, stored
<1>3. copy[w] # None /\ r.content \in Content
  BY <1>1, <1>2 DEF IInv, WriteInv
<1>4. r.sequence = Len(log)
  BY <1>0, <1>1, <1>2 DEF InsertCheckpoint, Taken, IInv, InsertInv, WriteRecord
<1>5. r.content \notin Recorded
  BY <1>0, <1>1, <1>2, <1>4 DEF Recorded, IInv, InsertInv
<1>6. \A v \in Writer : write[v].new => v = w
  BY <1>1, <1>4 DEF InsertCheckpoint, InsertIsFree, IInv, InsertInv
<1> HIDE DEF r
<1> QED BY <1>1, <1>2, <1>3, <1>4, <1>5, <1>6, PrivateStep

\* A writer whose write is over without a trace.
LEMMA IdleStep ==
  ASSUME IInv, NEW w \in Writer, write[w].at # "committed", Private(w, Idle) PROVE IInv'
<1>1. Idle \in WriteRecord /\ Idle.at = "idle" /\ Idle.new = FALSE
  BY DEF Idle, WriteRecord
<1> QED BY <1>1, PrivateStep

LEMMA LoseStep ==
  ASSUME IInv, NEW w \in Writer, LoseSequence(w) PROVE IInv'
<1>1. write[w].at # "committed" /\ Private(w, Idle)
  BY DEF LoseSequence, At, Private, stored
<1> QED BY <1>1, IdleStep

LEMMA SaveRowStep ==
  ASSUME IInv, NEW w \in Writer, SaveRow(w) PROVE IInv'
<1> DEFINE r == [write[w] EXCEPT !.at = "saved"]
<1>0. write \in [Writer -> WriteRecord] /\ write[w] \in WriteRecord
  BY TypeFacts DEF IInv
<1>1. /\ r \in WriteRecord /\ r.at = "saved" /\ r.new = write[w].new
      /\ r.sequence = write[w].sequence /\ r.content = write[w].content
  BY <1>0 DEF WriteRecord
<1>2. Private(w, r) /\ write[w].at = "appended"
  BY <1>0 DEF SaveRow, At, Go, Private, stored
<1>3. copy[w] # None /\ r.content \in Content
  BY <1>1, <1>2 DEF IInv, WriteInv
<1>4. ~r.new => r.content \in Recorded
  BY <1>1, <1>2 DEF IInv, InsertInv
<1>5. r.new => /\ r.sequence = Len(log) /\ r.content \notin Recorded
               /\ \A v \in Writer : write[v].new => v = w
  BY <1>1 DEF IInv, InsertInv
<1> HIDE DEF r
<1> QED BY <1>1, <1>2, <1>3, <1>4, <1>5, PrivateStep-----------------------------------------------------------------------------
(* The commit: the log, the row and the header move together. *)

\* What a commit does to what is stored, and to its writer's copy.
Stored(w) ==
  /\ At(w, "saved") /\ Store(w) /\ Advance(w, write[w].content)

LEMMA StoredFacts ==
  ASSUME IInv, NEW w \in Writer, Stored(w)
  PROVE /\ copy[w] \in Copy /\ write[w].content \in Content
        /\ NextVersion(w) \in Nat /\ row' = [version |-> NextVersion(w), content |-> write[w].content]
        /\ row' \in Row /\ row' # None /\ header' \in Content
        /\ log' \in Seq(Entry)
        /\ copy' \in [Writer -> {None} \cup Copy]
        /\ copy'[w] = [version |-> NextVersion(w), base |-> write[w].content]
        /\ copy'[w] # None
        /\ \A v \in Writer : v # w => copy'[v] = copy[v]
        /\ row # None => row \in Row /\ NextVersion(w) = row.version + 1
        /\ row = None => NextVersion(w) = copy[w].version + 1
<1>0. /\ write \in [Writer -> WriteRecord] /\ copy \in [Writer -> {None} \cup Copy]
      /\ row \in {None} \cup Row /\ log \in Seq(Entry)
  BY TypeFacts DEF IInv
<1>1. copy[w] \in Copy /\ write[w].content \in Content
  BY <1>0 DEF Stored, At, IInv, WriteInv
<1>2. /\ row # None => row \in Row /\ NextVersion(w) = row.version + 1
      /\ row = None => NextVersion(w) = copy[w].version + 1
  BY <1>0 DEF NextVersion
<1>3. NextVersion(w) \in Nat
  BY <1>0, <1>1, <1>2 DEF Copy, Row
<1>4. row' = [version |-> NextVersion(w), content |-> write[w].content] /\ header' \in Content
  BY <1>1 DEF Stored, Store
<1>5. row' \in Row
  BY <1>1, <1>3, <1>4 DEF Row
<1>6. row' # None
  BY <1>5 DEF Row
<1> DEFINE k == [version |-> NextVersion(w), base |-> write[w].content]
<1>7. k \in Copy
  BY <1>1, <1>3 DEF Copy
<1>8. k # None
  BY <1>7 DEF Copy
<1>9. copy' = [copy EXCEPT ![w] = k]
  BY DEF Stored, Advance
<1>10. [content |-> write[w].content, version |-> copy[w].version] \in Entry
  BY <1>1 DEF Entry, Copy
<1>11. log' \in Seq(Entry)
  <2>1. CASE write[w].new
    BY <1>0, <1>10, <2>1 DEF Stored, Store
  <2>2. CASE ~write[w].new
    BY <1>0, <2>2 DEF Stored, Store
  <2> QED BY <2>1, <2>2
<1> HIDE DEF k
<1>12. /\ copy' \in [Writer -> {None} \cup Copy] /\ copy'[w] = k
       /\ \A v \in Writer : v # w => copy'[v] = copy[v]
  BY <1>0, <1>7, <1>9
<1> QED BY <1>1, <1>2, <1>3, <1>4, <1>5, <1>6, <1>8, <1>11, <1>12 DEF k

\* Only the creator stores the first row.
LEMMA StoredVersions ==
  ASSUME IInv, NEW w \in Writer, Stored(w) PROVE VersionInv'
<1>0. /\ row' # None /\ row'.version = NextVersion(w) /\ row'.content = write[w].content
      /\ NextVersion(w) \in Nat /\ copy[w] \in Copy /\ copy'[w].version = NextVersion(w)
      /\ copy'[w].base = write[w].content /\ copy[w] # None
      /\ log \in Seq(Entry)
  <2>1. log \in Seq(Entry)
    BY TypeFacts DEF IInv
  <2>2. copy[w] # None
    BY DEF Stored, At, IInv, WriteInv
  <2>3. /\ row' # None /\ row' = [version |-> NextVersion(w), content |-> write[w].content]
        /\ NextVersion(w) \in Nat /\ copy[w] \in Copy
        /\ copy'[w] = [version |-> NextVersion(w), base |-> write[w].content]
    BY StoredFacts
  <2> QED BY <2>1, <2>2, <2>3
<1>1. copy[w].version <= NextVersion(w) /\ copy[w].version \in Nat
  <2>1. copy[w].version \in Nat
    BY <1>0 DEF Copy
  <2>2. CASE row = None
    <3>1. NextVersion(w) = copy[w].version + 1
      BY <2>2, StoredFacts
    <3> QED BY <2>1, <3>1
  <2>3. CASE row # None
    <3>1. row.version \in Nat /\ NextVersion(w) = row.version + 1
      BY <2>3, StoredFacts DEF Row
    <3>2. copy[w].version <= row.version + 1
      BY <1>0, <2>3 DEF IInv, VersionInv
    <3> QED BY <2>1, <3>1, <3>2
  <2> QED BY <2>1, <2>2, <2>3
<1>2. ASSUME NEW v \in Writer, copy'[v] # None PROVE
        /\ copy'[v].version <= row'.version + 1
        /\ copy'[v].base # None =>
             /\ copy'[v].version <= row'.version
             /\ copy'[v].version = row'.version => copy'[v].base = row'.content
  <2>1. CASE v = w
    BY <1>0, <2>1
  <2>2. CASE v # w
    <3>1. copy[v] # None /\ copy'[v] = copy[v] /\ row # None /\ copy[v] \in Copy
      <4>1. copy'[v] = copy[v] /\ copy[v] # None
        BY <1>2, <2>2, StoredFacts
      <4>2. row # None
        BY <1>0, <2>2, <4>1 DEF IInv, VersionInv
      <4>3. copy[v] \in Copy
        BY <4>1, TypeFacts DEF IInv
      <4> QED BY <4>1, <4>2, <4>3
    <3>2. row \in Row /\ row'.version = row.version + 1
      BY <1>0, <3>1, StoredFacts
    <3>3. copy[v].version <= row.version + 1 /\ (copy[v].base # None => copy[v].version <= row.version)
      BY <3>1 DEF IInv, VersionInv
    <3> QED BY <3>1, <3>2, <3>3 DEF Copy, Row
  <2> QED BY <2>1, <2>2
<1>3. ASSUME NEW i \in 1..Len(log') PROVE
        /\ log'[i].version <= row'.version
        /\ log'[i].version = row'.version => log'[i].content = row'.content
  <2> DEFINE e == [content |-> write[w].content, version |-> copy[w].version]
  <2>1. e \in Entry
    BY <1>1, StoredFacts DEF Entry
  <2>2. CASE i \in 1..Len(log) /\ log'[i] = log[i]
    <3>1. log[i] \in Entry /\ row # None
      BY <1>0, <2>2, LogStays DEF IInv, VersionInv
    <3>2. row \in Row /\ row'.version = row.version + 1 /\ log[i].version <= row.version
      BY <1>0, <2>2, <3>1, StoredFacts DEF IInv, VersionInv
    <3> QED BY <2>2, <3>1, <3>2 DEF Entry, Row
  <2>3. CASE log'[i] = e
    BY <1>0, <1>1, <2>3
  <2>4. CASE write[w].new
    <3>1. log' = Append(log, e)
      BY <2>4 DEF Stored, Store
    <3> HIDE DEF e
    <3> QED BY <1>0, <2>1, <2>2, <2>3, <3>1, LogGrows
  <2>5. CASE ~write[w].new
    BY <2>2, <2>5 DEF Stored, Store
  <2> QED BY <2>4, <2>5
<1> QED BY <1>0, <1>2, <1>3 DEF VersionInv

\* What others have under way keeps its place, and what they looked up and did
\* not find is still not below their number.
LEMMA StoredInserts ==
  ASSUME IInv, NEW w \in Writer, Stored(w), ~write'[w].new,
         write'[w].at \in {"idle", "committed"},
         \A v \in Writer : v # w => write'[v] = write[v]
  PROVE InsertInv'
<1>0. /\ log \in Seq(Entry) /\ Len(log) \in Nat /\ write \in [Writer -> WriteRecord]
      /\ write[w].at = "saved"
  BY TypeFacts, LogStays DEF IInv, Stored, At
<1> DEFINE e == [content |-> write[w].content, version |-> copy[w].version]
<1>1. e \in Entry
  BY StoredFacts DEF Entry, Copy
<1>2. Len(log') \in Nat /\ Len(log) <= Len(log') /\ \A i \in 1..Len(log) : log'[i] = log[i]
  <2>1. CASE write[w].new
    <3>1. log' = Append(log, e)
      BY <2>1 DEF Stored, Store
    <3> HIDE DEF e
    <3> QED BY <1>0, <1>1, <3>1, LogGrows
  <2>2. CASE ~write[w].new
    BY <1>0, <2>2 DEF Stored, Store
  <2> QED BY <2>1, <2>2
<1>3. Recorded \subseteq Recorded'
  BY <1>0, <1>2 DEF Recorded
<1> SUFFICES ASSUME NEW v \in Writer PROVE
      (/\ write[v].at \in {"numbered", "absent"} => write[v].sequence <= Len(log)
       /\ write[v].at = "absent" =>
            \A i \in 1..Len(log) : i <= write[v].sequence => log[i].content # write[v].content
       /\ write[v].at \in {"appended", "saved"} /\ ~write[v].new => write[v].content \in Recorded
       /\ write[v].new =>
            /\ write[v].at \in {"appended", "saved"} /\ write[v].sequence = Len(log)
            /\ write[v].content \notin Recorded
            /\ \A u \in Writer : write[u].new => u = v)'
  BY DEF InsertInv
<1>4. CASE v = w
  BY <1>4
<1>5. CASE v # w
  <2>1. write'[v] = write[v] /\ write[v] \in WriteRecord
    BY <1>0, <1>5
  <2>2. write[v].at \in {"numbered", "absent"} => write[v].sequence <= Len(log')
    BY <1>0, <1>2, <2>1 DEF IInv, InsertInv, WriteRecord
  <2>3. write[v].at = "absent" =>
          \A i \in 1..Len(log') : i <= write[v].sequence => log'[i].content # write[v].content
    BY <1>0, <1>2, <2>1 DEF IInv, InsertInv, WriteRecord
  <2>4. write[v].at \in {"appended", "saved"} /\ ~write[v].new => write[v].content \in Recorded'
    BY <1>3 DEF IInv, InsertInv
  <2>5. write[v].new => /\ ~write[w].new /\ log' = log /\ Recorded' = Recorded
    BY <1>5 DEF IInv, InsertInv, Stored, Store, Recorded
  <2>6. write[v].new => \A u \in Writer : write'[u].new => u = v
    BY DEF IInv, InsertInv
  <2> QED BY <2>1, <2>2, <2>3, <2>4, <2>5, <2>6 DEF IInv, InsertInv
<1> QED BY <1>4, <1>5

LEMMA CommitStep ==
  ASSUME IInv, NEW w \in Writer, Commit(w) PROVE IInv'
<1> DEFINE r == [write[w] EXCEPT !.at = "committed", !.new = FALSE]
<1>0. write \in [Writer -> WriteRecord] /\ write[w] \in WriteRecord /\ Stored(w)
  BY TypeFacts DEF IInv, Commit, Stored
<1>1. /\ r \in WriteRecord /\ r.at = "committed" /\ r.new = FALSE
      /\ r.content = write[w].content
  BY <1>0 DEF WriteRecord
<1>2. write' = [write EXCEPT ![w] = r]
  BY <1>0 DEF Commit
<1> HIDE DEF r
<1>3. /\ write' \in [Writer -> WriteRecord] /\ write'[w] = r
      /\ \A v \in Writer : v # w => write'[v] = write[v]
  BY <1>0, <1>1, <1>2
<1>4. disturbed' \in BOOLEAN
  BY TypeFacts DEF Commit, IInv
<1>5. TypeOK'
  BY <1>0, <1>3, <1>4, StoredFacts DEF TypeOK, IInv, Commit, Entry, Row, Copy, WriteRecord
<1>6. WriteInv'
  BY <1>0, <1>1, <1>3, StoredFacts DEF IInv, WriteInv
<1>7. InsertInv' /\ VersionInv'
  BY <1>0, <1>1, <1>3, StoredInserts, StoredVersions
<1>8. CacheInv'
  <2> SUFFICES ASSUME ~disturbed' PROVE
        (/\ \A u, v \in Writer : copy[u] # None /\ copy[v] # None => u = v
         /\ \A v \in Writer : write[v].at = "committed" =>
               row # None /\ row.content = write[v].content
         /\ \A p \in Process : cache[p] # None =>
               /\ row # None
               /\ row.content = cache[p]
                    \/ \E v \in Writer : ProcessOf[v] = p /\ write[v].at = "committed")'
    BY DEF CacheInv
  <2>1. ~disturbed /\ ~Foreign(w)
    BY DEF Commit
  <2>2. copy[w] # None /\ row' # None /\ row'.content = write[w].content
    <3>1. copy[w] # None
      BY <1>0 DEF IInv, WriteInv, Stored, At
    <3>2. row' # None /\ row' = [version |-> NextVersion(w), content |-> write[w].content]
      BY <1>0, StoredFacts
    <3> QED BY <3>1, <3>2
  <2>3. \A v \in Writer : copy'[v] # None => v = w
    BY <1>0, <2>1, <2>2, StoredFacts DEF IInv, CacheInv
  <2>4. \A v \in Writer : write'[v].at = "committed" => v = w
    BY <1>6, <2>3 DEF WriteInv
  <2>5. \A p \in Process : cache'[p] # None => p = ProcessOf[w]
    BY <2>1 DEF Foreign, Commit
  <2> QED BY <1>1, <1>3, <2>2, <2>3, <2>4, <2>5
<1> QED BY <1>5, <1>6, <1>7, <1>8 DEF IInv

LEMMA UnheardStep ==
  ASSUME IInv, NEW w \in Writer, CommitUnheard(w) PROVE IInv'
<1>0. write \in [Writer -> WriteRecord] /\ Stored(w)
  BY TypeFacts DEF IInv, CommitUnheard, Stored
<1>1. Idle \in WriteRecord /\ Idle.at = "idle" /\ Idle.new = FALSE
  BY DEF Idle, WriteRecord
<1>3. /\ write' \in [Writer -> WriteRecord] /\ write'[w] = Idle
      /\ \A v \in Writer : v # w => write'[v] = write[v]
  BY <1>0, <1>1 DEF CommitUnheard
<1>4. disturbed' /\ disturbed' \in BOOLEAN
  BY DEF CommitUnheard
<1>5. TypeOK'
  BY <1>0, <1>3, <1>4, StoredFacts DEF TypeOK, IInv, CommitUnheard, Entry, Row, Copy, WriteRecord
<1>6. WriteInv'
  BY <1>0, <1>1, <1>3, StoredFacts DEF IInv, WriteInv
<1>7. InsertInv' /\ VersionInv'
  BY <1>0, <1>1, <1>3, StoredInserts, StoredVersions
<1>8. CacheInv'
  BY <1>4 DEF CacheInv
<1> QED BY <1>5, <1>6, <1>7, <1>8 DEF IInv
-----------------------------------------------------------------------------
(* The other steps. *)

\* A rolled back save leaves a version in memory that no row has.
LEMMA PhantomStep ==
  ASSUME IInv, NEW w \in Writer, copy[w] # None, Advance(w, None)
  PROVE /\ copy' \in [Writer -> {None} \cup Copy] /\ copy'[w] # None /\ copy'[w].base = None
        /\ \A v \in Writer : v # w => copy'[v] = copy[v]
        /\ row # None => copy'[w].version = row.version + 1
<1>0. /\ copy \in [Writer -> {None} \cup Copy] /\ row \in {None} \cup Row /\ copy[w] \in Copy
  BY TypeFacts DEF IInv
<1> DEFINE k == [version |-> NextVersion(w), base |-> None]
<1>1. NextVersion(w) \in Nat /\ (row # None => NextVersion(w) = row.version + 1)
  <2>1. CASE row = None
    BY <1>0, <2>1 DEF NextVersion, Copy
  <2>2. CASE row # None
    BY <1>0, <2>2 DEF NextVersion, Row
  <2> QED BY <2>1, <2>2
<1>2. k \in Copy /\ k.version = NextVersion(w) /\ k.base = None
  BY <1>1 DEF Copy
<1>3. k # None
  BY <1>2 DEF Copy
<1>4. copy' = [copy EXCEPT ![w] = k]
  BY DEF Advance
<1> HIDE DEF k
<1> QED BY <1>0, <1>1, <1>2, <1>3, <1>4

\* Copies alone change: one goes, or one comes that speaks for its version.
LEMMA CopyStep ==
  ASSUME IInv, NEW w \in Writer, UNCHANGED <<log, row, header, cache>>,
         write' = write, write[w].at = "idle",
         copy' \in [Writer -> {None} \cup Copy], \A v \in Writer : v # w => copy'[v] = copy[v],
         disturbed' \in BOOLEAN, disturbed => disturbed',
         copy'[w] # None =>
           /\ ~disturbed' => \A v \in Writer \ {w} : copy[v] = None
           /\ row = None => w = Creator /\ copy'[w].base = None
           /\ row # None =>
                /\ copy'[w].version <= row.version + 1
                /\ copy'[w].base # None =>
                     /\ copy'[w].version <= row.version
                     /\ copy'[w].version = row.version => copy'[w].base = row.content
  PROVE IInv'
<1>1. TypeOK'
  BY DEF IInv, TypeOK, Copy
<1>2. WriteInv'
  BY DEF IInv, WriteInv
<1>3. InsertInv'
  <2>1. Recorded' = Recorded
    BY DEF Recorded
  <2> QED BY <2>1 DEF IInv, InsertInv
<1>4. VersionInv'
  <2>1. CASE row = None
    BY <2>1 DEF IInv, VersionInv
  <2>2. CASE row # None
    <3>1. ASSUME NEW v \in Writer, copy'[v] # None PROVE
            /\ copy'[v].version <= row.version + 1
            /\ copy'[v].base # None =>
                 /\ copy'[v].version <= row.version
                 /\ copy'[v].version = row.version => copy'[v].base = row.content
      BY <2>2, <3>1 DEF IInv, VersionInv
    <3> QED BY <2>2, <3>1 DEF IInv, VersionInv
  <2> QED BY <2>1, <2>2
<1>5. CacheInv'
  <2> SUFFICES ASSUME ~disturbed' PROVE CacheInv'
    BY DEF CacheInv
  <2>1. ~disturbed
    OBVIOUS
  <2>2. \A u, v \in Writer : copy'[u] # None /\ copy'[v] # None => u = v
    <3>1. CASE copy'[w] = None
      BY <2>1, <3>1 DEF IInv, CacheInv
    <3>2. CASE copy'[w] # None
      BY <3>2
    <3> QED BY <3>1, <3>2
  <2> QED BY <2>1, <2>2 DEF IInv, CacheInv
<1> QED BY <1>1, <1>2, <1>3, <1>4, <1>5 DEF IInv

LEMMA RollbackStep ==
  ASSUME IInv, NEW w \in Writer, Rollback(w) PROVE IInv'
<1>0. write[w].at # "idle" /\ write[w].at # "committed" /\ copy[w] # None
  BY DEF Rollback, IInv, WriteInv
<1>1. CASE ~At(w, "saved")
  <2>1. Private(w, Idle)
    BY <1>1 DEF Rollback, Private, stored
  <2> QED BY <1>0, <2>1, IdleStep
<1>2. CASE At(w, "saved")
  <2>1. /\ Advance(w, None) /\ write' = [write EXCEPT ![w] = Idle]
        /\ UNCHANGED <<log, row, header, cache, disturbed>>
    BY <1>2 DEF Rollback, stored
  <2>2. /\ copy' \in [Writer -> {None} \cup Copy] /\ copy'[w] # None /\ copy'[w].base = None
        /\ \A v \in Writer : v # w => copy'[v] = copy[v]
        /\ row # None => copy'[w].version = row.version + 1
    BY <1>0, <2>1, PhantomStep
  <2>3. /\ Idle \in WriteRecord /\ Idle.at = "idle" /\ Idle.new = FALSE
        /\ write \in [Writer -> WriteRecord] /\ row \in {None} \cup Row
    BY TypeFacts DEF Idle, WriteRecord, IInv
  <2>4. /\ write' \in [Writer -> WriteRecord] /\ write'[w] = Idle
        /\ \A v \in Writer : v # w => write'[v] = write[v]
    BY <2>1, <2>3
  <2>5. TypeOK'
    BY <2>1, <2>2, <2>4 DEF IInv, TypeOK, Copy, WriteRecord
  <2>6. WriteInv'
    BY <2>2, <2>3, <2>4 DEF IInv, WriteInv
  <2>7. InsertInv'
    <3>1. Recorded' = Recorded /\ log' = log
      BY <2>1 DEF Recorded
    <3>2. ASSUME NEW v \in Writer PROVE
      (/\ write[v].at \in {"numbered", "absent"} => write[v].sequence <= Len(log)
       /\ write[v].at = "absent" =>
            \A i \in 1..Len(log) : i <= write[v].sequence => log[i].content # write[v].content
       /\ write[v].at \in {"appended", "saved"} /\ ~write[v].new => write[v].content \in Recorded
       /\ write[v].new =>
            /\ write[v].at \in {"appended", "saved"} /\ write[v].sequence = Len(log)
            /\ write[v].content \notin Recorded
            /\ \A u \in Writer : write[u].new => u = v)'
      <4>1. CASE v = w
        BY <2>3, <2>4, <4>1
      <4>2. CASE v # w
        BY <2>3, <2>4, <3>1, <4>2 DEF IInv, InsertInv
      <4> QED BY <4>1, <4>2
    <3> QED BY <3>2 DEF InsertInv
  <2>8. VersionInv'
    <3>1. CASE row = None
      BY <1>0, <2>1, <2>2, <3>1 DEF IInv, VersionInv
    <3>2. CASE row # None
      <4>1. row.version \in Nat
        BY <2>3, <3>2 DEF Row
      <4>2. ASSUME NEW v \in Writer, copy'[v] # None PROVE
            /\ copy'[v].version <= row.version + 1
            /\ copy'[v].base # None =>
                 /\ copy'[v].version <= row.version
                 /\ copy'[v].version = row.version => copy'[v].base = row.content
        BY <2>2, <3>2, <4>1, <4>2 DEF IInv, VersionInv
      <4> QED BY <2>1, <3>2, <4>2 DEF IInv, VersionInv
    <3> QED BY <3>1, <3>2
  <2>9. CacheInv'
    <3>1. \A v \in Writer : (copy'[v] # None <=> copy[v] # None)
                            /\ (write'[v].at = "committed" <=> write[v].at = "committed")
                            /\ (write'[v].at = "committed" => write'[v] = write[v])
      BY <1>0, <2>2, <2>3, <2>4
    <3> QED BY <2>1, <3>1 DEF IInv, CacheInv
  <2> QED BY <2>5, <2>6, <2>7, <2>8, <2>9 DEF IInv
<1> QED BY <1>1, <1>2

LEMMA RememberStep ==
  ASSUME IInv, NEW w \in Writer, Remember(w) PROVE IInv'
<1>0. /\ write[w].at = "committed" /\ write' = [write EXCEPT ![w] = Idle]
      /\ cache' = [cache EXCEPT ![ProcessOf[w]] = write[w].content]
      /\ UNCHANGED <<log, row, header, copy, disturbed>>
  BY DEF Remember, Remembered, At, stored
<1>1. /\ Idle \in WriteRecord /\ Idle.at = "idle" /\ Idle.new = FALSE
      /\ write \in [Writer -> WriteRecord] /\ cache \in [Process -> Content \cup {None}]
      /\ write[w].content \in Content /\ copy[w] # None
  BY <1>0, TypeFacts DEF Idle, WriteRecord, IInv, WriteInv
<1>2. /\ write' \in [Writer -> WriteRecord] /\ write'[w] = Idle
      /\ \A v \in Writer : v # w => write'[v] = write[v]
  BY <1>0, <1>1
<1>3. /\ cache' \in [Process -> Content \cup {None}] /\ cache'[ProcessOf[w]] = write[w].content
      /\ \A p \in Process : p # ProcessOf[w] => cache'[p] = cache[p]
  BY <1>0, <1>1
<1>4. TypeOK'
  BY <1>0, <1>2, <1>3 DEF IInv, TypeOK, WriteRecord
<1>5. WriteInv'
  BY <1>0, <1>1, <1>2 DEF IInv, WriteInv
<1>6. InsertInv'
  <2>1. Recorded' = Recorded /\ log' = log
    BY <1>0 DEF Recorded
  <2>2. ASSUME NEW v \in Writer PROVE
      (/\ write[v].at \in {"numbered", "absent"} => write[v].sequence <= Len(log)
       /\ write[v].at = "absent" =>
            \A i \in 1..Len(log) : i <= write[v].sequence => log[i].content # write[v].content
       /\ write[v].at \in {"appended", "saved"} /\ ~write[v].new => write[v].content \in Recorded
       /\ write[v].new =>
            /\ write[v].at \in {"appended", "saved"} /\ write[v].sequence = Len(log)
            /\ write[v].content \notin Recorded
            /\ \A u \in Writer : write[u].new => u = v)'
    <3>1. CASE v = w
      BY <1>1, <1>2, <3>1
    <3>2. CASE v # w
      BY <1>1, <1>2, <2>1, <3>2 DEF IInv, InsertInv
    <3> QED BY <3>1, <3>2
  <2> QED BY <2>2 DEF InsertInv
<1>7. VersionInv'
  BY <1>0 DEF IInv, VersionInv
<1>8. CacheInv'
  <2> SUFFICES ASSUME ~disturbed' PROVE CacheInv'
    BY DEF CacheInv
  <2>1. row # None /\ row.content = write[w].content
    BY <1>0 DEF IInv, CacheInv
  <2>2. \A v \in Writer : write[v].at = "committed" => v = w
    BY <1>0, <1>1 DEF IInv, CacheInv, WriteInv
  <2>3. \A v \in Writer : write'[v].at # "committed"
    BY <1>1, <1>2, <2>2
  <2>4. \A p \in Process : cache'[p] # None => row.content = cache'[p]
    BY <1>0, <1>3, <2>1, <2>2 DEF IInv, CacheInv
  <2> QED BY <1>0, <2>1, <2>3, <2>4 DEF IInv, CacheInv
<1> QED BY <1>4, <1>5, <1>6, <1>7, <1>8 DEF IInv
LEMMA SaveStateStep ==
  ASSUME IInv, NEW w \in Writer, NEW c \in Content, NEW checked \in BOOLEAN,
         NEW committed \in BOOLEAN, SaveState(w, c, checked, committed)
  PROVE IInv'
<1>0. /\ copy[w] # None /\ write[w].at = "idle" /\ write' = write /\ UNCHANGED <<log, header, cache>>
      /\ Advance(w, IF committed THEN c ELSE None)
      /\ copy \in [Writer -> {None} \cup Copy] /\ row \in {None} \cup Row
  BY TypeFacts DEF SaveState, Live, IInv
<1>t. disturbed' \in BOOLEAN
  BY TypeFacts DEF SaveState, IInv
<1>1. CASE ~committed
  <2>1. Advance(w, None) /\ row' = row
    BY <1>0, <1>1 DEF SaveState
  <2>2. disturbed' <=> disturbed
    BY <1>1 DEF SaveState
  <2>3. /\ copy' \in [Writer -> {None} \cup Copy] /\ copy'[w] # None /\ copy'[w].base = None
        /\ \A v \in Writer : v # w => copy'[v] = copy[v]
        /\ row # None => copy'[w].version = row.version + 1
    BY <1>0, <2>1, PhantomStep
  <2>4. ~disturbed' => \A v \in Writer \ {w} : copy[v] = None
    BY <1>0, <2>2 DEF IInv, CacheInv
  <2>5. row = None => w = Creator /\ copy'[w].base = None
    BY <1>0, <2>3 DEF IInv, VersionInv
  <2>6. row # None => copy'[w].version <= row.version + 1
    BY <1>0, <2>3 DEF Row
  <2> QED BY <1>0, <1>t, <2>1, <2>2, <2>3, <2>4, <2>5, <2>6, CopyStep
<1>2. CASE committed
  <2> DEFINE k == [version |-> NextVersion(w), base |-> c]
  <2>1. copy' = [copy EXCEPT ![w] = k] /\ row' = [version |-> NextVersion(w), content |-> c]
    BY <1>0, <1>2 DEF SaveState, Advance
  <2>2. /\ NextVersion(w) \in Nat /\ copy[w] \in Copy
        /\ row # None => row.version \in Nat /\ NextVersion(w) = row.version + 1
    <3>1. copy[w] \in Copy
      BY <1>0
    <3>2. CASE row = None
      BY <3>1, <3>2 DEF NextVersion, Copy
    <3>3. CASE row # None
      BY <1>0, <3>1, <3>3 DEF NextVersion, Row
    <3> QED BY <3>1, <3>2, <3>3
  <2>3. k \in Copy /\ row' \in Row /\ k.version = NextVersion(w) /\ k.base = c
    BY <2>1, <2>2 DEF Copy, Row
  <2>4. k # None /\ row' # None
    BY <2>3 DEF Copy, Row
  <2> HIDE DEF k
  <2>5. /\ copy' \in [Writer -> {None} \cup Copy] /\ copy'[w] = k
        /\ \A v \in Writer : v # w => copy'[v] = copy[v]
    BY <1>0, <2>1, <2>3
  <2>6. TypeOK'
    BY <1>0, <1>t, <2>3, <2>5 DEF IInv, TypeOK, Copy, Row
  <2>7. WriteInv'
    BY <1>0, <2>4, <2>5 DEF IInv, WriteInv
  <2>8. InsertInv'
    <3>1. Recorded' = Recorded
      BY <1>0 DEF Recorded
    <3> QED BY <1>0, <3>1 DEF IInv, InsertInv
  <2>9. VersionInv'
    <3>1. ASSUME NEW v \in Writer, copy'[v] # None PROVE
            /\ copy'[v].version <= row'.version + 1
            /\ copy'[v].base # None =>
                 /\ copy'[v].version <= row'.version
                 /\ copy'[v].version = row'.version => copy'[v].base = row'.content
      <4>1. CASE v = w
        BY <2>1, <2>2, <2>3, <2>5, <4>1
      <4>2. CASE v # w
        <5>1. copy'[v] = copy[v] /\ copy[v] # None
          BY <2>5, <3>1, <4>2
        <5>2. row # None
          BY <1>0, <4>2, <5>1 DEF IInv, VersionInv
        <5>3. copy[v] \in Copy
          BY <1>0, <5>1
        <5>4. row'.version = row.version + 1
          BY <2>1, <2>2, <5>2
        <5>5. /\ copy[v].version <= row.version + 1
              /\ copy[v].base # None => copy[v].version <= row.version
          BY <5>1, <5>2 DEF IInv, VersionInv
        <5> QED BY <2>2, <5>1, <5>2, <5>3, <5>4, <5>5 DEF Copy
      <4> QED BY <4>1, <4>2
    <3>2. ASSUME NEW i \in 1..Len(log) PROVE
            /\ log[i].version <= row'.version
            /\ log[i].version = row'.version => log[i].content = row'.content
      <4>1. log[i] \in Entry
        BY TypeFacts, LogStays DEF IInv
      <4>2. row # None
        BY <4>1 DEF IInv, VersionInv
      <4>3. row'.version = row.version + 1 /\ row.version \in Nat
        BY <2>1, <2>2, <4>2
      <4>4. log[i].version <= row.version
        BY <4>2 DEF IInv, VersionInv
      <4> QED BY <4>1, <4>3, <4>4 DEF Entry
    <3> QED BY <1>0, <2>4, <3>1, <3>2 DEF VersionInv
  <2>10. CacheInv'
    <3> SUFFICES ASSUME ~disturbed' PROVE CacheInv'
      BY DEF CacheInv
    <3>1. ~disturbed /\ \A p \in Process : cache[p] = None
      BY <1>2 DEF SaveState
    <3>2. \A v \in Writer : copy[v] # None => v = w
      BY <1>0, <3>1 DEF IInv, CacheInv
    <3>3. \A v \in Writer : write[v].at # "committed"
      BY <1>0, <3>2 DEF IInv, WriteInv
    <3>4. \A v \in Writer : copy'[v] # None => v = w
      BY <2>5, <3>2
    <3> QED BY <1>0, <3>1, <3>3, <3>4 DEF CacheInv
  <2> QED BY <2>6, <2>7, <2>8, <2>9, <2>10 DEF IInv
<1> QED BY <1>1, <1>2

LEMMA ResumeStep ==
  ASSUME IInv, NEW w \in Writer, Resume(w) PROVE IInv'
<1>0. /\ copy[w] = None /\ row # None /\ row \in Row /\ copy \in [Writer -> {None} \cup Copy]
  BY TypeFacts DEF Resume, IInv
<1> DEFINE k == [version |-> row.version, base |-> row.content]
<1>1. k \in Copy /\ k.version = row.version /\ k.base = row.content /\ row.version \in Nat
  BY <1>0 DEF Copy, Row
<1>2. copy' = [copy EXCEPT ![w] = k] /\ UNCHANGED <<log, row, header, cache>> /\ write' = write
  BY DEF Resume, stored
<1> HIDE DEF k
<1>3. /\ copy' \in [Writer -> {None} \cup Copy] /\ copy'[w] = k
      /\ \A v \in Writer : v # w => copy'[v] = copy[v]
  BY <1>0, <1>1, <1>2
<1>4. write[w].at = "idle"
  BY <1>0 DEF IInv, WriteInv
<1>5. disturbed' \in BOOLEAN
  BY TypeFacts DEF Resume, IInv
<1>6. (disturbed => disturbed') /\ (~disturbed' => \A v \in Writer \ {w} : copy[v] = None)
  BY DEF Resume, Raced
<1> QED BY <1>0, <1>1, <1>2, <1>3, <1>4, <1>5, <1>6, CopyStep

LEMMA RewindStep ==
  ASSUME IInv, NEW w \in Writer, NEW i \in 1..Len(log), Rewind(w, i) PROVE IInv'
<1>0. /\ copy[w] = None /\ log[i] \in Entry /\ copy \in [Writer -> {None} \cup Copy]
      /\ row \in {None} \cup Row
  BY TypeFacts, LogStays DEF Rewind, IInv
<1>1. row # None /\ row.version \in Nat
  <2>1. row # None
    BY <1>0 DEF IInv, VersionInv
  <2> QED BY <1>0, <2>1 DEF Row
<1> DEFINE k == [version |-> log[i].version, base |-> log[i].content]
<1>2. k \in Copy /\ k.version = log[i].version /\ k.base = log[i].content
  BY <1>0 DEF Copy, Entry
<1>3. copy' = [copy EXCEPT ![w] = k] /\ UNCHANGED <<log, row, header, cache>> /\ write' = write
  BY DEF Rewind, stored
<1>4. /\ k.version <= row.version
      /\ k.version = row.version => k.base = row.content
  BY <1>1, <1>2 DEF IInv, VersionInv
<1> HIDE DEF k
<1>5. /\ copy' \in [Writer -> {None} \cup Copy] /\ copy'[w] = k
      /\ \A v \in Writer : v # w => copy'[v] = copy[v]
  BY <1>0, <1>2, <1>3
<1>6. write[w].at = "idle"
  BY <1>0 DEF IInv, WriteInv
<1>7. disturbed' \in BOOLEAN
  BY TypeFacts DEF Rewind, IInv
<1>8. (disturbed => disturbed') /\ (~disturbed' => \A v \in Writer \ {w} : copy[v] = None)
  BY DEF Rewind, Raced
<1>9. k.version <= row.version + 1
  BY <1>1, <1>2, <1>4 DEF Copy
<1> QED BY <1>1, <1>3, <1>4, <1>5, <1>6, <1>7, <1>8, <1>9, CopyStep

LEMMA LeaveStep ==
  ASSUME IInv, NEW w \in Writer, Leave(w) PROVE IInv'
<1>0. /\ copy \in [Writer -> {None} \cup Copy] /\ write[w].at = "idle" /\ write' = write
      /\ UNCHANGED <<log, row, header, cache, disturbed>> /\ copy' = [copy EXCEPT ![w] = None]
  BY TypeFacts DEF Leave, Live, IInv, stored
<1>1. /\ copy' \in [Writer -> {None} \cup Copy] /\ copy'[w] = None
      /\ \A v \in Writer : v # w => copy'[v] = copy[v]
  BY <1>0
<1>2. disturbed' \in BOOLEAN /\ (disturbed => disturbed')
  BY <1>0, TypeFacts DEF IInv
<1> QED BY <1>0, <1>1, <1>2, CopyStep

LEMMA CrashStep ==
  ASSUME IInv, NEW p \in Process, Crash(p) PROVE IInv'
<1>0. /\ Idle \in WriteRecord /\ Idle.at = "idle" /\ Idle.new = FALSE
      /\ write \in [Writer -> WriteRecord] /\ copy \in [Writer -> {None} \cup Copy]
      /\ cache \in [Process -> Content \cup {None}]
  BY TypeFacts DEF Idle, WriteRecord, IInv
<1>1. /\ UNCHANGED <<log, row, header, disturbed>>
      /\ cache' = [cache EXCEPT ![p] = None]
      /\ copy' = [w \in Writer |-> IF ProcessOf[w] = p THEN None ELSE copy[w]]
      /\ write' = [w \in Writer |-> IF ProcessOf[w] = p THEN Idle ELSE write[w]]
  BY DEF Crash, stored
<1>2. /\ copy' \in [Writer -> {None} \cup Copy] /\ write' \in [Writer -> WriteRecord]
      /\ cache' \in [Process -> Content \cup {None}]
  BY <1>0, <1>1
<1>3. \A w \in Writer :
        \/ ProcessOf[w] = p /\ copy'[w] = None /\ write'[w] = Idle
        \/ ProcessOf[w] # p /\ copy'[w] = copy[w] /\ write'[w] = write[w]
  BY <1>1
<1>4. TypeOK'
  BY <1>1, <1>2 DEF IInv, TypeOK, Copy, WriteRecord
<1>5. WriteInv'
  BY <1>0, <1>3 DEF IInv, WriteInv
<1>6. InsertInv'
  <2>1. Recorded' = Recorded /\ log' = log
    BY <1>1 DEF Recorded
  <2>2. ASSUME NEW v \in Writer PROVE
      (/\ write[v].at \in {"numbered", "absent"} => write[v].sequence <= Len(log)
       /\ write[v].at = "absent" =>
            \A i \in 1..Len(log) : i <= write[v].sequence => log[i].content # write[v].content
       /\ write[v].at \in {"appended", "saved"} /\ ~write[v].new => write[v].content \in Recorded
       /\ write[v].new =>
            /\ write[v].at \in {"appended", "saved"} /\ write[v].sequence = Len(log)
            /\ write[v].content \notin Recorded
            /\ \A u \in Writer : write[u].new => u = v)'
    <3>1. CASE write'[v] = Idle
      BY <1>0, <3>1
    <3>2. CASE write'[v] = write[v]
      BY <1>0, <1>3, <2>1, <3>2 DEF IInv, InsertInv
    <3> QED BY <1>3, <3>1, <3>2
  <2> QED BY <2>2 DEF InsertInv
<1>7. VersionInv'
  BY <1>1, <1>3 DEF IInv, VersionInv
<1>8. CacheInv'
  <2> SUFFICES ASSUME ~disturbed' PROVE CacheInv'
    BY DEF CacheInv
  <2>1. ~disturbed
    BY <1>1
  <2>2. \A q \in Process : cache'[q] # None => q # p /\ cache'[q] = cache[q]
    BY <1>0, <1>1
  <2>3. \A q \in Process : cache'[q] # None =>
          /\ row # None
          /\ row.content = cache[q]
               \/ \E w \in Writer : ProcessOf[w] = q /\ write'[w].at = "committed"
    BY <1>3, <2>1, <2>2 DEF IInv, CacheInv
  <2>4. \A u, v \in Writer : copy'[u] # None /\ copy'[v] # None => u = v
    BY <1>3, <2>1 DEF IInv, CacheInv
  <2>5. \A v \in Writer : write'[v].at = "committed" =>
          row # None /\ row.content = write'[v].content
    BY <1>0, <1>3, <2>1 DEF IInv, CacheInv
  <2> QED BY <1>1, <2>2, <2>3, <2>4, <2>5 DEF CacheInv
<1> QED BY <1>4, <1>5, <1>6, <1>7, <1>8 DEF IInv

-----------------------------------------------------------------------------
(* The theorems. *)

LEMMA InvStep == IInv /\ [Next]_vars => IInv'
<1> SUFFICES ASSUME IInv, [Next]_vars PROVE IInv'
  OBVIOUS
<1>1. CASE UNCHANGED vars
  <2>1. Recorded' = Recorded
    BY <1>1 DEF vars, stored, Recorded
  <2>2. TypeOK' /\ WriteInv' /\ VersionInv'
    BY <1>1 DEF vars, stored, IInv, TypeOK, WriteInv, VersionInv
  <2>3. InsertInv' /\ CacheInv'
    BY <1>1, <2>1 DEF vars, stored, IInv, InsertInv, CacheInv
  <2> QED BY <2>2, <2>3 DEF IInv
<1>2. ASSUME NEW w \in Writer,
             \/ WriterStep(w) \/ CommitUnheard(w) \/ Rollback(w) \/ Resume(w) \/ Leave(w)
             \/ \E c \in Content : Begin(w, c)
             \/ \E c \in Content, checked, committed \in BOOLEAN :
                   SaveState(w, c, checked, committed)
             \/ \E i \in 1..Len(log) : Rewind(w, i)
      PROVE IInv'
  BY <1>2, NumberStep, LookUpStep, InsertStep, LoseStep, SaveRowStep, CommitStep, RememberStep,
     UnheardStep, RollbackStep, ResumeStep, LeaveStep, BeginStep, SaveStateStep, RewindStep
     DEF WriterStep
<1>3. ASSUME NEW w \in Writer, NEW c \in Content, Skip(w, c) PROVE IInv'
  BY <1>1, <1>3 DEF Skip
<1>4. ASSUME NEW p \in Process, Crash(p) PROVE IInv'
  BY <1>4, CrashStep
<1> QED BY <1>1, <1>2, <1>3, <1>4 DEF Next

LEMMA Always == Spec => []IInv
<1> QED BY InitInv, InvStep, PTL DEF Spec

\* Every variable keeps its type (persistence/tables.py:249, 277).
THEOREM TypeCorrect == Spec => []TypeOK
<1>1. IInv => TypeOK
  BY DEF IInv
<1> QED BY <1>1, Always, PTL

\* A versioned save overwrites nothing its writer has not read, whoever wrote,
\* failed, crashed or rewound before (persistence/repositories.py:430).
THEOREM VersionsAreApart == Spec => []VersionsTellWritesApart
<1>1. IInv => VersionsTellWritesApart
  BY DEF IInv, VersionInv, VersionsTellWritesApart
<1> QED BY <1>1, Always, PTL

\* A checkpoint that is skipped is what the row holds, unless runs raced or an
\* answer was lost (checkpoint/manager.py:109).
THEOREM SkipsAreSound == Spec => []SkippedIsStored
<1>1. IInv => SkippedIsStored
  <2> SUFFICES ASSUME IInv, NEW w \in Writer, ~disturbed, Live(w), cache[ProcessOf[w]] # None
               PROVE row # None /\ row.content = cache[ProcessOf[w]]
    BY DEF SkippedIsStored
  <2>1. ProcessOf[w] \in Process /\ copy[w] # None /\ write[w].at = "idle"
    BY DEF Live
  <2>2. \A v \in Writer : write[v].at # "committed"
    BY <2>1 DEF IInv, WriteInv, CacheInv
  <2> QED BY <2>1, <2>2 DEF IInv, CacheInv
<1> QED BY <1>1, Always, PTL
-----------------------------------------------------------------------------
(* The refinement. *)

History == [i \in 1..Len(log) |-> log[i].content]
Current == IF row = None THEN None ELSE row.content

\* A commit is one Record of the store: an insert is new to the history, and
\* what was not inserted is in it.
LEMMA StoredRecords ==
  ASSUME IInv, NEW w \in Writer, Stored(w) PROVE Store_!Record(write[w].content)
<1> DEFINE c == write[w].content
           e == [content |-> c, version |-> copy[w].version]
<1>0. /\ log \in Seq(Entry) /\ Len(log) \in Nat /\ write \in [Writer -> WriteRecord]
      /\ write[w].at = "saved" /\ header' = c
  BY TypeFacts, LogStays DEF IInv, Stored, At, Store
<1>1. e \in Entry /\ e.content = c
  BY StoredFacts DEF Entry, Copy
<1>2. Current' = c
  <2>1. row' # None /\ row' = [version |-> NextVersion(w), content |-> c]
    BY StoredFacts
  <2> QED BY <2>1 DEF Current
<1>3. History \in Seq(Content \cup {None}) /\ Len(History) = Len(log)
      /\ \A i \in 1..Len(log) : History[i] = log[i].content
  <2>1. \A i \in 1..Len(log) : log[i].content \in Content
    BY <1>0, LogStays DEF Entry
  <2>2. History \in [1..Len(log) -> Content \cup {None}]
    BY <2>1 DEF History
  <2>3. History \in Seq(Content \cup {None}) /\ Len(History) = Len(log)
    BY <1>0, <2>2
  <2> QED BY <2>3 DEF History
<1>4. CASE write[w].new
  <2>1. ~ \E i \in 1..Len(History) : History[i] = c
    BY <1>3, <1>4 DEF IInv, InsertInv, Recorded
  <2>2. log' = Append(log, e)
    BY <1>4 DEF Stored, Store
  <2> HIDE DEF e
  <2>3. /\ Len(log') = Len(log) + 1 /\ \A i \in 1..Len(log) : log'[i] = log[i]
        /\ log'[Len(log) + 1] = e
    BY <1>0, <1>1, <2>2, LogGrows
  <2>4. History' = [i \in 1..(Len(log) + 1) |-> IF i <= Len(log) THEN History[i] ELSE c]
    BY <1>0, <1>1, <1>3, <2>3 DEF History
  <2>5. Append(History, c) = [i \in 1..(Len(log) + 1) |-> IF i <= Len(log) THEN History[i] ELSE c]
    BY <1>3
  <2> QED BY <1>0, <1>2, <2>1, <2>4, <2>5 DEF Store_!Record, History, Current
<1>5. CASE ~write[w].new
  <2>1. \E i \in 1..Len(History) : History[i] = c
    BY <1>0, <1>3, <1>5 DEF IInv, InsertInv, Recorded
  <2>2. History' = History
    BY <1>5 DEF Stored, Store, History
  <2> QED BY <1>0, <1>2, <2>1, <2>2 DEF Store_!Record, History, Current
<1> QED BY <1>4, <1>5

\* A save outside the checkpoints is one Save, or nothing when it rolls back.
LEMMA SaveStateSaves ==
  ASSUME IInv, NEW w \in Writer, NEW c \in Content, NEW checked \in BOOLEAN,
         NEW committed \in BOOLEAN, SaveState(w, c, checked, committed)
  PROVE Store_!Save(c) \/ (History' = History /\ Current' = Current /\ header' = header)
<1>1. log' = log /\ header' = header
  BY DEF SaveState
<1>2. CASE ~committed
  BY <1>1, <1>2 DEF SaveState, History, Current
<1>3. CASE committed
  <2>1. row' = [version |-> NextVersion(w), content |-> c]
    BY <1>3 DEF SaveState
  <2>2. NextVersion(w) \in Nat
    <3>1. copy[w] \in Copy /\ row \in {None} \cup Row
      BY TypeFacts DEF IInv, SaveState, Live
    <3>2. CASE row = None
      BY <3>1, <3>2 DEF NextVersion, Copy
    <3>3. CASE row # None
      BY <3>1, <3>3 DEF NextVersion, Row
    <3> QED BY <3>2, <3>3
  <2>3. row' \in Row /\ row'.content = c
    BY <2>1, <2>2 DEF Row
  <2>4. row' # None
    BY <2>3 DEF Row
  <2> QED BY <1>1, <2>3, <2>4 DEF Store_!Save, History, Current
<1> QED BY <1>2, <1>3

LEMMA StoreStep ==
  ASSUME IInv, [Next]_vars
  PROVE [Store_!Next]_<<History, Current, header>>
<1>1. ASSUME UNCHANGED <<log, row, header>> PROVE UNCHANGED <<History, Current, header>>
  BY <1>1 DEF History, Current
<1>2. ASSUME NEW w \in Writer, Stored(w) PROVE Store_!Next
  <2>1. write[w].content \in Content
    BY <1>2, StoredFacts
  <2>2. Store_!Record(write[w].content)
    BY <1>2, StoredRecords
  <2>3. \E c \in Content : Store_!Record(c)
    BY <2>1, <2>2 DEF Store_!Record
  <2> QED BY <2>3 DEF Store_!Next
<1>3. ASSUME NEW w \in Writer, NEW c \in Content, NEW checked \in BOOLEAN,
             NEW committed \in BOOLEAN, SaveState(w, c, checked, committed)
      PROVE [Store_!Next]_<<History, Current, header>>
  BY <1>3, SaveStateSaves DEF Store_!Next
<1>4. ASSUME NEW w \in Writer,
             \/ WriterStep(w) \/ CommitUnheard(w) \/ Rollback(w) \/ Resume(w) \/ Leave(w)
             \/ \E c \in Content : Begin(w, c) \/ Skip(w, c)
             \/ \E i \in 1..Len(log) : Rewind(w, i)
      PROVE Stored(w) \/ UNCHANGED <<log, row, header>>
  BY <1>4 DEF WriterStep, Number, LookUp, InsertCheckpoint, LoseSequence, SaveRow, Commit, Remember,
     CommitUnheard, Rollback, Resume, Leave, Begin, Skip, Rewind, Stored, stored, vars
<1>5. ASSUME NEW p \in Process, Crash(p) PROVE UNCHANGED <<log, row, header>>
  BY <1>5 DEF Crash, stored
<1>6. CASE UNCHANGED vars
  BY <1>1, <1>6 DEF vars, stored
<1> QED BY <1>1, <1>2, <1>3, <1>4, <1>5, <1>6 DEF Next

\* The interleaved, failing and restarting writers implement the store that
\* records and saves in single steps (checkpoint/manager.py:142).
THEOREM StoreIsImplemented == Spec => ImplementsStore
<1>1. Init => Store_!Init
  BY DEF Init, Store_!Init
<1>2. IInv /\ [Next]_vars =>
        [Store_!Next]_<<[i \in 1..Len(log) |-> log[i].content],
                        IF row = None THEN None ELSE row.content, header>>
  BY StoreStep DEF History, Current
<1> QED BY <1>1, <1>2, Always, PTL DEF Spec, ImplementsStore, Store_!Spec
=============================================================================
