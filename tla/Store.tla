-------------------------------- MODULE Store --------------------------------
(***************************************************************************)
(* The lyrics store's caches in front of SQLite (internal/storage/store.go *)
(* and admin.go) with the lookup that uses them (service.fromStore).       *)
(*                                                                         *)
(* The module follows one song with one row.  A row is looked up by title  *)
(* and artist (the caches by exact id and by full text are used and        *)
(* emptied alike), its content is read by id, and the parsed lyrics are    *)
(* kept by id and creation time.  Each cache and the database has a lock   *)
(* of its own: what a lookup found in one may be stale when it is put into *)
(* the next.                                                               *)
(*                                                                         *)
(* Content is the number of the write it came from.  The row's id is the   *)
(* number of the write that inserted it (ids are never used again), and    *)
(* its creation time that of the last save.                                *)
(***************************************************************************)
EXTENDS Integers

CONSTANTS
  Readers,     \* requests in service.fromStore
  Writers,     \* the write worker and administrators
  Ops,         \* what the writers do: "save", "batch", "update", "delete"
  MaxWrites,   \* bound: writes in a behaviour
  CbThreshold  \* consecutive busy errors before the store rests

ASSUME StoreAssumption ==
  /\ Ops \subseteq {"save", "batch", "update", "delete"}
  /\ MaxWrites \in Nat \ {0}
  /\ CbThreshold \in Nat \ {0}

VARIABLES
  row,      \* the song's row: [id, content, created], all 0 when there is none
  light,    \* exactTitle: [id, created] of the cached row, 0 when not cached
  miss,     \* the miss memo holds the song's key
  content,  \* the content cache, by id: 0 when not cached
  parsed,   \* globalParsedRowCache, by creation time: 0 when not cached
  rest,     \* the store's circuit breaker
  reader,   \* each reader's place and what it has in hand
  writer,   \* each writer's place, operation and write
  writes,   \* writes begun
  crossed   \* history: somebody else was busy during the writer's operation

caches == <<light, miss, content>>
vars == <<row, caches, parsed, rest, reader, writer, writes, crossed>>

Write == 1..MaxWrites
Write0 == 0..MaxWrites
NoRow == [id |-> 0, content |-> 0, created |-> 0]
Uncached == [id |-> 0, created |-> 0]
LightOf(r) == [id |-> r.id, created |-> r.created]

LightState == [id : Write0, created : Write0]
RestState == [errs : 0..CbThreshold, open : BOOLEAN, over : BOOLEAN]
ReaderState ==
  [pc : {"idle", "query", "memo", "found", "read", "keep", "parse"},
   hand : LightState, text : Write0]
WriterState ==
  [pc : {"idle", "get", "upsert", "clear", "fill", "commit", "update", "delete", "reclear", "done"},
   op : Ops \cup {"none"}, n : Write0, id : Write0]

TypeOK ==
  /\ row \in [id : Write0, content : Write0, created : Write0]
  /\ light \in LightState
  /\ miss \in BOOLEAN
  /\ content \in [Write -> Write0]
  /\ parsed \in [Write -> Write0]
  /\ rest \in RestState
  /\ reader \in [Readers -> ReaderState]
  /\ writer \in [Writers -> WriterState]
  /\ writes \in Write0
  /\ crossed \in [Writers -> BOOLEAN]

Resting == rest.open /\ ~rest.over

NoWrite == [pc |-> "idle", op |-> "none", n |-> 0, id |-> 0]
Idle == [pc |-> "idle", hand |-> Uncached, text |-> 0]

Init ==
  /\ row = NoRow
  /\ light = Uncached
  /\ miss = FALSE
  /\ content = [i \in Write |-> 0]
  /\ parsed = [t \in Write |-> 0]
  /\ rest = [errs |-> 0, open |-> FALSE, over |-> FALSE]
  /\ reader = [r \in Readers |-> Idle]
  /\ writer = [w \in Writers |-> NoWrite]
  /\ writes = 0
  /\ crossed = [w \in Writers |-> FALSE]

-----------------------------------------------------------------------------
(* The store's circuit breaker *)

\* IsResting, when the cooldown is over, opens the way again.
Awake == IF rest.open THEN [errs |-> 0, open |-> FALSE, over |-> FALSE] ELSE rest

\* RecordDBSuccess
Served == [rest EXCEPT !.errs = 0]

\* RecordDBBusy; the count has no bound in the code and stops here where it
\* has had its effect.
Busy ==
  IF rest.errs + 1 >= CbThreshold
    THEN [errs |-> CbThreshold, open |-> TRUE, over |-> FALSE]
    ELSE [rest EXCEPT !.errs = @ + 1]

\* recordQueryErr counts the errors of a busy database, unless the caller's
\* own context has ended.
Failed == {rest, Busy}

CooldownOver ==
  /\ rest.open /\ ~rest.over
  /\ rest' = [rest EXCEPT !.over = TRUE]
  /\ UNCHANGED <<row, caches, parsed, reader, writer, writes, crossed>>

-----------------------------------------------------------------------------
(* A lookup: fromStore, GetByTitleArtist, GetContent *)

\* History: a lookup that starts now crosses every write under way.
Crossing == [w \in Writers |-> crossed[w] \/ writer[w].pc # "idle"]

\* The cached row, or on to the database.  While the store rests, or the
\* miss memo has the key, there is no row.
Lookup(r) ==
  /\ reader[r].pc = "idle"
  /\ ~Resting
  /\ rest' = Awake
  /\ \/ /\ light # Uncached
        /\ reader' = [reader EXCEPT ![r].pc = "found", ![r].hand = light]
     \/ /\ light = Uncached
        /\ ~miss
        /\ reader' = [reader EXCEPT ![r].pc = "query"]
  /\ crossed' = Crossing
  /\ UNCHANGED <<row, caches, parsed, writer, writes>>

Query(r) ==
  /\ reader[r].pc = "query"
  /\ reader' = [reader EXCEPT ![r].pc = "memo", ![r].hand = LightOf(row)]
  /\ rest' = Served
  /\ UNCHANGED <<row, caches, parsed, writer, writes, crossed>>

\* The row found is cached, or its absence is remembered.
Memo(r) ==
  /\ reader[r].pc = "memo"
  /\ IF reader[r].hand = Uncached
       THEN /\ miss' = TRUE
            /\ reader' = [reader EXCEPT ![r] = Idle]
            /\ UNCHANGED light
       ELSE /\ light' = reader[r].hand
            /\ reader' = [reader EXCEPT ![r].pc = "found"]
            /\ UNCHANGED miss
  /\ UNCHANGED <<row, content, parsed, rest, writer, writes, crossed>>

\* The parsed lyrics of the row, its cached content, or its content from the
\* database unless that rests.
Find(r) ==
  /\ reader[r].pc = "found"
  /\ LET id == reader[r].hand.id IN
     IF parsed[reader[r].hand.created] # 0
       THEN reader' = [reader EXCEPT ![r] = Idle] /\ UNCHANGED rest
     ELSE IF content[id] # 0
       THEN /\ reader' = [reader EXCEPT ![r].pc = "parse", ![r].text = content[id]]
            /\ UNCHANGED rest
     ELSE IF Resting
       THEN reader' = [reader EXCEPT ![r] = Idle] /\ UNCHANGED rest
     ELSE reader' = [reader EXCEPT ![r].pc = "read"] /\ rest' = Awake
  /\ UNCHANGED <<row, caches, parsed, writer, writes, crossed>>

\* A row that is gone has no content (sql.ErrNoRows is no busy error).
Read(r) ==
  /\ reader[r].pc = "read"
  /\ IF row.id = reader[r].hand.id
       THEN /\ reader' = [reader EXCEPT ![r].pc = "keep", ![r].text = row.content]
            /\ rest' = Served
       ELSE reader' = [reader EXCEPT ![r] = Idle] /\ UNCHANGED rest
  /\ UNCHANGED <<row, caches, parsed, writer, writes, crossed>>

Keep(r) ==
  /\ reader[r].pc = "keep"
  /\ content' = [content EXCEPT ![reader[r].hand.id] = reader[r].text]
  /\ reader' = [reader EXCEPT ![r].pc = "parse"]
  /\ UNCHANGED <<row, light, miss, parsed, rest, writer, writes, crossed>>

Parse(r) ==
  /\ reader[r].pc = "parse"
  /\ parsed' = [parsed EXCEPT ![reader[r].hand.created] = reader[r].text]
  /\ reader' = [reader EXCEPT ![r] = Idle]
  /\ UNCHANGED <<row, caches, rest, writer, writes, crossed>>

\* A query fails, the one for rows perhaps only when they are read: the
\* lookup finds nothing.
QueryFails(r) ==
  /\ \/ reader[r].pc = "query" /\ rest' \in Failed \cup {Served}
     \/ reader[r].pc = "read" /\ rest' \in Failed
  /\ reader' = [reader EXCEPT ![r] = Idle]
  /\ UNCHANGED <<row, caches, parsed, writer, writes, crossed>>

-----------------------------------------------------------------------------
(* A write: SaveLyrics, SaveLyricsBatch, AdminUpdate, AdminDelete *)

Busied(w) == \E v \in Writers \ {w} : writer[v].pc # "idle"

\* Each operation refuses while the store rests.
Begin(w) ==
  /\ writer[w].pc = "idle"
  /\ ~Resting
  /\ rest' = Awake
  /\ \E op \in Ops :
       IF op \in {"save", "batch"}
         THEN /\ writes < MaxWrites
              /\ writes' = writes + 1
              /\ writer' = [writer EXCEPT ![w] = [pc |-> "upsert", op |-> op, n |-> writes', id |-> 0]]
         ELSE /\ writer' = [writer EXCEPT ![w] = [pc |-> "get", op |-> op, n |-> 0, id |-> 0]]
              /\ UNCHANGED writes
  /\ crossed' = [Crossing EXCEPT ![w] =
       Busied(w) \/ \E r \in Readers : reader[r].pc # "idle"]
  /\ UNCHANGED <<row, caches, parsed, reader>>

\* AdminGetByID.  An update writes new content, or back the content it read.
Get(w) ==
  /\ writer[w].pc = "get"
  /\ row # NoRow
  /\ \/ /\ writes < MaxWrites
        /\ writer[w].op = "update"
        /\ writes' = writes + 1
        /\ writer' = [writer EXCEPT ![w].pc = "clear", ![w].id = row.id, ![w].n = writes']
     \/ /\ writer' = [writer EXCEPT ![w].pc = "clear", ![w].id = row.id, ![w].n = row.content]
        /\ UNCHANGED writes
  /\ rest' = Served
  /\ UNCHANGED <<row, caches, parsed, reader, crossed>>

\* The connection that writes is one; a batch holds it until it commits.
InBatch(w) == writer[w].op = "batch" /\ writer[w].pc \in {"clear", "fill", "commit"}
WriterFree == \A w \in Writers : ~InBatch(w)

Upserted(n) ==
  [id |-> IF row = NoRow THEN n ELSE row.id, content |-> n, created |-> n]

\* A batch's row is not in the database before the batch commits.
Upsert(w) ==
  /\ writer[w].pc = "upsert"
  /\ WriterFree
  /\ LET new == Upserted(writer[w].n) IN
     /\ writer' = [writer EXCEPT ![w].pc = "clear", ![w].id = new.id]
     /\ IF writer[w].op = "save" THEN row' = new /\ rest' = Served ELSE UNCHANGED <<row, rest>>
  /\ UNCHANGED <<caches, parsed, reader, writes, crossed>>

AfterClear == [save |-> "fill", batch |-> "fill", update |-> "update", delete |-> "delete"]

\* Mutant: the memo of the miss stays.
ClearNotMiss(w) ==
  /\ writer[w].pc \in {"clear", "reclear"}
  /\ light' = Uncached
  /\ content' = [content EXCEPT ![writer[w].id] = 0]
  /\ UNCHANGED miss
  /\ writer' = [writer EXCEPT ![w].pc =
       IF writer[w].pc = "clear" THEN AfterClear[writer[w].op] ELSE "done"]
  /\ UNCHANGED <<row, parsed, rest, reader, writes, crossed>>

\* invalidate: one cache after the other, each under its own lock.
Clear(w) ==
  /\ writer[w].pc \in {"clear", "reclear"}
  /\ light' = Uncached
  /\ content' = [content EXCEPT ![writer[w].id] = 0]
  /\ miss' = FALSE
  /\ writer' = [writer EXCEPT ![w].pc =
       IF writer[w].pc = "clear" THEN AfterClear[writer[w].op] ELSE "done"]
  /\ UNCHANGED <<row, parsed, rest, reader, writes, crossed>>

Fill(w) ==
  /\ writer[w].pc = "fill"
  /\ content' = [content EXCEPT ![writer[w].id] = writer[w].n]
  /\ writer' = [writer EXCEPT ![w].pc = IF writer[w].op = "save" THEN "done" ELSE "commit"]
  /\ UNCHANGED <<row, light, miss, parsed, rest, reader, writes, crossed>>

Commit(w) ==
  /\ writer[w].pc = "commit"
  /\ row' = Upserted(writer[w].n)
  /\ rest' = Served
  /\ writer' = [writer EXCEPT ![w].pc = "done"]
  /\ UNCHANGED <<caches, parsed, reader, writes, crossed>>

\* The row keeps its creation time.
Update(w) ==
  /\ writer[w].pc = "update"
  /\ WriterFree
  /\ row' = IF row.id = writer[w].id THEN [row EXCEPT !.content = writer[w].n] ELSE row
  /\ rest' = Served
  /\ writer' = [writer EXCEPT ![w].pc = "reclear"]
  /\ UNCHANGED <<caches, parsed, reader, writes, crossed>>

Delete(w) ==
  /\ writer[w].pc = "delete"
  /\ WriterFree
  /\ row' = IF row.id = writer[w].id THEN NoRow ELSE row
  /\ rest' = Served
  /\ writer' = [writer EXCEPT ![w].pc = "done"]
  /\ UNCHANGED <<caches, parsed, reader, writes, crossed>>

Return(w) ==
  /\ writer[w].pc = "done"
  /\ writer' = [writer EXCEPT ![w] = NoWrite]
  /\ crossed' = [crossed EXCEPT ![w] = FALSE]
  /\ UNCHANGED <<row, caches, parsed, rest, reader, writes>>

\* The database refuses, or the row to change is not there: the operation
\* ends, and a batch is rolled back.
WriteFails(w) ==
  /\ \/ writer[w].pc \in {"get", "upsert", "commit", "update", "delete"} /\ rest' \in Failed
     \/ writer[w].pc = "get" /\ row = NoRow /\ UNCHANGED rest
  /\ writer' = [writer EXCEPT ![w] = NoWrite]
  /\ crossed' = [crossed EXCEPT ![w] = FALSE]
  /\ UNCHANGED <<row, caches, parsed, reader, writes>>

-----------------------------------------------------------------------------
(* Caches forget: the memo by time, the others by size or under pressure *)

Forget ==
  /\ \/ miss' = FALSE /\ UNCHANGED <<light, content, parsed>>
     \/ light' = Uncached /\ UNCHANGED <<miss, content, parsed>>
     \/ /\ \E i \in Write : content' = [content EXCEPT ![i] = 0]
        /\ UNCHANGED <<light, miss, parsed>>
     \/ /\ \E t \in Write : parsed' = [parsed EXCEPT ![t] = 0]
        /\ UNCHANGED <<light, miss, content>>
  /\ UNCHANGED <<row, rest, reader, writer, writes, crossed>>

-----------------------------------------------------------------------------
FromStore(r) ==
  Lookup(r) \/ Query(r) \/ Memo(r) \/ Find(r) \/ Read(r) \/ Keep(r) \/ Parse(r) \/ QueryFails(r)

WriteRow(w) ==
  \/ Begin(w) \/ Get(w) \/ Upsert(w) \/ Clear(w) \/ Fill(w) \/ Commit(w)
  \/ Update(w) \/ Delete(w) \/ Return(w) \/ WriteFails(w)

Next ==
  \/ \E r \in Readers : FromStore(r)
  \/ \E w \in Writers : WriteRow(w)
  \/ CooldownOver
  \/ Forget

Spec == Init /\ [][Next]_vars

-----------------------------------------------------------------------------
(* Properties *)

\* What the caches say of the row is what the database says.
Coherent ==
  /\ light # Uncached => light = LightOf(row)
  /\ miss => row = NoRow
  /\ row # NoRow => content[row.id] \in {0, row.content}

\* Whatever stale entries lookups and writes have left behind, a write that
\* nobody crosses leaves caches that agree with the database: it heals them
\* (TestSaveClearsMissMemo and TestSaveLyricsEvictsStaleContent, from every
\* state; also a batch, an administrator's update and a deletion).
UndisturbedWriteIsSeen ==
  \A w \in Writers : writer[w].pc = "done" /\ ~crossed[w] => Coherent

\* The store works again only with its count of errors below the threshold:
\* one more busy error after a rest does not put it back to rest at once
\* (store.go:305-326, 367-378).
AwakeBelowThreshold == ~rest.open => rest.errs < CbThreshold

\* "stale content served after update" (pool_test.go:170) is what must not
\* be: with no lookup and no write under way, the content cache holds what
\* the database holds.
NoStaleContent ==
  (/\ \A r \in Readers : reader[r].pc = "idle"
   /\ \A w \in Writers : writer[w].pc = "idle"
   /\ row # NoRow)
  => content[row.id] \in {0, row.content}
=============================================================================
