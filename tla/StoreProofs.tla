----------------------------- MODULE StoreProofs -----------------------------
(***************************************************************************)
(* Proofs about the modules of the storage layer.                          *)
(*                                                                         *)
(* Store comes first, for any number of readers and writers, any mixture   *)
(* of operations and any threshold.  Its main theorem is about a writer    *)
(* that nobody crosses.  What the caches hold when it begins is arbitrary, *)
(* so the invariant (OnItsWay) says for each place of the writer's program *)
(* what it has put right.  Rows, Merger, Drive, DriveSync, MemCache and    *)
(* AccountFile follow, each by itself: they share no state.                *)
(***************************************************************************)
EXTENDS Store, Rows, MemCache, Merger, Drive, DriveSync, AccountFile,
        SequenceTheorems, FiniteSetTheorems, FunctionTheorems, TLAPS

Alone(w) == writer[w].pc # "idle" /\ ~crossed[w]

\* An operation that nobody crosses is the only thing under way.
AloneInv ==
  \A w \in Writers : Alone(w) =>
    /\ \A r \in Readers : reader[r].pc = "idle"
    /\ \A v \in Writers \ {w} : writer[v].pc = "idle"

\* Which operations come by which place.
PlacesOf(w) ==
  /\ writer[w].pc \in {"upsert", "fill"} => writer[w].op \in {"save", "batch"} /\ writer[w].n \in Write
  /\ writer[w].pc = "commit" => writer[w].op = "batch" /\ writer[w].n \in Write
  /\ writer[w].pc = "get" => writer[w].op \in {"update", "delete"}
  /\ writer[w].pc \in {"update", "reclear"} => writer[w].op = "update"
  /\ writer[w].pc = "delete" => writer[w].op = "delete"
  /\ writer[w].pc = "clear" =>
       /\ writer[w].op # "none"
       /\ writer[w].op \in {"save", "batch"} => writer[w].n \in Write
  /\ writer[w].pc \in {"clear", "reclear", "fill", "commit", "update", "delete"} => writer[w].id \in Write

Places == \A w \in Writers : PlacesOf(w)

\* A row, and what is known of it, has an id.
RowExact ==
  /\ row = NoRow \/ row.id \in Write
  /\ light = Uncached \/ light.id \in Write
  /\ \A r \in Readers :
       /\ reader[r].pc = "memo" => reader[r].hand = Uncached \/ reader[r].hand.id \in Write
       /\ reader[r].pc = "found" => reader[r].hand.id \in Write

\* The row the writer works on.
Target(w) ==
  /\ writer[w].op = "batch" => writer[w].id = Upserted(writer[w].n).id
  /\ writer[w].op # "batch" => row.id = writer[w].id
  /\ writer[w].op = "save" => row.content = writer[w].n

\* The writer has cleared what is cached of the row.
Cleared == light = Uncached /\ ~miss

Progress(w) ==
  /\ writer[w].pc \in {"clear", "fill", "commit", "update", "delete", "reclear"} => Target(w)
  /\ writer[w].pc \in {"fill", "commit", "update", "delete"} => Cleared
  /\ writer[w].pc = "fill" => content[writer[w].id] = 0
  /\ writer[w].pc = "commit" => content[writer[w].id] \in {0, writer[w].n}
  /\ writer[w].pc = "done" => Coherent

OnItsWay == \A w \in Writers : Alone(w) => Progress(w)

StoreInv == TypeOK /\ RowExact /\ Places /\ AloneInv /\ OnItsWay /\ AwakeBelowThreshold

-----------------------------------------------------------------------------
(* The store's breaker *)

\* Whatever an operation reports keeps the breaker's types and its count.
LEMMA RestStep ==
  ASSUME TypeOK, AwakeBelowThreshold,
         \/ rest' \in {rest, Awake, Served} \cup Failed
         \/ rest.open /\ rest' = [rest EXCEPT !.over = TRUE]
  PROVE  /\ rest' \in RestState
         /\ AwakeBelowThreshold'
<1> DEFINE T == [errs : 0..CbThreshold, open : BOOLEAN, over : BOOLEAN]
<1>1. rest \in T /\ CbThreshold \in Nat \ {0} /\ (~rest.open => rest.errs < CbThreshold)
  BY StoreAssumption DEF StoreAssumption, TypeOK, RestState, AwakeBelowThreshold
<1>2. Awake \in T /\ (~Awake.open => Awake.errs < CbThreshold)
  BY <1>1 DEF Awake
<1>3. Served \in T /\ (~Served.open => Served.errs < CbThreshold)
  BY <1>1 DEF Served
<1>4. Busy \in T /\ (~Busy.open => Busy.errs < CbThreshold)
  BY <1>1 DEF Busy
<1>5. rest.open => [rest EXCEPT !.over = TRUE] \in T /\ [rest EXCEPT !.over = TRUE].open
  BY <1>1
<1> QED
  BY <1>1, <1>2, <1>3, <1>4, <1>5 DEF Failed, RestState, AwakeBelowThreshold

-----------------------------------------------------------------------------
(* Who is alone *)

LEMMA OnlyOne ==
  ASSUME StoreInv, NEW w \in Writers, NEW v \in Writers, Alone(v), writer[w].pc # "idle"
  PROVE  v = w
BY DEF StoreInv, AloneInv

\* A lookup under way leaves nobody alone.
LEMMA ReaderStep ==
  ASSUME StoreInv, NEW r \in Readers, reader[r].pc # "idle", UNCHANGED <<writer, crossed>>
  PROVE  AloneInv' /\ OnItsWay' /\ Places'
<1>1. \A w \in Writers : ~Alone(w)
  BY DEF StoreInv, AloneInv
<1>2. \A w \in Writers : ~Alone(w)'
  BY <1>1 DEF Alone
<1>3. Places'
  BY DEF StoreInv, Places, PlacesOf
<1> QED
  BY <1>2, <1>3 DEF AloneInv, OnItsWay

\* A step of a write leaves alone at most its writer, if it was before.
LEMMA WriterStep ==
  ASSUME StoreInv, NEW w \in Writers, writer[w].pc # "idle", UNCHANGED reader,
         \A v \in Writers \ {w} : writer'[v] = writer[v] /\ crossed'[v] = crossed[v],
         writer'[w].pc = "idle" \/ crossed'[w] = crossed[w],
         Alone(w) => Progress(w)'
  PROVE  AloneInv' /\ OnItsWay'
<1>1. ASSUME NEW v \in Writers, Alone(v)'
      PROVE  v = w /\ Alone(w)
  <2>1. CASE v = w
    BY <1>1, <2>1 DEF Alone
  <2>2. CASE v # w
    BY <1>1, <2>2, OnlyOne DEF Alone
  <2> QED
    BY <2>1, <2>2
<1>2. AloneInv'
  BY <1>1 DEF StoreInv, AloneInv
<1>3. OnItsWay'
  BY <1>1 DEF OnItsWay
<1> QED
  BY <1>2, <1>3

\* A step of the caches or the clock alone.
LEMMA NobodysStep ==
  ASSUME StoreInv, UNCHANGED <<writer, crossed, reader>>,
         \A w \in Writers : Progress(w) => Progress(w)'
  PROVE  AloneInv' /\ OnItsWay' /\ Places'
<1>1. \A w \in Writers : Alone(w)' = Alone(w)
  BY DEF Alone
<1>2. AloneInv'
  BY <1>1 DEF StoreInv, AloneInv
<1>3. OnItsWay'
  BY <1>1 DEF StoreInv, OnItsWay
<1>4. Places'
  BY DEF StoreInv, Places, PlacesOf
<1> QED
  BY <1>2, <1>3, <1>4

-----------------------------------------------------------------------------
(* A lookup *)

\* The ways a reader moves.
LEMMA ReaderRests ==
  ASSUME TypeOK, NEW r \in Readers, reader' = [reader EXCEPT ![r] = Idle]
  PROVE  /\ reader' \in [Readers -> ReaderState]
         /\ \A x \in Readers \ {r} : reader'[x] = reader[x]
         /\ reader'[r].pc = "idle"
<1>1. reader \in [Readers -> ReaderState] /\ 0 \in Write0
  BY StoreAssumption DEF StoreAssumption, TypeOK, Write0
<1>2. Idle \in ReaderState /\ Idle.pc = "idle"
  BY <1>1 DEF Idle, ReaderState, Uncached, LightState
<1> QED
  BY <1>1, <1>2

LEMMA ReaderMoves ==
  ASSUME TypeOK, NEW r \in Readers,
         NEW a \in {"idle", "query", "memo", "found", "read", "keep", "parse"},
         reader' = [reader EXCEPT ![r].pc = a]
  PROVE  /\ reader' \in [Readers -> ReaderState]
         /\ \A x \in Readers \ {r} : reader'[x] = reader[x]
         /\ reader'[r].pc = a /\ reader'[r].hand = reader[r].hand
<1>1. reader \in [Readers -> ReaderState]
  BY DEF TypeOK
<1>2. \A x \in ReaderState :
        LET y == [x EXCEPT !.pc = a] IN y \in ReaderState /\ y.pc = a /\ y.hand = x.hand
  BY DEF ReaderState
<1> QED
  BY <1>1, <1>2

LEMMA ReaderFinds ==
  ASSUME TypeOK, NEW r \in Readers, NEW h \in LightState,
         NEW a \in {"idle", "query", "memo", "found", "read", "keep", "parse"},
         reader' = [reader EXCEPT ![r].pc = a, ![r].hand = h]
  PROVE  /\ reader' \in [Readers -> ReaderState]
         /\ \A x \in Readers \ {r} : reader'[x] = reader[x]
         /\ reader'[r].pc = a /\ reader'[r].hand = h
<1>1. reader \in [Readers -> ReaderState]
  BY DEF TypeOK
<1> DEFINE y == [reader[r] EXCEPT !.pc = a, !.hand = h]
<1>2. y \in ReaderState /\ y.pc = a /\ y.hand = h
  BY <1>1 DEF ReaderState
<1>3. reader' = [reader EXCEPT ![r] = y]
  BY <1>1
<1> HIDE DEF y
<1>4. reader'[r] = y /\ \A x \in Readers \ {r} : reader'[x] = reader[x]
  BY <1>1, <1>3
<1> QED
  BY <1>1, <1>2, <1>3, <1>4

LEMMA ReaderReads ==
  ASSUME TypeOK, NEW r \in Readers, NEW t \in Write0,
         NEW a \in {"idle", "query", "memo", "found", "read", "keep", "parse"},
         reader' = [reader EXCEPT ![r].pc = a, ![r].text = t]
  PROVE  /\ reader' \in [Readers -> ReaderState]
         /\ \A x \in Readers \ {r} : reader'[x] = reader[x]
         /\ reader'[r].pc = a /\ reader'[r].hand = reader[r].hand
<1>1. reader \in [Readers -> ReaderState]
  BY DEF TypeOK
<1> DEFINE y == [reader[r] EXCEPT !.pc = a, !.text = t]
<1>2. y \in ReaderState /\ y.pc = a /\ y.hand = reader[r].hand
  BY <1>1 DEF ReaderState
<1>3. reader' = [reader EXCEPT ![r] = y]
  BY <1>1
<1> HIDE DEF y
<1>4. reader'[r] = y /\ \A x \in Readers \ {r} : reader'[x] = reader[x]
  BY <1>1, <1>3
<1> QED
  BY <1>1, <1>2, <1>3, <1>4

\* What a step of a lookup must show.
ReaderInv(r) ==
  /\ reader[r].pc = "memo" => reader[r].hand = Uncached \/ reader[r].hand.id \in Write
  /\ reader[r].pc = "found" => reader[r].hand.id \in Write

LEMMA StepOfReader ==
  ASSUME StoreInv, NEW r \in Readers,
         UNCHANGED <<row, writer, writes>>,
         light' \in LightState, light' = Uncached \/ light'.id \in Write,
         miss' \in BOOLEAN, content' \in [Write -> Write0], parsed' \in [Write -> Write0],
         rest' \in {rest, Awake, Served} \cup Failed, crossed' \in [Writers -> BOOLEAN],
         reader' \in [Readers -> ReaderState],
         \A x \in Readers \ {r} : reader'[x] = reader[x],
         ReaderInv(r)',
         \A w \in Writers : ~Alone(w)'
  PROVE  StoreInv'
<1>1. TypeOK /\ RowExact /\ AwakeBelowThreshold
  BY DEF StoreInv
<1>2. rest' \in RestState /\ AwakeBelowThreshold'
  BY <1>1, RestStep
<1>3. TypeOK'
  BY <1>1, <1>2 DEF TypeOK
<1>4. RowExact'
  BY <1>1 DEF RowExact, ReaderInv
<1>5. AloneInv' /\ OnItsWay'
  BY DEF AloneInv, OnItsWay
<1>6. Places'
  BY DEF StoreInv, Places, PlacesOf
<1> QED
  BY <1>2, <1>3, <1>4, <1>5, <1>6 DEF StoreInv

LEMMA LookupStep ==
  ASSUME StoreInv, NEW r \in Readers, Lookup(r)
  PROVE  StoreInv'
<1>1. /\ TypeOK /\ light \in LightState /\ (light = Uncached \/ light.id \in Write)
      /\ miss \in BOOLEAN /\ content \in [Write -> Write0] /\ parsed \in [Write -> Write0]
      /\ crossed \in [Writers -> BOOLEAN]
  BY DEF StoreInv, TypeOK, RowExact
<1>2. UNCHANGED <<row, writer, writes, light, miss, content, parsed>> /\ rest' = Awake
  BY DEF Lookup, caches
<1>3. crossed' \in [Writers -> BOOLEAN] /\ \A w \in Writers : ~Alone(w)'
  <2>1. \A w \in Writers : (crossed[w] \/ writer[w].pc # "idle") \in BOOLEAN
    OBVIOUS
  <2>2. crossed' \in [Writers -> BOOLEAN]
    BY <2>1, Zenon DEF Lookup, Crossing
  <2>3. \A w \in Writers : ~Alone(w)'
    BY DEF Lookup, Crossing, Alone
  <2> QED
    BY <2>2, <2>3
<1>4. /\ reader' \in [Readers -> ReaderState]
      /\ \A x \in Readers \ {r} : reader'[x] = reader[x]
      /\ ReaderInv(r)'
  <2>1. CASE light # Uncached /\ reader' = [reader EXCEPT ![r].pc = "found", ![r].hand = light]
    <3>1. /\ reader' \in [Readers -> ReaderState]
          /\ \A x \in Readers \ {r} : reader'[x] = reader[x]
          /\ reader'[r].pc = "found" /\ reader'[r].hand = light
      BY <1>1, <2>1, ReaderFinds
    <3> QED
      BY <1>1, <2>1, <3>1 DEF ReaderInv
  <2>2. CASE reader' = [reader EXCEPT ![r].pc = "query"]
    BY <1>1, <2>2, ReaderMoves DEF ReaderInv
  <2> QED
    BY <2>1, <2>2 DEF Lookup
<1> QED
  BY <1>1, <1>2, <1>3, <1>4, StepOfReader

\* A lookup under way leaves nobody alone.
LEMMA NobodyAlone ==
  ASSUME StoreInv, NEW r \in Readers, reader[r].pc # "idle", UNCHANGED <<writer, crossed>>
  PROVE  \A w \in Writers : ~Alone(w)'
<1>1. \A w \in Writers : ~Alone(w)
  BY DEF StoreInv, AloneInv
<1> QED
  BY <1>1 DEF Alone

\* The other steps of a lookup.
LEMMA FromStoreStep ==
  ASSUME StoreInv, NEW r \in Readers, FromStore(r), ~Lookup(r)
  PROVE  StoreInv'
<1>1. /\ TypeOK /\ light \in LightState /\ (light = Uncached \/ light.id \in Write)
      /\ miss \in BOOLEAN /\ content \in [Write -> Write0] /\ parsed \in [Write -> Write0]
      /\ crossed \in [Writers -> BOOLEAN]
      /\ reader[r] \in ReaderState /\ reader[r].hand \in LightState /\ reader[r].text \in Write0
      /\ row.content \in Write0 /\ LightOf(row) \in LightState
      /\ LightOf(row) = Uncached \/ LightOf(row).id \in Write
  BY DEF StoreInv, TypeOK, RowExact, ReaderState, LightState, LightOf, NoRow, Uncached
<1>2. ReaderInv(r)
  BY DEF StoreInv, RowExact, ReaderInv
<1>3. reader[r].pc # "idle" /\ UNCHANGED <<row, writer, writes, crossed>>
  BY DEF FromStore, Query, Memo, Find, Read, Keep, Parse, QueryFails
<1>4. \A w \in Writers : ~Alone(w)'
  BY <1>3, NobodyAlone
<1> DEFINE Goal ==
      /\ reader' \in [Readers -> ReaderState]
      /\ \A x \in Readers \ {r} : reader'[x] = reader[x]
      /\ ReaderInv(r)'
<1>5. ASSUME reader' = [reader EXCEPT ![r] = Idle] PROVE Goal
  BY <1>1, <1>5, ReaderRests DEF ReaderInv
<1>6. ASSUME NEW a \in {"read", "parse"}, reader' = [reader EXCEPT ![r].pc = a] PROVE Goal
  BY <1>1, <1>6, ReaderMoves DEF ReaderInv
<1>7. ASSUME NEW t \in Write0, NEW a \in {"keep", "parse"},
             reader' = [reader EXCEPT ![r].pc = a, ![r].text = t] PROVE Goal
  BY <1>1, <1>7, ReaderReads DEF ReaderInv
<1>8. ASSUME reader' = [reader EXCEPT ![r].pc = "memo", ![r].hand = LightOf(row)] PROVE Goal
  <2>1. /\ reader' \in [Readers -> ReaderState]
        /\ \A x \in Readers \ {r} : reader'[x] = reader[x]
        /\ reader'[r].pc = "memo" /\ reader'[r].hand = LightOf(row)
    BY <1>1, <1>8, ReaderFinds
  <2> QED
    BY <1>1, <2>1 DEF ReaderInv
<1>9. ASSUME reader[r].pc = "memo", reader[r].hand # Uncached,
             reader' = [reader EXCEPT ![r].pc = "found"] PROVE Goal
  <2>1. /\ reader' \in [Readers -> ReaderState]
        /\ \A x \in Readers \ {r} : reader'[x] = reader[x]
        /\ reader'[r].pc = "found" /\ reader'[r].hand = reader[r].hand
    BY <1>1, <1>9, ReaderMoves
  <2> QED
    BY <1>2, <1>9, <2>1 DEF ReaderInv
<1> HIDE DEF Goal
<1>10. Goal
  <2>1. CASE Query(r)
    BY <2>1, <1>8 DEF Query
  <2>2. CASE Memo(r)
    BY <2>2, <1>5, <1>9 DEF Memo
  <2>3. CASE Find(r)
    <3>1. content[reader[r].hand.id] \in Write0
      BY <1>1, <1>2, <2>3 DEF Find, ReaderInv
    <3> QED
      BY <2>3, <3>1, <1>5, <1>6, <1>7 DEF Find
  <2>4. CASE Read(r)
    BY <2>4, <1>1, <1>5, <1>7 DEF Read
  <2>5. CASE Keep(r)
    BY <2>5, <1>6 DEF Keep
  <2>6. CASE Parse(r)
    BY <2>6, <1>5 DEF Parse
  <2>7. CASE QueryFails(r)
    BY <2>7, <1>5 DEF QueryFails
  <2> QED
    BY <2>1, <2>2, <2>3, <2>4, <2>5, <2>6, <2>7 DEF FromStore
<1>11. rest' \in {rest, Awake, Served} \cup Failed
  BY DEF FromStore, Query, Memo, Find, Read, Keep, Parse, QueryFails
<1>12. /\ light' \in LightState /\ (light' = Uncached \/ light'.id \in Write)
       /\ miss' \in BOOLEAN
  <2>1. CASE Memo(r)
    BY <2>1, <1>1, <1>2 DEF Memo, ReaderInv
  <2>2. CASE UNCHANGED <<light, miss>>
    BY <2>2, <1>1
  <2> QED
    BY <2>1, <2>2 DEF FromStore, Query, Find, Read, Keep, Parse, QueryFails, caches
<1>13. content' \in [Write -> Write0] /\ parsed' \in [Write -> Write0]
  <2>1. CASE Keep(r)
    BY <2>1, <1>1 DEF Keep
  <2>2. CASE Parse(r)
    BY <2>2, <1>1 DEF Parse, caches
  <2>3. CASE UNCHANGED <<content, parsed>>
    BY <2>3, <1>1
  <2> QED
    BY <2>1, <2>2, <2>3 DEF FromStore, Query, Memo, Find, Read, QueryFails, caches
<1> QED
  BY <1>1, <1>3, <1>4, <1>10, <1>11, <1>12, <1>13, StepOfReader DEF Goal

-----------------------------------------------------------------------------
(* A write *)

WriterPlace ==
  {"idle", "get", "upsert", "clear", "fill", "commit", "update", "delete", "reclear", "done"}

\* The ways a writer moves.
LEMMA WriterMoves ==
  ASSUME TypeOK, NEW w \in Writers, NEW a \in WriterPlace, NEW i \in Write0, NEW n \in Write0,
         writer' = [writer EXCEPT ![w].pc = a, ![w].id = i, ![w].n = n]
  PROVE  /\ writer' \in [Writers -> WriterState]
         /\ \A v \in Writers \ {w} : writer'[v] = writer[v]
         /\ writer'[w].pc = a /\ writer'[w].op = writer[w].op
         /\ writer'[w].id = i /\ writer'[w].n = n
<1>1. writer \in [Writers -> WriterState]
  BY DEF TypeOK
<1> DEFINE y == [writer[w] EXCEPT !.pc = a, !.id = i, !.n = n]
<1>2. y \in WriterState /\ y.pc = a /\ y.op = writer[w].op /\ y.id = i /\ y.n = n
  BY <1>1 DEF WriterState, WriterPlace
<1>3. writer' = [writer EXCEPT ![w] = y]
  BY <1>1
<1> HIDE DEF y
<1>4. writer'[w] = y /\ \A v \in Writers \ {w} : writer'[v] = writer[v]
  BY <1>1, <1>3
<1> QED
  BY <1>1, <1>2, <1>3, <1>4

\* The same, for those that keep the write, or the row too.
LEMMA WriterTargets ==
  ASSUME TypeOK, NEW w \in Writers, NEW a \in WriterPlace, NEW i \in Write0,
         writer' = [writer EXCEPT ![w].pc = a, ![w].id = i]
  PROVE  /\ writer' \in [Writers -> WriterState]
         /\ \A v \in Writers \ {w} : writer'[v] = writer[v]
         /\ writer'[w].pc = a /\ writer'[w].op = writer[w].op
         /\ writer'[w].id = i /\ writer'[w].n = writer[w].n
<1>1. writer \in [Writers -> WriterState]
  BY DEF TypeOK
<1> DEFINE y == [writer[w] EXCEPT !.pc = a, !.id = i]
<1>2. y \in WriterState /\ y.pc = a /\ y.op = writer[w].op /\ y.id = i /\ y.n = writer[w].n
  BY <1>1 DEF WriterState, WriterPlace
<1>3. writer' = [writer EXCEPT ![w] = y]
  BY <1>1
<1> HIDE DEF y
<1>4. writer'[w] = y /\ \A v \in Writers \ {w} : writer'[v] = writer[v]
  BY <1>1, <1>3
<1> QED
  BY <1>1, <1>2, <1>3, <1>4

LEMMA WriterGoesOn ==
  ASSUME TypeOK, NEW w \in Writers, NEW a \in WriterPlace,
         writer' = [writer EXCEPT ![w].pc = a]
  PROVE  /\ writer' \in [Writers -> WriterState]
         /\ \A v \in Writers \ {w} : writer'[v] = writer[v]
         /\ writer'[w].pc = a /\ writer'[w].op = writer[w].op
         /\ writer'[w].id = writer[w].id /\ writer'[w].n = writer[w].n
<1>1. writer \in [Writers -> WriterState]
  BY DEF TypeOK
<1> DEFINE y == [writer[w] EXCEPT !.pc = a]
<1>2. y \in WriterState /\ y.pc = a /\ y.op = writer[w].op /\ y.id = writer[w].id /\ y.n = writer[w].n
  BY <1>1 DEF WriterState, WriterPlace
<1>3. writer' = [writer EXCEPT ![w] = y]
  BY <1>1
<1> HIDE DEF y
<1>4. writer'[w] = y /\ \A v \in Writers \ {w} : writer'[v] = writer[v]
  BY <1>1, <1>3
<1> QED
  BY <1>1, <1>2, <1>3, <1>4

LEMMA WriterEnds ==
  ASSUME TypeOK, NEW w \in Writers, writer' = [writer EXCEPT ![w] = NoWrite]
  PROVE  /\ writer' \in [Writers -> WriterState]
         /\ \A v \in Writers \ {w} : writer'[v] = writer[v]
         /\ writer'[w].pc = "idle"
<1>1. writer \in [Writers -> WriterState] /\ 0 \in Write0
  BY StoreAssumption DEF StoreAssumption, TypeOK, Write0
<1>2. NoWrite \in WriterState /\ NoWrite.pc = "idle"
  BY <1>1 DEF NoWrite, WriterState
<1> QED
  BY <1>1, <1>2

\* What a step of a write must show.
LEMMA StepOfWriter ==
  ASSUME StoreInv, NEW w \in Writers, UNCHANGED <<reader, parsed>>,
         row' \in [id : Write0, content : Write0, created : Write0],
         row' = NoRow \/ row'.id \in Write,
         light' \in {light, Uncached}, miss' \in BOOLEAN, content' \in [Write -> Write0],
         writes' \in Write0, rest' \in {rest, Awake, Served} \cup Failed,
         crossed' \in [Writers -> BOOLEAN],
         writer' \in [Writers -> WriterState],
         \A v \in Writers \ {w} : writer'[v] = writer[v],
         PlacesOf(w)', AloneInv', OnItsWay'
  PROVE  StoreInv'
<1>1. TypeOK /\ RowExact /\ AwakeBelowThreshold
  BY DEF StoreInv
<1>2. rest' \in RestState /\ AwakeBelowThreshold'
  BY <1>1, RestStep
<1>3. light' \in LightState
  BY <1>1, StoreAssumption DEF TypeOK, Uncached, LightState, Write0, StoreAssumption
<1>4. TypeOK'
  BY <1>1, <1>2, <1>3 DEF TypeOK
<1>5. RowExact'
  BY <1>1 DEF RowExact
<1>6. Places'
  BY DEF StoreInv, Places, PlacesOf
<1> QED
  BY <1>2, <1>4, <1>5, <1>6 DEF StoreInv

\* What is known of the writer and the row before the step.
LEMMA WriterFacts ==
  ASSUME StoreInv, NEW w \in Writers
  PROVE  /\ TypeOK /\ PlacesOf(w) /\ 0 \in Write0 /\ Write \subseteq Write0 /\ 0 \notin Write
         /\ writer[w] \in WriterState /\ writer[w].n \in Write0 /\ writer[w].id \in Write0
         /\ row \in [id : Write0, content : Write0, created : Write0]
         /\ row = NoRow \/ row.id \in Write
         /\ row.id \in Write0 /\ row.content \in Write0 /\ row.created \in Write0
         /\ miss \in BOOLEAN /\ content \in [Write -> Write0] /\ writes \in Write0
         /\ crossed \in [Writers -> BOOLEAN]
         /\ Alone(w) => Progress(w)
         /\ NoRow \in [id : Write0, content : Write0, created : Write0]
<1>1. 0 \in Write0 /\ Write \subseteq Write0 /\ 0 \notin Write
  BY StoreAssumption DEF StoreAssumption, Write, Write0
<1>2. TypeOK /\ PlacesOf(w) /\ (Alone(w) => Progress(w)) /\ (row = NoRow \/ row.id \in Write)
  BY DEF StoreInv, Places, OnItsWay, RowExact
<1>3. writer[w] \in WriterState /\ writer[w].n \in Write0 /\ writer[w].id \in Write0
  BY <1>2 DEF TypeOK, WriterState
<1>4. /\ row \in [id : Write0, content : Write0, created : Write0]
      /\ row.id \in Write0 /\ row.content \in Write0 /\ row.created \in Write0
  BY <1>2 DEF TypeOK
<1>5. /\ miss \in BOOLEAN /\ content \in [Write -> Write0] /\ writes \in Write0
      /\ crossed \in [Writers -> BOOLEAN]
  BY <1>2 DEF TypeOK
<1>6. NoRow \in [id : Write0, content : Write0, created : Write0]
  BY <1>1 DEF NoRow
<1> QED
  BY <1>1, <1>2, <1>3, <1>4, <1>5, <1>6

LEMMA BeginStep ==
  ASSUME StoreInv, NEW w \in Writers, Begin(w)
  PROVE  StoreInv'
<1>1. /\ TypeOK /\ 0 \in Write0 /\ Write \subseteq Write0
      /\ row \in [id : Write0, content : Write0, created : Write0] /\ (row = NoRow \/ row.id \in Write)
      /\ miss \in BOOLEAN /\ content \in [Write -> Write0] /\ writes \in Write0
  BY WriterFacts
<1>2. UNCHANGED <<row, light, miss, content, parsed, reader>> /\ rest' = Awake /\ writer[w].pc = "idle"
  BY DEF Begin, caches
<1>3. PICK op \in Ops :
        \/ /\ op \in {"save", "batch"} /\ writes' = writes + 1 /\ writes < MaxWrites
           /\ writer' = [writer EXCEPT ![w] = [pc |-> "upsert", op |-> op, n |-> writes', id |-> 0]]
        \/ /\ op \notin {"save", "batch"} /\ writes' = writes
           /\ writer' = [writer EXCEPT ![w] = [pc |-> "get", op |-> op, n |-> 0, id |-> 0]]
  BY DEF Begin
<1>4. writes' \in Write0 /\ (writes' = writes + 1 /\ writes < MaxWrites => writes' \in Write)
  BY <1>1, <1>3, StoreAssumption DEF StoreAssumption, Write, Write0
<1>5. /\ writer' \in [Writers -> WriterState]
      /\ \A v \in Writers \ {w} : writer'[v] = writer[v]
      /\ writer'[w].pc \in {"upsert", "get"}
      /\ PlacesOf(w)'
  <2>1. CASE /\ op \in {"save", "batch"} /\ writes' = writes + 1 /\ writes < MaxWrites
             /\ writer' = [writer EXCEPT ![w] = [pc |-> "upsert", op |-> op, n |-> writes', id |-> 0]]
    <3> DEFINE y == [pc |-> "upsert", op |-> op, n |-> writes', id |-> 0]
    <3>1. y \in WriterState /\ y.pc = "upsert" /\ y.op = op /\ y.n = writes'
      BY <1>1, <1>4 DEF WriterState
    <3> HIDE DEF y
    <3>2. writer' \in [Writers -> WriterState] /\ writer'[w] = y /\ \A v \in Writers \ {w} : writer'[v] = writer[v]
      BY <1>1, <2>1, <3>1 DEF TypeOK, y
    <3> QED
      BY <1>4, <2>1, <3>1, <3>2 DEF PlacesOf
  <2>2. CASE /\ op \notin {"save", "batch"}
             /\ writer' = [writer EXCEPT ![w] = [pc |-> "get", op |-> op, n |-> 0, id |-> 0]]
    <3> DEFINE y == [pc |-> "get", op |-> op, n |-> 0, id |-> 0]
    <3>1. y \in WriterState /\ y.pc = "get" /\ y.op = op
      BY <1>1, <1>4 DEF WriterState
    <3> HIDE DEF y
    <3>2. writer' \in [Writers -> WriterState] /\ writer'[w] = y /\ \A v \in Writers \ {w} : writer'[v] = writer[v]
      BY <1>1, <2>2, <3>1 DEF TypeOK, y
    <3>3. op \in {"update", "delete"}
      BY <2>2, StoreAssumption DEF StoreAssumption
    <3> QED
      BY <3>1, <3>2, <3>3 DEF PlacesOf
  <2> QED
    BY <1>3, <2>1, <2>2
<1> DEFINE crossing == Busied(w) \/ \E r \in Readers : reader[r].pc # "idle"
<1>6. crossed' = [Crossing EXCEPT ![w] = crossing]
  BY DEF Begin
<1>7. crossed' \in [Writers -> BOOLEAN]
  <2>1. \A v \in Writers : (crossed[v] \/ writer[v].pc # "idle") \in BOOLEAN
    OBVIOUS
  <2>2. Crossing \in [Writers -> BOOLEAN] /\ crossing \in BOOLEAN
    BY <2>1, Zenon DEF Crossing
  <2> HIDE DEF crossing
  <2> QED
    BY <1>6, <2>2
<1>8. /\ \A v \in Writers \ {w} : crossed'[v] = (crossed[v] \/ writer[v].pc # "idle")
      /\ crossed'[w] = crossing
  BY <1>6 DEF Crossing
<1>9. ASSUME NEW v \in Writers, Alone(v)'
      PROVE  v = w /\ ~crossing
  BY <1>5, <1>8, <1>9 DEF Alone
<1>10. AloneInv'
  BY <1>2, <1>5, <1>9 DEF AloneInv, Busied
<1>11. Progress(w)'
  BY <1>5 DEF Progress
<1>12. OnItsWay'
  BY <1>9, <1>11 DEF OnItsWay
<1> QED
  BY <1>1, <1>2, <1>4, <1>5, <1>7, <1>10, <1>12, StepOfWriter

LEMMA GetStep ==
  ASSUME StoreInv, NEW w \in Writers, Get(w)
  PROVE  StoreInv'
<1>1. UNCHANGED <<row, light, miss, content, parsed, reader, crossed>> /\ rest' = Served /\ writer[w].pc = "get"
  BY DEF Get, caches
<1>2. row.id \in Write /\ row.id \in Write0 /\ writer[w].op \in {"update", "delete"}
  BY <1>1, WriterFacts DEF Get, PlacesOf
<1>3. PICK n \in Write0 :
        /\ writer' = [writer EXCEPT ![w].pc = "clear", ![w].id = row.id, ![w].n = n]
        /\ writes' \in Write0
  <2>1. CASE writes < MaxWrites /\ writes' = writes + 1
             /\ writer' = [writer EXCEPT ![w].pc = "clear", ![w].id = row.id, ![w].n = writes']
    <3>1. writes' \in Write0
      BY <2>1, WriterFacts, StoreAssumption DEF StoreAssumption, Write0
    <3> QED
      BY <2>1, <3>1
  <2>2. CASE /\ writer' = [writer EXCEPT ![w].pc = "clear", ![w].id = row.id, ![w].n = row.content]
             /\ UNCHANGED writes
    BY <2>2, WriterFacts
  <2> QED
    BY <2>1, <2>2 DEF Get
<1>4. /\ writer' \in [Writers -> WriterState]
      /\ \A v \in Writers \ {w} : writer'[v] = writer[v]
      /\ writer'[w].pc = "clear" /\ writer'[w].op = writer[w].op
      /\ writer'[w].id = row.id /\ writer'[w].n = n
  BY <1>2, <1>3, WriterFacts, WriterMoves DEF WriterPlace
<1>5. PlacesOf(w)'
  BY <1>2, <1>4 DEF PlacesOf
<1>6. Progress(w)'
  BY <1>1, <1>2, <1>4 DEF Progress, Target
<1>7. AloneInv' /\ OnItsWay'
  BY <1>1, <1>4, <1>6, WriterStep
<1> QED
  BY <1>1, <1>3, <1>4, <1>5, <1>7, WriterFacts, StepOfWriter

LEMMA UpsertStep ==
  ASSUME StoreInv, NEW w \in Writers, Upsert(w)
  PROVE  StoreInv'
<1>1. UNCHANGED <<light, miss, content, parsed, reader, writes, crossed>> /\ writer[w].pc = "upsert"
  BY DEF Upsert, caches
<1>2. writer[w].op \in {"save", "batch"} /\ writer[w].n \in Write
  BY <1>1, WriterFacts DEF PlacesOf
<1> DEFINE new == Upserted(writer[w].n)
<1>3. /\ new \in [id : Write0, content : Write0, created : Write0]
      /\ new.id \in Write /\ new.id \in Write0 /\ new.content = writer[w].n
  BY <1>2, WriterFacts DEF Upserted
<1>4. /\ writer' = [writer EXCEPT ![w].pc = "clear", ![w].id = new.id]
      /\ \/ writer[w].op = "save" /\ row' = new /\ rest' = Served
         \/ writer[w].op # "save" /\ row' = row /\ rest' = rest
  BY DEF Upsert
<1> HIDE DEF new
<1>5. /\ writer' \in [Writers -> WriterState]
      /\ \A v \in Writers \ {w} : writer'[v] = writer[v]
      /\ writer'[w].pc = "clear" /\ writer'[w].op = writer[w].op
      /\ writer'[w].id = new.id /\ writer'[w].n = writer[w].n
  BY <1>3, <1>4, WriterFacts, WriterTargets DEF WriterPlace
<1>6. PlacesOf(w)'
  BY <1>2, <1>3, <1>5 DEF PlacesOf
<1>7. Target(w)'
  <2>1. CASE writer[w].op = "save"
    BY <1>3, <1>4, <1>5, <2>1 DEF Target
  <2>2. CASE writer[w].op = "batch"
    <3>1. row' = row /\ Upserted(writer[w].n)' = Upserted(writer[w].n)'
      BY <1>4, <2>2
    <3>2. writer'[w].id = Upserted(writer[w].n).id /\ writer'[w].n = writer[w].n
      BY <1>5 DEF new
    <3> QED
      BY <1>5, <2>2, <3>1, <3>2 DEF Target, Upserted
  <2> QED
    BY <1>2, <2>1, <2>2
<1>8. Progress(w)'
  BY <1>5, <1>7 DEF Progress
<1>9. AloneInv' /\ OnItsWay'
  BY <1>1, <1>5, <1>8, WriterStep
<1>10. row' \in [id : Write0, content : Write0, created : Write0] /\ (row' = NoRow \/ row'.id \in Write)
  BY <1>3, <1>4, WriterFacts
<1> QED
  BY <1>1, <1>4, <1>5, <1>6, <1>9, <1>10, WriterFacts, StepOfWriter

LEMMA ClearStep ==
  ASSUME StoreInv, NEW w \in Writers, Clear(w)
  PROVE  StoreInv'
<1> DEFINE a == IF writer[w].pc = "clear" THEN AfterClear[writer[w].op] ELSE "done"
<1>1. /\ UNCHANGED <<row, parsed, rest, reader, writes, crossed>> /\ writer[w].pc \in {"clear", "reclear"}
      /\ light' = Uncached /\ miss' = FALSE /\ content' = [content EXCEPT ![writer[w].id] = 0]
      /\ writer' = [writer EXCEPT ![w].pc = a]
  BY DEF Clear
<1>2. PlacesOf(w) /\ writer[w].id \in Write /\ writer[w].op \in Ops \cup {"none"}
  BY <1>1, WriterFacts DEF PlacesOf, WriterState
<1>3. a = IF writer[w].pc = "reclear" THEN "done"
          ELSE IF writer[w].op \in {"save", "batch"} THEN "fill" ELSE writer[w].op
  BY <1>1, <1>2, StoreAssumption DEF StoreAssumption, PlacesOf, AfterClear
<1>4. a \in {"done", "fill", "update", "delete"} /\ a \in WriterPlace
  BY <1>1, <1>2, <1>3, StoreAssumption DEF StoreAssumption, PlacesOf, WriterPlace
<1> HIDE DEF a
<1>5. /\ writer' \in [Writers -> WriterState]
      /\ \A v \in Writers \ {w} : writer'[v] = writer[v]
      /\ writer'[w].pc = a /\ writer'[w].op = writer[w].op
      /\ writer'[w].id = writer[w].id /\ writer'[w].n = writer[w].n
  BY <1>1, <1>4, WriterFacts, WriterGoesOn
<1>6. PlacesOf(w)'
  <2>1. /\ a = "fill" => writer[w].op \in {"save", "batch"} /\ writer[w].n \in Write
        /\ a = "update" => writer[w].op = "update"
        /\ a = "delete" => writer[w].op = "delete"
    <3>1. CASE writer[w].pc = "reclear"
      BY <1>3, <3>1
    <3>2. CASE writer[w].pc = "clear" /\ writer[w].op \in {"save", "batch"}
      <4>1. a = "fill"
        BY <1>3, <3>2
      <4>2. writer[w].n \in Write
        BY <1>2, <3>2 DEF PlacesOf
      <4> QED
        BY <3>2, <4>1, <4>2
    <3>3. CASE writer[w].pc = "clear" /\ writer[w].op \notin {"save", "batch"}
      <4>1. a = writer[w].op /\ a \in {"update", "delete"}
        <5>1. a = writer[w].op /\ writer[w].op \in Ops /\ Ops \subseteq {"save", "batch", "update", "delete"}
          BY <1>2, <1>3, <3>3, StoreAssumption DEF StoreAssumption, PlacesOf
        <5> QED
          BY <3>3, <5>1
      <4> QED
        BY <4>1
    <3> QED
      BY <1>1, <3>1, <3>2, <3>3
  <2> QED
    BY <1>2, <1>4, <1>5, <2>1 DEF PlacesOf
<1>7. content'[writer[w].id] = 0 /\ content' \in [Write -> Write0]
  BY <1>1, <1>2, WriterFacts
<1>8. ASSUME Alone(w) PROVE Progress(w)'
  <2>1. Target(w)
    BY <1>1, <1>8, WriterFacts DEF Progress
  <2>2. Target(w)'
    BY <1>1, <1>5, <2>1 DEF Target, Upserted
  <2>3. Cleared'
    BY <1>1 DEF Cleared
  <2>4. a = "done" => Coherent'
    <3>1. a = "done" => writer[w].pc = "reclear"
      BY <1>1, <1>2, <1>3, StoreAssumption DEF StoreAssumption
    <3>2. a = "done" => row.id = writer[w].id
      BY <1>2, <2>1, <3>1 DEF Target, PlacesOf
    <3> QED
      BY <1>1, <1>7, <3>2 DEF Coherent
  <2> QED
    BY <1>4, <1>5, <1>7, <2>2, <2>3, <2>4 DEF Progress
<1>9. AloneInv' /\ OnItsWay'
  BY <1>1, <1>5, <1>8, WriterStep
<1> QED
  BY <1>1, <1>5, <1>6, <1>7, <1>9, WriterFacts, StepOfWriter

LEMMA FillStep ==
  ASSUME StoreInv, NEW w \in Writers, Fill(w)
  PROVE  StoreInv'
<1> DEFINE a == IF writer[w].op = "save" THEN "done" ELSE "commit"
<1>1. /\ UNCHANGED <<row, light, miss, parsed, rest, reader, writes, crossed>> /\ writer[w].pc = "fill"
      /\ content' = [content EXCEPT ![writer[w].id] = writer[w].n]
      /\ writer' = [writer EXCEPT ![w].pc = a]
  BY DEF Fill
<1>2. writer[w].id \in Write /\ writer[w].n \in Write0 /\ writer[w].n \in Write /\ writer[w].op \in {"save", "batch"}
  BY <1>1, WriterFacts DEF PlacesOf
<1>3. a \in WriterPlace
  BY DEF WriterPlace
<1>4. /\ a = "done" => writer[w].op = "save"
      /\ a = "commit" => writer[w].op = "batch"
      /\ a \in {"done", "commit"}
  BY <1>2
<1> HIDE DEF a
<1>5. /\ writer' \in [Writers -> WriterState]
      /\ \A v \in Writers \ {w} : writer'[v] = writer[v]
      /\ writer'[w].pc = a /\ writer'[w].op = writer[w].op
      /\ writer'[w].id = writer[w].id /\ writer'[w].n = writer[w].n
  BY <1>1, <1>3, WriterFacts, WriterGoesOn
<1>6. PlacesOf(w)'
  BY <1>2, <1>4, <1>5 DEF PlacesOf
<1>7. content'[writer[w].id] = writer[w].n /\ content' \in [Write -> Write0]
  BY <1>1, <1>2, WriterFacts
<1>8. ASSUME Alone(w) PROVE Progress(w)'
  <2>1. Target(w) /\ Cleared
    BY <1>1, <1>8, WriterFacts DEF Progress
  <2>2. Target(w)'
    BY <1>1, <1>5, <2>1 DEF Target, Upserted
  <2>3. Cleared'
    BY <1>1, <2>1 DEF Cleared
  <2>4. a = "done" => Coherent'
    BY <1>1, <1>4, <1>7, <2>1 DEF Coherent, Cleared, Target
  <2> QED
    BY <1>4, <1>5, <1>7, <2>2, <2>3, <2>4 DEF Progress
<1>9. AloneInv' /\ OnItsWay'
  BY <1>1, <1>5, <1>8, WriterStep
<1> QED
  BY <1>1, <1>5, <1>6, <1>7, <1>9, WriterFacts, StepOfWriter

LEMMA CommitStep ==
  ASSUME StoreInv, NEW w \in Writers, Commit(w)
  PROVE  StoreInv'
<1>1. /\ UNCHANGED <<light, miss, content, parsed, reader, writes, crossed>> /\ writer[w].pc = "commit"
      /\ row' = Upserted(writer[w].n) /\ rest' = Served
      /\ writer' = [writer EXCEPT ![w].pc = "done"]
  BY DEF Commit, caches
<1>2. writer[w].op = "batch" /\ writer[w].n \in Write
  BY <1>1, WriterFacts DEF PlacesOf
<1>3. /\ row' \in [id : Write0, content : Write0, created : Write0]
      /\ row'.id \in Write /\ row'.content = writer[w].n
  BY <1>1, <1>2, WriterFacts DEF Upserted
<1>4. /\ writer' \in [Writers -> WriterState]
      /\ \A v \in Writers \ {w} : writer'[v] = writer[v]
      /\ writer'[w].pc = "done"
  BY <1>1, WriterFacts, WriterGoesOn DEF WriterPlace
<1>5. PlacesOf(w)'
  BY <1>4 DEF PlacesOf
<1>6. ASSUME Alone(w) PROVE Progress(w)'
  <2>1. Target(w) /\ Cleared /\ content[writer[w].id] \in {0, writer[w].n}
    BY <1>1, <1>6, WriterFacts DEF Progress
  <2>2. row'.id = writer[w].id
    BY <1>1, <1>2, <2>1 DEF Target
  <2>3. Coherent'
    BY <1>1, <1>3, <2>1, <2>2 DEF Coherent, Cleared
  <2> QED
    BY <1>4, <2>3 DEF Progress
<1>7. AloneInv' /\ OnItsWay'
  BY <1>1, <1>4, <1>6, WriterStep
<1> QED
  BY <1>1, <1>3, <1>4, <1>5, <1>7, WriterFacts, StepOfWriter

LEMMA UpdateStep ==
  ASSUME StoreInv, NEW w \in Writers, Update(w)
  PROVE  StoreInv'
<1>1. /\ UNCHANGED <<light, miss, content, parsed, reader, writes, crossed>> /\ writer[w].pc = "update"
      /\ row' = IF row.id = writer[w].id THEN [row EXCEPT !.content = writer[w].n] ELSE row
      /\ rest' = Served /\ writer' = [writer EXCEPT ![w].pc = "reclear"]
  BY DEF Update, caches
<1>2. writer[w].op = "update" /\ writer[w].id \in Write
  BY <1>1, WriterFacts DEF PlacesOf
<1>3. /\ row' \in [id : Write0, content : Write0, created : Write0]
      /\ row'.id = row.id /\ (row' = row \/ row'.id = writer[w].id)
  <2>1. CASE row.id = writer[w].id
    BY <1>1, <2>1, WriterFacts
  <2>2. CASE row.id # writer[w].id
    BY <1>1, <2>2, WriterFacts
  <2> QED
    BY <2>1, <2>2
<1>4. row' = NoRow \/ row'.id \in Write
  BY <1>2, <1>3, WriterFacts
<1>5. /\ writer' \in [Writers -> WriterState]
      /\ \A v \in Writers \ {w} : writer'[v] = writer[v]
      /\ writer'[w].pc = "reclear" /\ writer'[w].op = writer[w].op /\ writer'[w].id = writer[w].id
  BY <1>1, WriterFacts, WriterGoesOn DEF WriterPlace
<1>6. PlacesOf(w)'
  BY <1>2, <1>5 DEF PlacesOf
<1>7. ASSUME Alone(w) PROVE Progress(w)'
  <2>1. Target(w)
    BY <1>1, <1>7, WriterFacts DEF Progress
  <2>2. Target(w)'
    BY <1>2, <1>3, <1>5, <2>1 DEF Target
  <2> QED
    BY <1>5, <2>2 DEF Progress
<1>8. AloneInv' /\ OnItsWay'
  BY <1>1, <1>5, <1>7, WriterStep
<1> QED
  BY <1>1, <1>3, <1>4, <1>5, <1>6, <1>8, WriterFacts, StepOfWriter

LEMMA DeleteStep ==
  ASSUME StoreInv, NEW w \in Writers, Delete(w)
  PROVE  StoreInv'
<1>1. /\ UNCHANGED <<light, miss, content, parsed, reader, writes, crossed>> /\ writer[w].pc = "delete"
      /\ row' = IF row.id = writer[w].id THEN NoRow ELSE row
      /\ rest' = Served /\ writer' = [writer EXCEPT ![w].pc = "done"]
  BY DEF Delete, caches
<1>2. writer[w].op = "delete"
  BY <1>1, WriterFacts DEF PlacesOf
<1>3. row' \in [id : Write0, content : Write0, created : Write0] /\ (row' = NoRow \/ row'.id \in Write)
  BY <1>1, WriterFacts
<1>4. /\ writer' \in [Writers -> WriterState]
      /\ \A v \in Writers \ {w} : writer'[v] = writer[v]
      /\ writer'[w].pc = "done"
  BY <1>1, WriterFacts, WriterGoesOn DEF WriterPlace
<1>5. PlacesOf(w)'
  BY <1>4 DEF PlacesOf
<1>6. ASSUME Alone(w) PROVE Progress(w)'
  <2>1. Target(w) /\ Cleared
    BY <1>1, <1>6, WriterFacts DEF Progress
  <2>2. row' = NoRow
    BY <1>1, <1>2, <2>1 DEF Target
  <2>3. Coherent'
    BY <1>1, <2>1, <2>2 DEF Coherent, Cleared
  <2> QED
    BY <1>4, <2>3 DEF Progress
<1>7. AloneInv' /\ OnItsWay'
  BY <1>1, <1>4, <1>6, WriterStep
<1> QED
  BY <1>1, <1>3, <1>4, <1>5, <1>7, WriterFacts, StepOfWriter

\* The operation is over, one way or the other.
LEMMA EndStep ==
  ASSUME StoreInv, NEW w \in Writers, Return(w) \/ WriteFails(w)
  PROVE  StoreInv'
<1>1. /\ UNCHANGED <<row, light, miss, content, parsed, reader, writes>> /\ writer[w].pc # "idle"
      /\ writer' = [writer EXCEPT ![w] = NoWrite] /\ crossed' = [crossed EXCEPT ![w] = FALSE]
      /\ rest' \in {rest} \cup Failed
  BY DEF Return, WriteFails, caches
<1>2. /\ writer' \in [Writers -> WriterState]
      /\ \A v \in Writers \ {w} : writer'[v] = writer[v]
      /\ writer'[w].pc = "idle"
  BY <1>1, WriterFacts, WriterEnds
<1>3. crossed' \in [Writers -> BOOLEAN] /\ \A v \in Writers \ {w} : crossed'[v] = crossed[v]
  BY <1>1, WriterFacts
<1>4. PlacesOf(w)' /\ Progress(w)'
  BY <1>2 DEF PlacesOf, Progress
<1>5. AloneInv' /\ OnItsWay'
  BY <1>1, <1>2, <1>3, <1>4, WriterStep
<1> QED
  BY <1>1, <1>2, <1>3, <1>4, <1>5, WriterFacts, StepOfWriter

-----------------------------------------------------------------------------
(* The clock and the caches *)

LEMMA CooldownStep ==
  ASSUME StoreInv, CooldownOver
  PROVE  StoreInv'
<1>1. /\ UNCHANGED <<row, light, miss, content, parsed, reader, writer, writes, crossed>>
      /\ rest.open /\ rest' = [rest EXCEPT !.over = TRUE]
  BY DEF CooldownOver, caches
<1>2. rest' \in RestState /\ AwakeBelowThreshold'
  BY <1>1, RestStep DEF StoreInv
<1>3. TypeOK' /\ RowExact'
  BY <1>1, <1>2 DEF StoreInv, TypeOK, RowExact
<1>4. \A w \in Writers : Progress(w) => Progress(w)'
  BY <1>1 DEF Progress, Target, Upserted, Cleared, Coherent
<1> QED
  BY <1>1, <1>2, <1>3, <1>4, NobodysStep DEF StoreInv

LEMMA ForgetStep ==
  ASSUME StoreInv, Forget
  PROVE  StoreInv'
<1>1. UNCHANGED <<row, rest, reader, writer, writes, crossed>>
  BY DEF Forget
<1>2. TypeOK /\ 0 \in Write0
  BY StoreAssumption DEF StoreAssumption, StoreInv, Write0
<1>3. /\ light' \in {light, Uncached} /\ (miss' = miss \/ miss' = FALSE)
      /\ content' \in [Write -> Write0] /\ \A i \in Write : content'[i] \in {0, content[i]}
      /\ parsed' \in [Write -> Write0]
  BY <1>2 DEF Forget, TypeOK
<1>4. TypeOK' /\ RowExact' /\ AwakeBelowThreshold'
  <2>1. light' \in LightState
    BY <1>2, <1>3 DEF TypeOK, Uncached, LightState
  <2>2. TypeOK'
    BY <1>1, <1>2, <1>3, <2>1 DEF TypeOK
  <2>3. RowExact' /\ AwakeBelowThreshold'
    BY <1>1, <1>3 DEF StoreInv, RowExact, AwakeBelowThreshold
  <2> QED
    BY <2>2, <2>3
<1>5. ASSUME NEW w \in Writers, Progress(w) PROVE Progress(w)'
  <2>1. /\ writer[w].pc \in {"fill", "commit"} => writer[w].id \in Write
        /\ row = NoRow \/ row.id \in Write
    BY DEF StoreInv, RowExact, Places, PlacesOf
  <2>2. Target(w) => Target(w)'
    BY <1>1 DEF Target, Upserted
  <2>3. Cleared => Cleared'
    BY <1>3 DEF Cleared
  <2>4. Coherent => Coherent'
    BY <1>1, <1>3, <2>1 DEF Coherent
  <2>5. /\ writer[w].pc = "fill" => content'[writer[w].id] = 0
        /\ writer[w].pc = "commit" => content'[writer[w].id] \in {0, writer[w].n}
    BY <1>3, <1>5, <2>1 DEF Progress
  <2> QED
    BY <1>1, <1>5, <2>2, <2>3, <2>4, <2>5 DEF Progress
<1> QED
  BY <1>1, <1>4, <1>5, NobodysStep DEF StoreInv

-----------------------------------------------------------------------------
(* The theorems *)

LEMMA InitInv == Init => StoreInv
<1> SUFFICES ASSUME Init PROVE StoreInv
  OBVIOUS
<1>1. 0 \in Write0 /\ CbThreshold \in Nat \ {0}
  BY StoreAssumption DEF StoreAssumption, Write0
<1>2. Idle \in ReaderState /\ NoWrite \in WriterState /\ Uncached \in LightState
  BY <1>1 DEF Idle, ReaderState, NoWrite, WriterState, Uncached, LightState
<1>3. TypeOK
  <2>1. row \in [id : Write0, content : Write0, created : Write0]
    BY <1>1 DEF Init, NoRow
  <2>2. rest \in RestState
    BY <1>1 DEF Init, RestState
  <2>3. /\ reader \in [Readers -> ReaderState] /\ writer \in [Writers -> WriterState]
        /\ crossed \in [Writers -> BOOLEAN] /\ content \in [Write -> Write0] /\ parsed \in [Write -> Write0]
    BY <1>1, <1>2 DEF Init
  <2> QED
    BY <1>1, <1>2, <2>1, <2>2, <2>3 DEF Init, TypeOK
<1>4. RowExact /\ Places /\ AwakeBelowThreshold
  BY <1>1 DEF Init, RowExact, Places, PlacesOf, AwakeBelowThreshold, Idle, NoWrite
<1>5. \A w \in Writers : ~Alone(w)
  BY DEF Init, Alone, NoWrite
<1> QED
  BY <1>3, <1>4, <1>5 DEF StoreInv, AloneInv, OnItsWay

LEMMA NextInv == StoreInv /\ [Next]_vars => StoreInv'
<1> SUFFICES ASSUME StoreInv, [Next]_vars PROVE StoreInv'
  OBVIOUS
<1>1. ASSUME NEW r \in Readers, FromStore(r) PROVE StoreInv'
  BY <1>1, LookupStep, FromStoreStep
<1>2. ASSUME NEW w \in Writers, WriteRow(w) PROVE StoreInv'
  BY <1>2, BeginStep, GetStep, UpsertStep, ClearStep, FillStep, CommitStep, UpdateStep, DeleteStep, EndStep
     DEF WriteRow
<1>3. CASE CooldownOver
  BY <1>3, CooldownStep
<1>4. CASE Forget
  BY <1>4, ForgetStep
<1>5. CASE UNCHANGED vars
  <2>1. UNCHANGED <<row, light, miss, content, parsed, rest, reader, writer, writes, crossed>>
    BY <1>5 DEF vars, caches
  <2>2. TypeOK' /\ RowExact' /\ AwakeBelowThreshold'
    BY <2>1 DEF StoreInv, TypeOK, RowExact, AwakeBelowThreshold
  <2>3. \A w \in Writers : Progress(w) => Progress(w)'
    BY <2>1 DEF Progress, Target, Upserted, Cleared, Coherent
  <2> QED
    BY <2>1, <2>2, <2>3, NobodysStep DEF StoreInv
<1> QED
  BY <1>1, <1>2, <1>3, <1>4, <1>5 DEF Next

LEMMA AlwaysInv == Spec => []StoreInv
BY InitInv, NextInv, PTL DEF Spec

\* Types of the row, the caches and what every operation has in hand.
THEOREM TypeCorrect == Spec => []TypeOK
<1>1. StoreInv => TypeOK
  BY DEF StoreInv
<1> QED
  BY <1>1, AlwaysInv, PTL

\* Whatever the caches held, a write that nobody crosses leaves them in
\* agreement with the database (store.go:799-842, 845-922, 993-1029;
\* admin.go:331-415).
THEOREM UndisturbedWritesHeal == Spec => []UndisturbedWriteIsSeen
<1>1. StoreInv => UndisturbedWriteIsSeen
  BY DEF StoreInv, OnItsWay, Progress, Alone, UndisturbedWriteIsSeen
<1> QED
  BY <1>1, AlwaysInv, PTL

\* The store works only with its count of errors below the threshold
\* (store.go:305-326, 367-378).
THEOREM AwakensClean == Spec => []AwakeBelowThreshold
<1>1. StoreInv => AwakeBelowThreshold
  BY DEF StoreInv
<1> QED
  BY <1>1, AlwaysInv, PTL

-----------------------------------------------------------------------------
(***************************************************************************)
(* Rows: for any requests, lookups and full-text index, the caches agree   *)
(* with the table under a row's own keys. The invariant carries the rows'  *)
(* files: a save that replaces a row replaces one of the same title and    *)
(* ids, whose keys it forgets.                                             *)
(***************************************************************************)

\* A file is named after the title and the ids of its row, which a write of
\* the same file therefore shares.
Filed(r) == \E ext : r.file = CanonicalFilename(r, ext)

\* The entries of the keys K are gone.
Forgot(C, K) == [k \in Lookups |-> IF k \in K THEN {} ELSE C[k]]

\* The parts of OwnKeysAgree, of any table, cache and memo.
CachedAgree(T, C) == \A k \in Lookups : \A r \in C[k] : k \in KeysOfRow(r) => r \in T
MissedAgree(T, M) ==
  \A r \in T : \A k \in M \cap KeysOfRow(r) : k[1] = "user" /\ r.source # "lyricsplus"
Agrees(T, C, M) ==
  CachedAgree(T, C) /\ MissedAgree(T, M) /\ \A r \in T : Filed(r)

RowsInv == Agrees(table, cached, missed) /\ cached = [k \in Lookups |-> cached[k]]

State(T, C, M, N) == [table |-> T, cached |-> C, missed |-> M, counts |-> N]

\* Rows may be replaced if the keys of the old ones and of the new ones are
\* forgotten.
LEMMA ReplacedAgree ==
  ASSUME NEW T, NEW T2, NEW C, NEW M, NEW K, Agrees(T, C, M),
         \A r \in T \ T2 : KeysOfRow(r) \subseteq K,
         \A r \in T2 \ T : KeysOfRow(r) \subseteq K /\ Filed(r)
  PROVE  Agrees(T2, Forgot(C, K), M \ K)
<1>1. CachedAgree(T2, Forgot(C, K))
  <2> SUFFICES ASSUME NEW k \in Lookups, NEW r \in Forgot(C, K)[k], k \in KeysOfRow(r)
               PROVE  r \in T2
    BY DEF CachedAgree
  <2>1. k \notin K /\ r \in C[k]
    BY DEF Forgot
  <2> QED
    BY <2>1 DEF Agrees, CachedAgree
<1>2. MissedAgree(T2, M \ K)
  <2> SUFFICES ASSUME NEW r \in T2, NEW k \in (M \ K) \cap KeysOfRow(r)
               PROVE  k[1] = "user" /\ r.source # "lyricsplus"
    BY DEF MissedAgree
  <2>1. r \in T
    OBVIOUS
  <2> QED
    BY <2>1 DEF Agrees, MissedAgree
<1>3. \A r \in T2 : Filed(r)
  BY DEF Agrees
<1> QED
  BY <1>1, <1>2, <1>3 DEF Agrees

\* Forgetting an answer is always allowed.
LEMMA FewerAgree ==
  ASSUME NEW T, NEW C, NEW M, NEW C2, NEW M2, Agrees(T, C, M),
         \A k \in Lookups : C2[k] \subseteq C[k], M2 \subseteq M
  PROVE  Agrees(T, C2, M2)
BY DEF Agrees, CachedAgree, MissedAgree

LEMMA ForgetShrinks ==
  ASSUME NEW C, NEW K, NEW k \in Lookups
  PROVE  Forgot(C, K)[k] \subseteq C[k]
BY DEF Forgot

LEMMA ForgetBoth ==
  ASSUME NEW C, NEW K, NEW L
  PROVE  Forgot(Forgot(C, K), L) = Forgot(C, K \cup L)
BY DEF Forgot

\* What the operations do to a state.
LEMMA WithRowsState ==
  ASSUME NEW T, NEW C, NEW M, NEW N, NEW D, NEW E
  PROVE  WithRows(State(T, C, M, N), D, E) = State(D, C, M, E)
BY DEF WithRows, State

LEMMA InvalidateForgets ==
  ASSUME NEW T, NEW C, NEW M, NEW N, NEW R
  PROVE  Invalidate(State(T, C, M, N), R)
           = State(T, Forgot(C, UNION {KeysOfRow(r) : r \in R}),
                   M \ UNION {KeysOfRow(r) : r \in R}, N)
<1> DEFINE keys == UNION {KeysOfRow(r) : r \in R}
<1>1. Invalidate(State(T, C, M, N), R) = WithoutKeys(State(T, C, M, N), keys)
  BY DEF Invalidate
<1> HIDE DEF keys
<1>2. WithoutKeys(State(T, C, M, N), keys) = State(T, Forgot(C, keys), M \ keys, N)
  BY DEF WithoutKeys, State, Forgot
<1> QED
  BY <1>1, <1>2 DEF keys

LEMMA KeysOfOne ==
  ASSUME NEW r
  PROVE  UNION {KeysOfRow(s) : s \in {r}} = KeysOfRow(r)
OBVIOUS

\* Rows of the same file have the same keys.
LEMMA SameFileSameKeys ==
  ASSUME NEW r, NEW o, Filed(r), Filed(o), r.file = o.file
  PROVE  KeysOfRow(r) = KeysOfRow(o)
<1>1. r.title = o.title /\ r.isrc = o.isrc /\ r.plat = o.plat
  BY DEF Filed, CanonicalFilename
<1> QED
  BY <1>1 DEF KeysOfRow

\* What a save leaves agrees, and it has only forgotten answers.
LEMMA SaveAgrees ==
  ASSUME NEW T, NEW C, NEW M, NEW N, NEW r, Agrees(T, C, M)
  PROVE  \E T2, C2, M2, N2 :
           /\ SaveOne(State(T, C, M, N), r) = State(T2, C2, M2, N2)
           /\ Agrees(T2, C2, M2)
           /\ C2 = [k \in Lookups |-> C2[k]]
           /\ \A k \in Lookups : C2[k] \subseteq C[k]
           /\ M2 \subseteq M
<1> DEFINE st == State(T, C, M, N)
           name == CanonicalFilename(r, Ext(r.source))
           same == {o \in T : o.file = name /\ o.source = r.source}
           id == IF same = {} THEN N.id + 1 ELSE (CHOOSE o \in same : TRUE).id
           new == [title |-> r.title, isrc |-> r.isrc, plat |-> r.plat,
                   source |-> r.source, id |-> id, file |-> name,
                   version |-> N.version + 1]
           T2 == (T \ same) \cup {new}
           K == KeysOfRow(new)
           N2 == [id |-> IF same = {} THEN id ELSE N.id, version |-> N.version + 1]
<1>1. SaveOne(st, r) = Invalidate(State(T2, C, M, N2), {new})
  <2> DEFINE to == WithRows(st, T2, N2)
  <2>1. SaveOne(st, r) = Invalidate(to, {new})
    <3>1. st.table = T /\ st.counts = N
      BY DEF State
    <3> HIDE DEF st
    <3> QED
      BY <3>1 DEF SaveOne
  <2>2. to = State(T2, C, M, N2)
    <3> HIDE DEF T2, N2
    <3> QED
      BY WithRowsState
  <2> QED
    BY <2>1, <2>2
<1>2. Filed(new)
  <2>1. CanonicalFilename(new, Ext(r.source)) = name
    BY DEF CanonicalFilename
  <2> QED
    BY <2>1 DEF Filed
<1>3. \A o \in T \ T2 : KeysOfRow(o) \subseteq K
  <2> TAKE o \in T \ T2
  <2>1. o.file = new.file /\ Filed(o)
    BY DEF Agrees
  <2>2. KeysOfRow(o) = KeysOfRow(new)
    BY <1>2, <2>1, SameFileSameKeys
  <2> QED
    BY <2>2
<1>4. \A o \in T2 \ T : KeysOfRow(o) \subseteq K /\ Filed(o)
  BY <1>2
<1> HIDE DEF st, new, T2, N2
<1>5. Agrees(T2, Forgot(C, K), M \ K)
  <2> HIDE DEF K
  <2> QED
    BY <1>3, <1>4, ReplacedAgree
<1>6. Invalidate(State(T2, C, M, N2), {new}) = State(T2, Forgot(C, K), M \ K, N2)
  BY InvalidateForgets, KeysOfOne
<1>7. /\ \A k \in Lookups : Forgot(C, K)[k] \subseteq C[k]
      /\ Forgot(C, K) = [k \in Lookups |-> Forgot(C, K)[k]]
  <2> HIDE DEF K
  <2> QED
    BY DEF Forgot
<1>8. M \ K \subseteq M
  OBVIOUS
<1>9. SaveOne(st, r) = State(T2, Forgot(C, K), M \ K, N2)
  BY <1>1, <1>6
<1> HIDE DEF K
<1> QED
  BY <1>5, <1>7, <1>8, <1>9 DEF st

\* The keys of one row are those that a lookup by its ids or its title has.
LEMMA KeyKinds ==
  ASSUME NEW r, NEW k \in KeysOfRow(r)
  PROVE  \/ /\ k[1] \in {"exact", "user"}
            /\ k[2] \in {r.isrc, ""} /\ k[3] \in {r.plat, ""}
         \/ k[1] \in {"title", "fts"} /\ k[2] = r.title
<1>1. CASE k \in {"exact", "user"} \X {r.isrc, ""} \X {r.plat, ""}
  BY <1>1
<1>2. CASE k = <<"title", r.title, "">>
  BY <1>2
<1>3. CASE k = <<"fts", r.title, "">>
  BY <1>3
<1> QED
  BY <1>1, <1>2, <1>3 DEF KeysOfRow

\* A query finds each row under the row's own keys, a user's query only those
\* of users.
LEMMA QueryFindsOwn ==
  ASSUME NEW k \in Lookups, NEW r \in table, k \in KeysOfRow(r),
         k[1] = "user" => r.source = "lyricsplus"
  PROVE  {} \notin QueryRow(k)
<1> DEFINE hits == IF k[1] = "user" THEN {o \in table : o.source = "lyricsplus"}
                   ELSE table
           byISRC == {o \in hits : k[2] # "" /\ o.isrc = k[2]}
           byPlat == {o \in hits : k[3] # "" /\ o.plat = k[3]}
<1>1. r \in hits
  OBVIOUS
<1>2. CASE k[1] = "title"
  <2>1. QueryRow(k) = {{o \in table : o.title = k[2]}}
    BY <1>2 DEF QueryRow
  <2>2. r.title = k[2]
    BY <1>2, KeyKinds
  <2> QED
    BY <2>1, <2>2
<1>3. CASE k[1] = "fts"
  <2>1. QueryRow(k) = {{o \in table : o.title \in Found[k[2]]}}
    BY <1>3 DEF QueryRow
  <2>2. r.title = k[2]
    BY <1>3, KeyKinds
  <2>3. k[2] \in Found[k[2]]
    BY <1>3, RowsAssumption
  <2>4. r \in {o \in table : o.title \in Found[k[2]]}
    BY <2>2, <2>3
  <2> QED
    BY <2>1, <2>4
<1>4. CASE k[1] \in {"exact", "user"}
  <2>1. k[2] \in {r.isrc, ""} /\ k[3] \in {r.plat, ""}
    BY <1>4, KeyKinds
  <2>2. k[2] # "" \/ k[3] # ""
    BY <1>4, RowsAssumption
  <2>3. r \in byISRC \/ r \in byPlat
    BY <1>1, <2>1, <2>2
  <2>4. QueryRow(k) = IF byISRC # {} THEN {{o} : o \in byISRC}
                      ELSE IF byPlat # {} THEN {{o} : o \in byPlat} ELSE {{}}
    BY <1>4 DEF QueryRow
  <2> HIDE DEF byISRC, byPlat
  <2> QED
    BY <2>3, <2>4
<1> QED
  BY <1>2, <1>3, <1>4, KeyKinds

LEMMA QueryFindsRows ==
  ASSUME NEW k, NEW hits \in QueryRow(k)
  PROVE  hits \subseteq table
<1> DEFINE all == IF k[1] = "user" THEN {o \in table : o.source = "lyricsplus"}
                  ELSE table
           byISRC == {o \in all : k[2] # "" /\ o.isrc = k[2]}
           byPlat == {o \in all : k[3] # "" /\ o.plat = k[3]}
<1>1. QueryRow(k) =
        IF k[1] = "title" THEN {{o \in table : o.title = k[2]}}
        ELSE IF k[1] = "fts" THEN {{o \in table : o.title \in Found[k[2]]}}
        ELSE IF byISRC # {} THEN {{o} : o \in byISRC}
        ELSE IF byPlat # {} THEN {{o} : o \in byPlat} ELSE {{}}
  BY DEF QueryRow
<1>2. byISRC \subseteq table /\ byPlat \subseteq table
  OBVIOUS
<1> HIDE DEF byISRC, byPlat
<1> QED
  BY <1>1, <1>2

-----------------------------------------------------------------------------

LEMMA RowsInvHolds == RowsInit => RowsInv
BY DEF RowsInit, RowsInv, Agrees, CachedAgree, MissedAgree

\* What the next state takes from a record.
LEMMA BecomesState ==
  ASSUME NEW T, NEW C, NEW M, NEW N, Becomes(State(T, C, M, N))
  PROVE  table' = T /\ cached' = C /\ missed' = M
BY DEF Becomes, State

LEMMA NowState == Now = State(table, cached, missed, counts)
BY DEF Now, State

LEMMA SaveRowKeeps ==
  ASSUME RowsInv, SaveRow
  PROVE  RowsInv'
<1>1. PICK r \in Requests : Becomes(SaveOne(Now, r))
  BY DEF SaveRow
<1>2. Agrees(table, cached, missed)
  BY DEF RowsInv
<1>3. PICK T2, C2, M2, N2 :
        /\ SaveOne(State(table, cached, missed, counts), r) = State(T2, C2, M2, N2)
        /\ Agrees(T2, C2, M2)
        /\ C2 = [k \in Lookups |-> C2[k]]
  <2>1. \E T2, C2, M2, N2 :
          /\ SaveOne(State(table, cached, missed, counts), r) = State(T2, C2, M2, N2)
          /\ Agrees(T2, C2, M2)
          /\ C2 = [k \in Lookups |-> C2[k]]
          /\ \A k \in Lookups : C2[k] \subseteq cached[k]
          /\ M2 \subseteq missed
    BY <1>2, SaveAgrees
  <2> QED
    BY <2>1
<1>4. table' = T2 /\ cached' = C2 /\ missed' = M2
  BY <1>1, <1>3, NowState, BecomesState
<1> QED
  BY <1>3, <1>4 DEF RowsInv

LEMMA SaveBatchKeeps ==
  ASSUME RowsInv, SaveBatch
  PROVE  RowsInv'
<1> DEFINE First(r) == IF Named(r) THEN SaveOne(Now, r) ELSE Now
           Both(r, s) == IF Named(s) THEN SaveOne(First(r), s) ELSE First(r)
<1>1. PICK r \in Requests, s \in Requests :
        \/ Becomes(Both(r, s))
        \/ Becomes(WithRows(Both(r, s), table, counts))
  BY DEF SaveBatch
<1>2. Agrees(table, cached, missed) /\ cached = [k \in Lookups |-> cached[k]]
  BY DEF RowsInv
<1>3. PICK T1, C1, M1, N1 :
        /\ First(r) = State(T1, C1, M1, N1)
        /\ Agrees(T1, C1, M1)
        /\ C1 = [k \in Lookups |-> C1[k]]
        /\ \A k \in Lookups : C1[k] \subseteq cached[k]
        /\ M1 \subseteq missed
  <2>1. CASE Named(r)
    BY <1>2, <2>1, NowState, SaveAgrees
  <2>2. CASE ~Named(r)
    BY <1>2, <2>2, NowState
  <2> QED
    BY <2>1, <2>2
<1>4. PICK T2, C2, M2, N2 :
        /\ Both(r, s) = State(T2, C2, M2, N2)
        /\ Agrees(T2, C2, M2)
        /\ C2 = [k \in Lookups |-> C2[k]]
        /\ \A k \in Lookups : C2[k] \subseteq cached[k]
        /\ M2 \subseteq missed
  <2>1. CASE Named(s)
    <3>1. PICK T2, C2, M2, N2 :
            /\ SaveOne(State(T1, C1, M1, N1), s) = State(T2, C2, M2, N2)
            /\ Agrees(T2, C2, M2)
            /\ C2 = [k \in Lookups |-> C2[k]]
            /\ \A k \in Lookups : C2[k] \subseteq C1[k]
            /\ M2 \subseteq M1
      BY <1>3, SaveAgrees
    <3> QED
      BY <1>3, <2>1, <3>1
  <2>2. CASE ~Named(s)
    BY <1>3, <2>2
  <2> QED
    BY <2>1, <2>2
<1>5. CASE Becomes(Both(r, s))
  <2>1. table' = T2 /\ cached' = C2 /\ missed' = M2
    BY <1>4, <1>5, BecomesState
  <2> QED
    BY <1>4, <2>1 DEF RowsInv
<1>6. CASE Becomes(WithRows(Both(r, s), table, counts))
  <2>1. WithRows(State(T2, C2, M2, N2), table, counts) = State(table, C2, M2, counts)
    BY WithRowsState
  <2>2. table' = table /\ cached' = C2 /\ missed' = M2
    <3>1. WithRows(Both(r, s), table, counts) = State(table, C2, M2, counts)
      BY <1>4, <2>1
    <3> QED
      BY <1>6, <3>1, BecomesState
  <2>3. Agrees(table, C2, M2)
    BY <1>2, <1>4, FewerAgree
  <2> QED
    BY <1>4, <2>2, <2>3 DEF RowsInv
<1> QED
  BY <1>1, <1>5, <1>6

LEMMA UpdateRowKeeps ==
  ASSUME RowsInv, UpdateRow
  PROVE  RowsInv'
<1> DEFINE New(o, r) == [title |-> r.title, isrc |-> r.isrc, plat |-> r.plat,
                         source |-> r.source, id |-> o.id,
                         file |-> CanonicalFilename(r, "json"),
                         version |-> counts.version + 1]
           First(o) == Invalidate(Now, {o})
           N2 == [id |-> counts.id, version |-> counts.version + 1]
<1>1. PICK o \in table, r \in Requests :
        \/ Becomes(First(o))
        \/ Becomes(Invalidate(WithRows(First(o), (table \ {o}) \cup {New(o, r)}, N2), {New(o, r)}))
  BY DEF UpdateRow
<1>2. Agrees(table, cached, missed)
  BY DEF RowsInv
<1> DEFINE K == KeysOfRow(o)
           new == New(o, r)
           L == KeysOfRow(new)
           T2 == (table \ {o}) \cup {new}
<1>3. First(o) = State(table, Forgot(cached, K), missed \ K, counts)
  BY NowState, InvalidateForgets, KeysOfOne
<1>4. Filed(new)
  <2>1. CanonicalFilename(new, "json") = new.file
    BY DEF CanonicalFilename
  <2> QED
    BY <2>1 DEF Filed
<1>5. CASE Becomes(First(o))
  <2>1. table' = table /\ cached' = Forgot(cached, K) /\ missed' = missed \ K
    BY <1>3, <1>5, BecomesState
  <2>2. Agrees(table, Forgot(cached, K), missed \ K)
    BY <1>2, ReplacedAgree
  <2>3. Forgot(cached, K) = [k \in Lookups |-> Forgot(cached, K)[k]]
    BY DEF Forgot
  <2> QED
    BY <2>1, <2>2, <2>3 DEF RowsInv
<1>6. CASE Becomes(Invalidate(WithRows(First(o), T2, N2), {new}))
  <2>1. \A k \in table \ T2 : KeysOfRow(k) \subseteq K \cup L
    OBVIOUS
  <2>2. \A k \in T2 \ table : KeysOfRow(k) \subseteq K \cup L /\ Filed(k)
    BY <1>4
  <2> HIDE DEF N2, T2, new
  <2>3. WithRows(First(o), T2, N2) = State(T2, Forgot(cached, K), missed \ K, N2)
    <3> HIDE DEF First, K
    <3> QED
      BY <1>3, WithRowsState
  <2>4. Agrees(T2, Forgot(cached, K \cup L), missed \ (K \cup L))
    <3> HIDE DEF K, L
    <3> QED
      BY <1>2, <2>1, <2>2, ReplacedAgree
  <2>5. Invalidate(State(T2, Forgot(cached, K), missed \ K, N2), {new})
          = State(T2, Forgot(Forgot(cached, K), L), (missed \ K) \ L, N2)
    BY InvalidateForgets, KeysOfOne
  <2> HIDE DEF K, L, First
  <2>6. table' = T2 /\ cached' = Forgot(Forgot(cached, K), L) /\ missed' = (missed \ K) \ L
    BY <1>6, <2>3, <2>5, BecomesState
  <2>7. cached' = Forgot(cached, K \cup L) /\ missed' = missed \ (K \cup L)
    BY <2>6, ForgetBoth
  <2>8. cached' = [k \in Lookups |-> cached'[k]]
    BY <2>7 DEF Forgot
  <2> QED
    BY <2>4, <2>6, <2>7, <2>8 DEF RowsInv
<1> QED
  BY <1>1, <1>5, <1>6

LEMMA DeleteRowsKeep ==
  ASSUME RowsInv, DeleteRows
  PROVE  RowsInv'
<1>1. PICK S \in SUBSET table : Becomes(WithRows(Invalidate(Now, S), table \ S, counts))
  BY DEF DeleteRows
<1> DEFINE K == UNION {KeysOfRow(r) : r \in S}
<1>2. Agrees(table, cached, missed)
  BY DEF RowsInv
<1>3. Invalidate(Now, S) = State(table, Forgot(cached, K), missed \ K, counts)
  BY NowState, InvalidateForgets
<1>4. \A r \in table \ (table \ S) : KeysOfRow(r) \subseteq K
  OBVIOUS
<1> HIDE DEF K
<1>5. WithRows(Invalidate(Now, S), table \ S, counts)
        = State(table \ S, Forgot(cached, K), missed \ K, counts)
  BY <1>3, WithRowsState
<1>6. table' = table \ S /\ cached' = Forgot(cached, K) /\ missed' = missed \ K
  BY <1>1, <1>5, BecomesState
<1>7. Agrees(table \ S, Forgot(cached, K), missed \ K)
  BY <1>2, <1>4, ReplacedAgree
<1>8. Forgot(cached, K) = [k \in Lookups |-> Forgot(cached, K)[k]]
  BY DEF Forgot
<1> QED
  BY <1>6, <1>7, <1>8 DEF RowsInv

LEMMA LookUpRowKeeps ==
  ASSUME RowsInv, NEW k \in Lookups, LookUpRow(k)
  PROVE  RowsInv'
<1>1. PICK hits \in QueryRow(k) :
        IF hits = {} THEN missed' = missed \cup {k} /\ UNCHANGED cached
        ELSE cached' = [cached EXCEPT ![k] = hits] /\ UNCHANGED missed
  BY DEF LookUpRow
<1>2. table' = table
  BY DEF LookUpRow
<1>3. /\ CachedAgree(table, cached) /\ MissedAgree(table, missed)
      /\ \A r \in table : Filed(r)
      /\ cached = [j \in Lookups |-> cached[j]]
  BY DEF RowsInv, Agrees
<1>4. CASE hits = {}
  <2>1. MissedAgree(table, missed \cup {k})
    <3> SUFFICES ASSUME NEW r \in table, NEW j \in (missed \cup {k}) \cap KeysOfRow(r)
                 PROVE  j[1] = "user" /\ r.source # "lyricsplus"
      BY DEF MissedAgree
    <3>1. CASE j \in missed
      BY <1>3, <3>1 DEF MissedAgree
    <3>2. CASE j = k
      BY <1>1, <1>4, <3>2, QueryFindsOwn
    <3> QED
      BY <3>1, <3>2
  <2> QED
    BY <1>1, <1>2, <1>3, <1>4, <2>1 DEF RowsInv, Agrees
<1>5. CASE hits # {}
  <2>1. hits \subseteq table
    BY QueryFindsRows
  <2>2. cached' = [cached EXCEPT ![k] = hits] /\ missed' = missed
    BY <1>1, <1>5
  <2>3. \A j \in Lookups : cached'[j] = IF j = k THEN hits ELSE cached[j]
    BY <1>3, <2>2
  <2>4. cached' = [j \in Lookups |-> cached'[j]]
    BY <1>3, <2>2
  <2>5. CachedAgree(table, cached')
    BY <1>3, <2>1, <2>3 DEF CachedAgree
  <2> QED
    BY <1>2, <1>3, <2>2, <2>4, <2>5 DEF RowsInv, Agrees
<1> QED
  BY <1>4, <1>5

LEMMA EvictedKeeps ==
  ASSUME RowsInv, NEW k \in Lookups, Evicted(k)
  PROVE  RowsInv'
<1>1. /\ table' = table /\ missed' = missed \ {k}
      /\ cached' = [cached EXCEPT ![k] = {}]
  BY DEF Evicted
<1>2. cached = [j \in Lookups |-> cached[j]] /\ Agrees(table, cached, missed)
  BY DEF RowsInv
<1>3. cached' = [j \in Lookups |-> cached'[j]]
  BY <1>1, <1>2
<1>4. \A j \in Lookups : cached'[j] \subseteq cached[j]
  BY <1>1, <1>2
<1>5. missed' \subseteq missed
  BY <1>1
<1>6. Agrees(table, cached', missed')
  BY <1>2, <1>4, <1>5, FewerAgree
<1> QED
  BY <1>1, <1>3, <1>6 DEF RowsInv

\* Whatever was saved, renamed, rolled back or deleted before: under the keys
\* a row has itself, no cache of storage.Store holds an older state of it and
\* no memo of misses hides it (store.go:993-1030, admin.go:343-392).
THEOREM OwnKeysForget == RowsSpec => []OwnKeysAgree
<1>1. RowsInit => RowsInv
  BY RowsInvHolds
<1>2. RowsInv /\ [RowsNext]_rowsVars => RowsInv'
  <2> SUFFICES ASSUME RowsInv, [RowsNext]_rowsVars PROVE RowsInv'
    OBVIOUS
  <2>1. CASE UNCHANGED rowsVars
    BY <2>1 DEF rowsVars, RowsInv
  <2> QED
    BY <2>1, SaveRowKeeps, SaveBatchKeeps, UpdateRowKeeps, DeleteRowsKeep,
       LookUpRowKeeps, EvictedKeeps DEF RowsNext
<1>3. RowsInv => OwnKeysAgree
  BY DEF RowsInv, Agrees, CachedAgree, MissedAgree, OwnKeysAgree
<1> QED
  BY <1>1, <1>2, <1>3, PTL DEF RowsSpec

-----------------------------------------------------------------------------
(***************************************************************************)
(* Merger: for any songs and databases, a merge keeps what is best, and    *)
(* leaves an index that has every row. The invariant says for the open     *)
(* transaction and for the committed rows which databases they are         *)
(* already at least as good as.                                            *)
(***************************************************************************)

\* Each song of c has a row in D, outside P one at least as good as c's.
AsGood(D, c, P) ==
  \A m \in MergeSongs :
    c[m] # {} => \E t \in D[m] : m \in P \/ \A s \in c[m] : AtLeast(t, s)

Holds(D, i) == AsGood(D, sources[i], Passed(i))

Working == merge.pc \in {"resolve", "insert"}

MergerType ==
  /\ strategy \in Strategies
  /\ sources \in Seq(Databases)
  /\ target \in Databases
  /\ trigger \in BOOLEAN /\ inserted \in BOOLEAN
  /\ merge \in [pc : {"prepare", "next", "resolve", "insert", "restore", "done"},
                src : 0..Len(sources), todo : SUBSET MergeSongs]
  /\ merged \subseteq 1..Len(sources)
  /\ Working => tx.rows \in Databases /\ merge.src # 0

\* The rows that the conflicts are resolved for, the source's or better ones.
Resolved(done) ==
  \A m \in done \ Passed(merge.src) : \A s \in Source[m], t \in tx.rows[m] : AtLeast(t, s)

\* What the open transaction holds of the sources.
TxHolds ==
  Working =>
    /\ \A i \in merged : Holds(tx.rows, i)
    /\ Resolved(IF merge.pc = "insert" THEN MergeSongs ELSE MergeSongs \ merge.todo)
    /\ merge.pc = "insert" =>
         \A m \in MergeSongs \ merge.todo : Source[m] # {} => tx.rows[m] # {}

MergerInv == MergerType /\ MergedIsKept /\ TxHolds

LEMMA QualityIsRank == ASSUME NEW c PROVE DetectLyricsQuality(c) \in 0..4
<1>1. FullRank(c) \in 0..4
  BY DEF FullRank, RankNone, RankEmpty, RankPlain, RankLine, RankSyllable
<1>2. CASE c.form = "blank"
  BY <1>2 DEF DetectLyricsQuality, RankNone
<1>3. CASE c.form = "xml"
  BY <1>1, <1>3 DEF DetectLyricsQuality, RankLine, RankSyllable
<1>4. CASE c.form = "json"
  BY <1>1, <1>4 DEF DetectLyricsQuality, RankEmpty, RankLine, RankSyllable
<1>5. CASE c.form \notin {"blank", "xml", "json"}
  BY <1>1, <1>5 DEF DetectLyricsQuality
<1> QED
  BY <1>2, <1>3, <1>4, <1>5

\* A database has at most one row for a song, one that may be.
LEMMA DatabaseHas ==
  ASSUME NEW d \in Databases, NEW m \in MergeSongs
  PROVE  d[m] = {} \/ \E r \in RowsOf[m] : d[m] = {r}
BY DEF Databases

LEMMA DatabaseRows ==
  ASSUME NEW d \in Databases, NEW m \in MergeSongs, NEW s \in d[m]
  PROVE  d[m] = {s} /\ s.at \in Nat
BY DatabaseHas, MergerAssumption

LEMMA DatabasePut ==
  ASSUME NEW d \in Databases, NEW e \in Databases, NEW m \in MergeSongs
  PROVE  [d EXCEPT ![m] = e[m]] \in Databases
BY DEF Databases

LEMMA AtLeastItself == ASSUME NEW s, s.at \in Nat PROVE AtLeast(s, s)
BY QualityIsRank DEF AtLeast

\* A row that replaces another is at least as good as what that one was.
LEMMA ReplacesIsBetter ==
  ASSUME NEW s, NEW t, NEW u, s.at \in Nat, t.at \in Nat, u.at \in Nat,
         Replaces(s, t), AtLeast(t, u), strategy \in Strategies
  PROVE  AtLeast(s, u)
<1>1. /\ DetectLyricsQuality(s.content) \in 0..4 /\ DetectLyricsQuality(t.content) \in 0..4
      /\ DetectLyricsQuality(u.content) \in 0..4
  BY QualityIsRank
<1> QED
  BY <1>1 DEF AtLeast, Replaces, Upgrades, Strategies

LEMMA KeptIsBetter ==
  ASSUME NEW s, NEW t, s.at \in Nat, t.at \in Nat, ~Replaces(s, t), strategy \in Strategies
  PROVE  AtLeast(t, s)
<1>1. DetectLyricsQuality(s.content) \in 0..4 /\ DetectLyricsQuality(t.content) \in 0..4
  BY QualityIsRank
<1> QED
  BY <1>1 DEF AtLeast, Replaces, Upgrades, Strategies

LEMMA MergerStarts == MergerInit => MergerInv
<1> SUFFICES ASSUME MergerInit PROVE MergerInv
  OBVIOUS
<1>1. sources \in Seq(Databases) /\ Len(sources) \in Nat
  <2>1. PICK n \in 0..MaxSources : sources \in [1..n -> Databases]
    BY DEF MergerInit
  <2>2. n \in Nat
    BY MergerAssumption
  <2>3. Seq(Databases) = UNION {[1..k -> Databases] : k \in Nat}
    BY SeqDef
  <2>4. sources \in Seq(Databases)
    <3> HIDE DEF Databases
    <3> QED
      BY <2>1, <2>2, <2>3
  <2> QED
    BY <2>4, LenProperties
<1>2. /\ merge \in [pc : {"prepare"}, src : 0..Len(sources), todo : SUBSET MergeSongs]
      /\ merge.pc = "prepare"
  BY <1>1 DEF MergerInit
<1>3. MergerType
  BY <1>1, <1>2 DEF MergerInit, MergerType, Working
<1> QED
  BY <1>2, <1>3 DEF MergerInit, MergerInv, MergedIsKept, TxHolds, Working

LEMMA MergerFacts ==
  ASSUME MergerType
  PROVE  /\ Len(sources) \in Nat /\ merge.src \in Nat
         /\ merge.src \in 1..Len(sources) => Source \in Databases
         /\ Working => merge.src \in 1..Len(sources) /\ Source \in Databases
         /\ \A i \in 1..Len(sources) : sources[i] \in Databases
<1>1. Len(sources) \in Nat /\ \A i \in 1..Len(sources) : sources[i] \in Databases
  BY ElementOfSeq, LenProperties DEF MergerType
<1>2. merge.src \in Nat /\ merge.src <= Len(sources)
  BY <1>1 DEF MergerType
<1> QED
  BY <1>1, <1>2 DEF MergerType, Source

\* What a step that leaves the strategy and the list of what was passed over
\* does not change.
LEMMA SameMeasure ==
  ASSUME UNCHANGED <<strategy, passed>>
  PROVE  /\ \A i : Passed(i)' = Passed(i)
         /\ \A s, t : AtLeast(t, s)' <=> AtLeast(t, s)
BY DEF Passed, AtLeast

\* A step of the merge that leaves rows, sources and transaction alone.
LEMMA MergerRests ==
  ASSUME MergerInv, UNCHANGED <<strategy, sources, target, tx, merged, passed>>, ~Working',
         trigger' \in BOOLEAN, inserted' \in BOOLEAN,
         merge' \in [pc : {"next", "restore", "done"}, src : 0..Len(sources), todo : SUBSET MergeSongs]
  PROVE  MergerInv'
<1>1. MergerType'
  BY DEF MergerInv, MergerType, Working
<1>2. MergedIsKept'
  BY SameMeasure DEF MergerInv, MergedIsKept
<1> QED
  BY <1>1, <1>2 DEF MergerInv, TxHolds

MayPut(d, e, m) == d[m] = {} \/ \E s \in e[m], t \in d[m] : Replaces(s, t)

\* A source that is held stays held while its rows are only replaced by better.
LEMMA PutHolds ==
  ASSUME NEW d \in Databases, NEW e \in Databases, NEW c \in Databases, NEW m \in MergeSongs,
         NEW P, strategy \in Strategies,
         AsGood(d, c, P), MayPut(d, e, m)
  PROVE  AsGood([d EXCEPT ![m] = e[m]], c, P)
<1> DEFINE f == [d EXCEPT ![m] = e[m]]
<1>1. \A k \in MergeSongs : f[k] = IF k = m THEN e[m] ELSE d[k]
  BY DEF Databases
<1> HIDE DEF f
<1> SUFFICES ASSUME NEW k \in MergeSongs, c[k] # {}
             PROVE  \E t \in f[k] : k \in P \/ \A s \in c[k] : AtLeast(t, s)
  BY DEF f, AsGood
<1>2. PICK t \in d[k] : k \in P \/ \A s \in c[k] : AtLeast(t, s)
  BY DEF AsGood
<1>3. CASE k = m
  <2>1. PICK r \in e[m], q \in d[m] : Replaces(r, q)
    BY <1>2, <1>3 DEF MayPut
  <2>2. q = t /\ r.at \in Nat /\ t.at \in Nat
    BY <1>2, <1>3, <2>1, DatabaseRows
  <2>3. \A s \in c[k] : s.at \in Nat
    BY DatabaseRows
  <2>4. k \in P \/ \A s \in c[k] : AtLeast(r, s)
    BY <1>2, <2>1, <2>2, <2>3, ReplacesIsBetter
  <2> QED
    BY <1>1, <1>3, <2>1, <2>4
<1>4. CASE k # m
  BY <1>1, <1>2, <1>4
<1> QED
  BY <1>3, <1>4

LEMMA AttachKeeps == ASSUME MergerInv, Attach PROVE MergerInv'
<1>1. /\ merge.pc = "next" /\ merge.src < Len(sources)
      /\ UNCHANGED <<target, fts, trigger, inserted, strategy, sources, passed>>
      /\ merge.src + 1 \in 1..Len(sources) /\ sources[merge.src + 1] \in Databases
      /\ MergerType
  BY MergerFacts DEF Attach, SameDatabase, SameSources, MergerInv
<1>2. CASE RowsIn(sources[merge.src + 1]) = {}
  <2>1. /\ merge' = [merge EXCEPT !.src = @ + 1] /\ merged' = merged \cup {merge.src + 1}
        /\ UNCHANGED tx
    BY <1>2 DEF Attach
  <2>2. \A m \in MergeSongs : sources[merge.src + 1][m] = {}
    BY <1>2 DEF RowsIn
  <2>3. MergerType'
    <3>1. merge' \in [pc : {"next"}, src : 0..Len(sources), todo : SUBSET MergeSongs]
      BY <1>1, <2>1, MergerFacts DEF MergerType
    <3>2. merged' \subseteq 1..Len(sources)
      BY <1>1, <2>1 DEF MergerType
    <3> QED
      BY <1>1, <2>1, <3>1, <3>2 DEF MergerType, Working
  <2>4. MergedIsKept'
    BY <1>1, <2>1, <2>2, SameMeasure DEF MergerInv, MergedIsKept
  <2>5. ~Working'
    BY <1>1, <2>1 DEF MergerType, Working
  <2> QED
    BY <2>3, <2>4, <2>5 DEF MergerInv, TxHolds
<1>3. CASE RowsIn(sources[merge.src + 1]) # {}
  <2> DEFINE pc == IF RowsIn(target) # {} /\ strategy # "insert-only" THEN "resolve" ELSE "insert"
  <2>1. /\ BeginTx(pc) /\ UNCHANGED merged
    BY <1>3 DEF Attach
  <2>2. tx' = [rows |-> target, fts |-> fts]
        /\ merge' = [merge EXCEPT !.pc = pc, !.src = @ + 1, !.todo = MergeSongs]
    BY <1>1, <2>1 DEF BeginTx
  <2>3. pc \in {"resolve", "insert"}
    OBVIOUS
  <2> HIDE DEF pc
  <2>4. /\ merge' \in [pc : {"resolve", "insert"}, src : 1..Len(sources), todo : SUBSET MergeSongs]
        /\ merge'.pc = pc /\ merge'.todo = MergeSongs /\ tx'.rows = target
    BY <1>1, <2>2, <2>3 DEF MergerType
  <2>5. MergerType'
    BY <1>1, <2>1, <2>4 DEF MergerType, Working
  <2>6. MergedIsKept'
    BY <1>1, <2>1, SameMeasure DEF MergerInv, MergedIsKept
  <2>7. \A i \in merged' : Holds(tx.rows, i)'
    BY <1>1, <2>1, <2>4, SameMeasure DEF MergerInv, MergedIsKept, Holds, AsGood
  <2>8. CASE pc = "resolve"
    <3>1. Resolved({})'
      BY DEF Resolved
    <3> QED
      BY <2>4, <2>5, <2>6, <2>7, <2>8, <3>1 DEF MergerInv, TxHolds
  <2>9. CASE pc = "insert"
    <3>1. strategy = "insert-only" \/ \A m \in MergeSongs : target[m] = {}
      BY <2>9 DEF pc, RowsIn
    <3>2. Resolved(MergeSongs)'
      <4>1. CASE strategy = "insert-only"
        BY <1>1, <4>1 DEF Resolved, AtLeast
      <4>2. CASE \A m \in MergeSongs : target[m] = {}
        BY <2>4, <4>2 DEF Resolved
      <4> QED
        BY <3>1, <4>1, <4>2
    <3> QED
      BY <2>4, <2>5, <2>6, <2>7, <2>9, <3>2 DEF MergerInv, TxHolds
  <2> QED
    BY <2>3, <2>8, <2>9
<1> QED
  BY <1>2, <1>3

\* One row of the open transaction is put in.
LEMMA TxPut ==
  ASSUME MergerInv, Working, NEW m \in MergeSongs, NEW done \in SUBSET MergeSongs,
         Resolved(done), MayPut(tx.rows, Source, m),
         UNCHANGED <<strategy, sources, merged, passed>>, merge'.src = merge.src,
         tx'.rows = [tx.rows EXCEPT ![m] = Source[m]]
  PROVE  /\ tx'.rows \in Databases
         /\ \A i \in merged' : Holds(tx.rows, i)'
         /\ Resolved(done \cup {m})'
         /\ \A k \in MergeSongs : tx'.rows[k] = IF k = m THEN Source[m] ELSE tx.rows[k]
<1>1. /\ tx.rows \in Databases /\ Source \in Databases /\ strategy \in Strategies
      /\ \A i \in merged : sources[i] \in Databases
  BY MergerFacts DEF MergerInv, MergerType
<1>2. tx'.rows \in Databases
  BY <1>1, DatabasePut
<1>3. \A k \in MergeSongs : tx'.rows[k] = IF k = m THEN Source[m] ELSE tx.rows[k]
  BY <1>1 DEF Databases
<1>4. Source' = Source /\ \A i : Passed(i)' = Passed(i)
  BY SameMeasure DEF Source
<1>5. \A s, t : AtLeast(t, s)' <=> AtLeast(t, s)
  BY SameMeasure
<1>6. ASSUME NEW i \in merged PROVE Holds(tx.rows, i)'
  <2> DEFINE c == sources[i]
             P == Passed(i)
             e == Source
             d == tx.rows
             f == [d EXCEPT ![m] = e[m]]
  <2>1. c \in Databases /\ d \in Databases /\ e \in Databases
    BY <1>1
  <2>2. AsGood(d, c, P)
    BY DEF MergerInv, TxHolds, Holds, AsGood
  <2>3. MayPut(d, e, m)
    OBVIOUS
  <2>6. P = Passed(i)'
    BY <1>4
  <2> HIDE DEF c, d, e, P
  <2>4. AsGood(f, c, P)
    BY <1>1, <2>1, <2>2, <2>3, PutHolds
  <2>5. tx'.rows = f /\ sources'[i] = c
    BY DEF c, d, e
  <2> HIDE DEF f
  <2> QED
    BY <1>5, <2>4, <2>5, <2>6 DEF Holds, AsGood
<1>7. Resolved(done \cup {m})'
  <2> SUFFICES ASSUME NEW k \in (done \cup {m}) \ Passed(merge.src), NEW s \in Source[k], NEW t \in tx'.rows[k]
               PROVE  AtLeast(t, s)
    BY <1>4, <1>5 DEF Resolved
  <2>1. CASE k = m
    <3>1. t \in Source[m] /\ t = s /\ s.at \in Nat
      BY <1>1, <1>3, <2>1, DatabaseRows
    <3> QED
      BY <3>1, AtLeastItself
  <2>2. CASE k # m
    BY <1>3, <2>2 DEF Resolved
  <2> QED
    BY <2>1, <2>2
<1> QED
  BY <1>2, <1>3, <1>6, <1>7

LEMMA SameKept ==
  ASSUME MergerInv, UNCHANGED <<strategy, sources, target, merged, passed>>
  PROVE  MergedIsKept'
BY SameMeasure DEF MergerInv, MergedIsKept

LEMMA ResolveKeeps == ASSUME MergerInv, NEW m \in MergeSongs, Resolve(m) PROVE MergerInv'
<1>1. /\ merge.pc = "resolve" /\ m \in merge.todo /\ Working
      /\ merge' = [merge EXCEPT !.todo = @ \ {m}]
      /\ UNCHANGED <<target, trigger, inserted, merged, strategy, sources, passed>>
      /\ MergerType /\ Resolved(MergeSongs \ merge.todo)
      /\ \A i \in merged : Holds(tx.rows, i)
  BY DEF Resolve, SameDatabase, SameSources, Working, MergerInv, TxHolds
<1>2. /\ merge' \in [pc : {"resolve"}, src : 0..Len(sources), todo : SUBSET MergeSongs]
      /\ merge'.pc = "resolve" /\ merge'.src = merge.src /\ merge'.todo = merge.todo \ {m}
  BY <1>1 DEF MergerType
<1>3. tx.rows \in Databases /\ Source \in Databases /\ merge.src # 0 /\ strategy \in Strategies
  BY <1>1, MergerFacts DEF MergerType
<1>9. PICK done : done = MergeSongs \ merge.todo
  OBVIOUS
<1>4. MergeSongs \ merge'.todo = done \cup {m}
  BY <1>1, <1>2, <1>9
<1>5. /\ tx'.rows \in Databases
      /\ \A i \in merged' : Holds(tx.rows, i)'
      /\ Resolved(done \cup {m})'
  <2>1. CASE \E s \in Source[m], t \in tx.rows[m] : Replaces(s, t)
    <3>1. tx'.rows = [tx.rows EXCEPT ![m] = Source[m]]
      BY <1>1, <2>1 DEF Resolve
    <3>2. MayPut(tx.rows, Source, m)
      BY <2>1 DEF MayPut
    <3>3. done \in SUBSET MergeSongs /\ Resolved(done)
      BY <1>1, <1>9
    <3> QED
      BY <1>1, <1>2, <3>1, <3>2, <3>3, TxPut
  <2>2. CASE ~\E s \in Source[m], t \in tx.rows[m] : Replaces(s, t)
    <3>0. tx'.rows = [tx.rows EXCEPT ![m] = tx.rows[m]]
      BY <2>2 DEF Resolve
    <3>1. tx'.rows = tx.rows
      BY <1>3, <3>0 DEF Databases
    <3>2. Source' = Source
      BY <1>1, <1>2 DEF Source
    <3>3. /\ \A s, t : AtLeast(t, s)' <=> AtLeast(t, s)
          /\ \A i : Passed(i)' = Passed(i)
      BY <1>1, SameMeasure
    <3>4. \A s \in Source[m], t \in tx.rows[m] : AtLeast(t, s)
      BY <1>3, <2>2, DatabaseRows, KeptIsBetter
    <3>5. Resolved(done \cup {m})'
      BY <1>1, <1>9, <3>1, <3>2, <3>3, <3>4 DEF Resolved
    <3>6. \A i \in merged' : Holds(tx.rows, i)'
      BY <1>1, <3>1, <3>3 DEF Holds, AsGood
    <3> QED
      BY <1>3, <3>1, <3>5, <3>6
  <2> QED
    BY <2>1, <2>2
<1>6. MergerType'
  BY <1>1, <1>2, <1>3, <1>5 DEF MergerType, Working
<1>7. TxHolds'
  BY <1>2, <1>4, <1>5 DEF TxHolds
<1>8. MergedIsKept'
  BY <1>1, SameKept
<1> QED
  BY <1>6, <1>7, <1>8 DEF MergerInv

\* A row that is passed over stays as it is; only it is exempt from now on.
LEMMA PassOverKeeps == ASSUME MergerInv, NEW m \in MergeSongs, PassOver(m) PROVE MergerInv'
<1>1. /\ merge.pc = "resolve" /\ m \in merge.todo /\ Working
      /\ merge' = [merge EXCEPT !.todo = @ \ {m}]
      /\ passed' = passed \cup {<<merge.src, m>>}
      /\ UNCHANGED <<target, trigger, inserted, merged, strategy, sources, tx>>
      /\ MergerType /\ Resolved(MergeSongs \ merge.todo)
      /\ \A i \in merged : Holds(tx.rows, i)
  BY DEF PassOver, SameSources, Working, MergerInv, TxHolds
<1>2. /\ merge' \in [pc : {"resolve"}, src : 0..Len(sources), todo : SUBSET MergeSongs]
      /\ merge'.pc = "resolve" /\ merge'.src = merge.src /\ merge'.todo = merge.todo \ {m}
  BY <1>1 DEF MergerType
<1>3. /\ \A i : Passed(i) \subseteq Passed(i)'
      /\ m \in Passed(merge.src)' /\ Source' = Source
  BY <1>1, <1>2 DEF Passed, Source
<1>4. \A s, t : AtLeast(t, s)' <=> AtLeast(t, s)
  BY <1>1 DEF AtLeast
<1>5. MergerType'
  BY <1>1, <1>2 DEF MergerType, Working
<1>9. PICK done : done = MergeSongs \ merge.todo
  OBVIOUS
<1>10. MergeSongs \ merge'.todo = done \cup {m}
  BY <1>1, <1>2, <1>9
<1>6. Resolved(done \cup {m})'
  BY <1>1, <1>2, <1>3, <1>4, <1>9 DEF Resolved
<1>7. \A i \in merged' : Holds(tx.rows, i)'
  BY <1>1, <1>3, <1>4 DEF Holds, AsGood
<1>8. MergedIsKept'
  BY <1>1, <1>3, <1>4 DEF MergerInv, MergedIsKept
<1> QED
  BY <1>2, <1>5, <1>6, <1>7, <1>8, <1>10 DEF MergerInv, TxHolds

LEMMA InsertKeeps == ASSUME MergerInv, NEW m \in MergeSongs, Insert(m) PROVE MergerInv'
<1>1. /\ merge.pc = "insert" /\ m \in merge.todo /\ Working
      /\ merge' = [merge EXCEPT !.todo = @ \ {m}]
      /\ UNCHANGED <<target, trigger, merged, strategy, sources, passed>>
      /\ MergerType /\ Resolved(MergeSongs)
      /\ \A i \in merged : Holds(tx.rows, i)
      /\ \A k \in MergeSongs \ merge.todo : Source[k] # {} => tx.rows[k] # {}
      /\ inserted' \in BOOLEAN
  BY DEF Insert, SameDatabase, SameSources, Working, MergerInv, MergerType, TxHolds
<1>2. /\ merge' \in [pc : {"insert"}, src : 0..Len(sources), todo : SUBSET MergeSongs]
      /\ merge'.pc = "insert" /\ merge'.src = merge.src /\ merge'.todo = merge.todo \ {m}
  BY <1>1 DEF MergerType
<1>3. tx.rows \in Databases /\ Source \in Databases /\ merge.src # 0 /\ Source' = Source
  BY <1>1, <1>2, MergerFacts DEF MergerType, Source
<1>4. /\ tx'.rows \in Databases
      /\ \A i \in merged' : Holds(tx.rows, i)'
      /\ Resolved(MergeSongs)'
      /\ \A k \in MergeSongs \ merge'.todo : Source[k] # {} => tx'.rows[k] # {}
  <2>1. CASE tx.rows[m] = {} /\ Source[m] # {}
    <3>1. tx'.rows = [tx.rows EXCEPT ![m] = Source[m]]
      BY <2>1 DEF Insert
    <3>2. MergeSongs \cup {m} = MergeSongs
      OBVIOUS
    <3>3. /\ tx'.rows \in Databases
          /\ \A i \in merged' : Holds(tx.rows, i)'
          /\ Resolved(MergeSongs \cup {m})'
          /\ \A k \in MergeSongs : tx'.rows[k] = IF k = m THEN Source[m] ELSE tx.rows[k]
      <4>1. MayPut(tx.rows, Source, m)
        BY <2>1 DEF MayPut
      <4> QED
        BY <1>1, <1>2, <3>1, <4>1, TxPut
    <3> QED
      BY <1>1, <1>2, <2>1, <3>2, <3>3
  <2>2. CASE ~(tx.rows[m] = {} /\ Source[m] # {})
    <3>1. tx' = tx
      BY <2>2 DEF Insert
    <3>2. /\ \A s, t : AtLeast(t, s)' <=> AtLeast(t, s)
          /\ \A i : Passed(i)' = Passed(i)
      BY <1>1, SameMeasure
    <3>3. Resolved(MergeSongs)'
      BY <1>1, <1>3, <3>1, <3>2 DEF Resolved
    <3>4. \A i \in merged' : Holds(tx.rows, i)'
      BY <1>1, <3>1, <3>2 DEF Holds, AsGood
    <3> QED
      BY <1>1, <1>2, <1>3, <2>2, <3>1, <3>3, <3>4
  <2> QED
    BY <2>1, <2>2
<1>5. MergerType'
  BY <1>1, <1>2, <1>3, <1>4 DEF MergerType, Working
<1>6. TxHolds'
  BY <1>2, <1>3, <1>4 DEF TxHolds
<1>7. MergedIsKept'
  BY <1>1, SameKept
<1> QED
  BY <1>5, <1>6, <1>7 DEF MergerInv

LEMMA ResolvedKeeps == ASSUME MergerInv, CommitResolved PROVE MergerInv'
<1>1. /\ merge.pc = "resolve" /\ merge.todo = {} /\ Working
      /\ target' = tx.rows /\ tx' = tx
      /\ merge' = [merge EXCEPT !.pc = "insert", !.todo = MergeSongs]
      /\ UNCHANGED <<trigger, inserted, merged, strategy, sources, passed>>
      /\ MergerType /\ Resolved(MergeSongs)
      /\ \A i \in merged : Holds(tx.rows, i)
  BY DEF CommitResolved, Committed, SameDatabase, SameSources, Working, MergerInv, TxHolds
<1>2. /\ merge' \in [pc : {"insert"}, src : 0..Len(sources), todo : SUBSET MergeSongs]
      /\ merge'.pc = "insert" /\ merge'.src = merge.src /\ merge'.todo = MergeSongs
  BY <1>1 DEF MergerType
<1>3. Source' = Source /\ tx.rows \in Databases /\ merge.src # 0
  BY <1>1, <1>2 DEF Source, MergerType
<1>4. /\ \A s, t : AtLeast(t, s)' <=> AtLeast(t, s)
      /\ \A i : Passed(i)' = Passed(i)
  BY <1>1, SameMeasure
<1>5. Resolved(MergeSongs)' /\ \A i \in merged' : Holds(tx.rows, i)'
  BY <1>1, <1>3, <1>4 DEF Resolved, Holds, AsGood
<1>6. MergedIsKept'
  BY <1>1, <1>4 DEF MergedIsKept, Holds, AsGood
<1>7. MergerType'
  BY <1>1, <1>2, <1>3 DEF MergerType, Working
<1> QED
  BY <1>2, <1>5, <1>6, <1>7 DEF MergerInv, TxHolds

LEMMA InsertedKeeps == ASSUME MergerInv, CommitInserted PROVE MergerInv'
<1>1. /\ merge.pc = "insert" /\ merge.todo = {} /\ Working
      /\ target' = tx.rows /\ merged' = merged \cup {merge.src}
      /\ merge' = [merge EXCEPT !.pc = "next"]
      /\ UNCHANGED <<trigger, inserted, strategy, sources, passed>>
      /\ MergerType /\ Resolved(MergeSongs)
      /\ \A i \in merged : Holds(tx.rows, i)
      /\ \A m \in MergeSongs : Source[m] # {} => tx.rows[m] # {}
  BY DEF CommitInserted, Committed, SameDatabase, SameSources, Working, MergerInv, TxHolds
<1>2. /\ merge' \in [pc : {"next"}, src : 0..Len(sources), todo : SUBSET MergeSongs]
      /\ merge'.pc = "next"
  BY <1>1 DEF MergerType
<1>3. tx.rows \in Databases /\ merge.src \in 1..Len(sources)
  BY <1>1, MergerFacts DEF MergerType
<1>4. /\ \A s, t : AtLeast(t, s)' <=> AtLeast(t, s)
      /\ \A i : Passed(i)' = Passed(i)
  BY <1>1, SameMeasure
<1>5. Holds(tx.rows, merge.src)
  BY <1>1 DEF Resolved, Holds, AsGood, Source
<1>6. MergedIsKept'
  BY <1>1, <1>4, <1>5 DEF MergedIsKept, Holds, AsGood
<1>7. MergerType'
  BY <1>1, <1>2, <1>3 DEF MergerType, Working
<1> QED
  BY <1>2, <1>6, <1>7 DEF MergerInv, TxHolds, Working

LEMMA MergerStep == MergerInv /\ [MergerNext]_mergerVars => MergerInv'
<1> SUFFICES ASSUME MergerInv, [MergerNext]_mergerVars PROVE MergerInv'
  OBVIOUS
<1>1. /\ MergerType /\ Len(sources) \in Nat /\ merge.src \in Nat /\ merge.src <= Len(sources)
      /\ merge.todo \subseteq MergeSongs /\ trigger \in BOOLEAN /\ inserted \in BOOLEAN
  BY MergerFacts DEF MergerInv, MergerType
<1>2. CASE Prepare
  <2>1. /\ UNCHANGED <<strategy, sources, target, passed, tx, merged, inserted>> /\ trigger' \in BOOLEAN
        /\ merge' = [merge EXCEPT !.pc = "next"]
    BY <1>1, <1>2 DEF Prepare, SameDatabase, SameSources
  <2>2. /\ merge' \in [pc : {"next", "restore", "done"}, src : 0..Len(sources), todo : SUBSET MergeSongs]
        /\ merge'.pc = "next"
    BY <1>1, <2>1 DEF MergerType
  <2> QED
    BY <1>1, <2>1, <2>2, MergerRests DEF Working
<1>3. CASE Sourced
  <2>1. /\ UNCHANGED <<strategy, sources, target, passed, tx, merged, inserted, trigger>>
        /\ merge' = [merge EXCEPT !.pc = "restore"]
    BY <1>3 DEF Sourced, SameDatabase, SameSources
  <2>2. /\ merge' \in [pc : {"next", "restore", "done"}, src : 0..Len(sources), todo : SUBSET MergeSongs]
        /\ merge'.pc = "restore"
    BY <1>1, <2>1 DEF MergerType
  <2> QED
    BY <1>1, <2>1, <2>2, MergerRests DEF Working
<1>4. CASE SkipSource
  <2>1. /\ UNCHANGED <<strategy, sources, target, passed, tx, merged, inserted, trigger>>
        /\ merge.pc = "next" /\ merge.src < Len(sources) /\ merge' = [merge EXCEPT !.src = @ + 1]
    BY <1>4 DEF SkipSource, SameDatabase, SameSources
  <2>2. /\ merge' \in [pc : {"next", "restore", "done"}, src : 0..Len(sources), todo : SUBSET MergeSongs]
        /\ merge'.pc = "next"
    BY <1>1, <2>1 DEF MergerType
  <2> QED
    BY <1>1, <2>1, <2>2, MergerRests DEF Working
<1>5. CASE Fail
  <2>1. /\ UNCHANGED <<strategy, sources, target, passed, merged, inserted, trigger>>
        /\ merge' = [merge EXCEPT !.pc = "next", !.todo = {}]
    BY <1>5 DEF Fail, SameDatabase, SameSources
  <2>2. /\ merge' \in [pc : {"next"}, src : 0..Len(sources), todo : SUBSET MergeSongs]
        /\ merge'.pc = "next"
    BY <1>1, <2>1 DEF MergerType
  <2>3. MergerType'
    BY <1>1, <2>1, <2>2 DEF MergerType, Working
  <2> QED
    BY <2>1, <2>2, <2>3, SameKept DEF MergerInv, TxHolds, Working
<1>6. CASE Restore
  <2>1. /\ UNCHANGED <<strategy, sources, target, passed, tx, merged, inserted>> /\ trigger' = TRUE
        /\ merge' = [merge EXCEPT !.pc = "done"]
    BY <1>6 DEF Restore, SameDatabase, SameSources
  <2>2. /\ merge' \in [pc : {"next", "restore", "done"}, src : 0..Len(sources), todo : SUBSET MergeSongs]
        /\ merge'.pc = "done"
    BY <1>1, <2>1 DEF MergerType
  <2> QED
    BY <1>1, <2>1, <2>2, MergerRests DEF Working
<1>7. CASE Interrupted \/ UNCHANGED mergerVars
  <2>1. UNCHANGED <<strategy, sources, target, trigger, inserted, tx, merge, merged, passed>>
    BY <1>7 DEF Interrupted, mergerVars
  <2>2. MergerType'
    BY <1>1, <2>1 DEF MergerType, Working
  <2>3. /\ \A s, t : AtLeast(t, s)' <=> AtLeast(t, s)
        /\ \A i : Passed(i)' = Passed(i)
    BY <2>1, SameMeasure
  <2>4. TxHolds'
    BY <2>1, <2>3 DEF MergerInv, TxHolds, Working, Holds, AsGood, Resolved, Source
  <2> QED
    BY <2>1, <2>2, <2>4, SameKept DEF MergerInv
<1>8. CASE \E m \in MergeSongs : Resolve(m) \/ PassOver(m) \/ Insert(m)
  BY <1>8, ResolveKeeps, PassOverKeeps, InsertKeeps
<1> QED
  BY <1>2, <1>3, <1>4, <1>5, <1>6, <1>7, <1>8, AttachKeeps, ResolvedKeeps, InsertedKeeps
     DEF MergerNext

\* For every source that was merged without error the target has all its songs,
\* each in a row the strategy ranks at least as high unless that row was passed
\* over, whatever failed or was interrupted before and after it
\* (merger.go:317-890).
THEOREM MergedStays == MergerSpec => []MergedIsKept
<1>1. MergerInv => MergedIsKept
  BY DEF MergerInv
<1> QED
  BY <1>1, MergerStarts, MergerStep, PTL DEF MergerSpec

\* What the full-text index lacks: nothing, unless rows were inserted without
\* the trigger, and then none of the rows that were there before the merge.
Index(D, index) ==
  /\ before \subseteq index
  /\ trigger \/ ~inserted => RowsIn(D) \subseteq index

IndexInv ==
  /\ merge.pc # "done" => Index(target, fts)
  /\ Working => Index(tx.rows, tx.fts)
  /\ merge.pc = "prepare" => trigger
  /\ IndexedWhenDone

LEMMA IndexStarts == MergerInit => IndexInv
<1> SUFFICES ASSUME MergerInit PROVE IndexInv
  OBVIOUS
<1>1. merge.pc = "prepare" /\ trigger /\ fts = RowsIn(target) /\ before = RowsIn(target)
  BY DEF MergerInit
<1> QED
  BY <1>1 DEF IndexInv, Index, Working, IndexedWhenDone

LEMMA IndexStep ==
  ASSUME MergerInv, IndexInv, [MergerNext]_mergerVars
  PROVE  IndexInv'
<1>1. /\ merge \in [pc : {"prepare", "next", "resolve", "insert", "restore", "done"},
                    src : 0..Len(sources), todo : SUBSET MergeSongs]
      /\ trigger \in BOOLEAN /\ inserted \in BOOLEAN
      /\ target \in Databases /\ (Working => tx.rows \in Databases /\ Source \in Databases)
  BY MergerFacts DEF MergerInv, MergerType
<1>2. CASE Prepare
  BY <1>1, <1>2 DEF Prepare, SameDatabase, SameSources, IndexInv, Index, Working, IndexedWhenDone, RowsIn
<1>3. CASE Sourced \/ SkipSource \/ Fail
  <2>1. /\ UNCHANGED <<target, fts, trigger, inserted, before>>
        /\ merge.pc # "done" /\ merge'.pc \in {"next", "restore"}
    BY <1>1, <1>3 DEF Sourced, SkipSource, Fail, SameDatabase, SameSources, Working
  <2> QED
    BY <2>1 DEF IndexInv, Index, Working, IndexedWhenDone, RowsIn
<1>4. CASE Attach
  <2>1. /\ UNCHANGED <<target, fts, trigger, inserted, before>> /\ merge.pc = "next"
        /\ \/ merge' = [merge EXCEPT !.src = @ + 1]
           \/ \E pc \in {"resolve", "insert"} : BeginTx(pc)
    BY <1>4 DEF Attach, SameDatabase, SameSources
  <2>2. CASE merge' = [merge EXCEPT !.src = @ + 1]
    <3>1. merge'.pc = "next"
      BY <1>1, <2>1, <2>2
    <3> QED
      BY <2>1, <3>1 DEF IndexInv, Index, Working, IndexedWhenDone, RowsIn
  <2>3. CASE \E pc \in {"resolve", "insert"} : BeginTx(pc)
    <3>1. tx'.rows = target /\ tx'.fts = fts /\ merge'.pc \in {"resolve", "insert"}
      BY <1>1, <2>3 DEF BeginTx
    <3> QED
      BY <2>1, <3>1 DEF IndexInv, Index, Working, IndexedWhenDone, RowsIn
  <2> QED
    BY <2>1, <2>2, <2>3
<1>5. ASSUME NEW m \in MergeSongs, Resolve(m) PROVE IndexInv'
  <2>1. /\ UNCHANGED <<target, fts, trigger, inserted, before>>
        /\ merge.pc = "resolve" /\ merge'.pc = "resolve" /\ Working
    BY <1>1, <1>5 DEF Resolve, SameDatabase, SameSources, Working
  <2>2. tx'.fts = tx.fts
    BY <1>5 DEF Resolve
  <2>3. \A k \in MergeSongs : tx'.rows[k] # {} => tx.rows[k] # {}
    <3>1. CASE \E s \in Source[m], t \in tx.rows[m] : Replaces(s, t)
      <4>1. tx'.rows = [tx.rows EXCEPT ![m] = Source[m]]
        BY <1>5, <3>1 DEF Resolve
      <4> QED
        BY <1>1, <2>1, <3>1, <4>1 DEF Databases
    <3>2. CASE ~\E s \in Source[m], t \in tx.rows[m] : Replaces(s, t)
      <4>1. tx'.rows = [tx.rows EXCEPT ![m] = tx.rows[m]]
        BY <1>5, <3>2 DEF Resolve
      <4> QED
        BY <1>1, <2>1, <4>1 DEF Databases
    <3> QED
      BY <3>1, <3>2
  <2> QED
    BY <2>1, <2>2, <2>3 DEF IndexInv, Index, Working, IndexedWhenDone, RowsIn
<1>10. ASSUME NEW m \in MergeSongs, PassOver(m) PROVE IndexInv'
  <2>1. /\ UNCHANGED <<target, fts, trigger, inserted, before, tx>>
        /\ merge.pc = "resolve" /\ merge'.pc = "resolve" /\ Working
    BY <1>1, <1>10 DEF PassOver, SameSources, Working
  <2> QED
    BY <2>1 DEF IndexInv, Index, Working, IndexedWhenDone, RowsIn
<1>6. ASSUME NEW m \in MergeSongs, Insert(m) PROVE IndexInv'
  <2>1. /\ UNCHANGED <<target, fts, trigger, before>>
        /\ merge.pc = "insert" /\ merge'.pc = "insert" /\ Working
    BY <1>1, <1>6 DEF Insert, SameDatabase, SameSources, Working
  <2>2. CASE tx.rows[m] = {} /\ Source[m] # {}
    <3>1. /\ tx'.rows = [tx.rows EXCEPT ![m] = Source[m]] /\ inserted'
          /\ tx'.fts = IF trigger THEN tx.fts \cup {m} ELSE tx.fts
      BY <1>1, <1>6, <2>2 DEF Insert
    <3>2. \A k \in MergeSongs : tx'.rows[k] # {} => k = m \/ tx.rows[k] # {}
      BY <1>1, <2>1, <3>1 DEF Databases
    <3> QED
      BY <1>1, <2>1, <3>1, <3>2 DEF IndexInv, Index, Working, IndexedWhenDone, RowsIn
  <2>3. CASE ~(tx.rows[m] = {} /\ Source[m] # {})
    <3>1. tx' = tx /\ inserted' = inserted
      BY <1>1, <1>6, <2>3 DEF Insert
    <3> QED
      BY <1>1, <2>1, <3>1 DEF IndexInv, Index, Working, IndexedWhenDone, RowsIn
  <2> QED
    BY <2>2, <2>3
<1>7. CASE CommitResolved \/ CommitInserted
  <2>1. /\ UNCHANGED <<trigger, inserted, before>> /\ target' = tx.rows /\ fts' = tx.fts /\ Working
        /\ \/ merge'.pc = "insert" /\ tx' = tx
           \/ merge'.pc = "next"
    BY <1>1, <1>7 DEF CommitResolved, CommitInserted, Committed, SameDatabase, SameSources, Working
  <2> QED
    BY <2>1 DEF IndexInv, Index, Working, IndexedWhenDone, RowsIn
<1>8. CASE Restore
  <2>1. /\ UNCHANGED <<target, inserted, before>> /\ trigger' /\ merge'.pc = "done"
        /\ \/ fts' = IF ~trigger /\ inserted THEN fts \cup (RowsIn(target) \ before) ELSE fts
           \/ fts' = RowsIn(target)
        /\ merge.pc = "restore"
    BY <1>1, <1>8 DEF Restore, SameDatabase, SameSources
  <2>2. RowsIn(target) \subseteq fts'
    BY <1>1, <2>1 DEF IndexInv, Index
  <2> QED
    BY <2>1, <2>2 DEF IndexInv, Index, Working, IndexedWhenDone, RowsIn
<1>9. CASE Interrupted \/ UNCHANGED mergerVars
  BY <1>9 DEF Interrupted, mergerVars, IndexInv, Index, Working, IndexedWhenDone, RowsIn
<1> QED
  BY <1>2, <1>3, <1>4, <1>5, <1>6, <1>7, <1>8, <1>9, <1>10 DEF MergerNext

\* When the merge is over, interrupted or not, the insert trigger is back and
\* every row is found by a full-text search (merger.go:405-425).
THEOREM DoneIsIndexed == MergerSpec => []IndexedWhenDone
<1> DEFINE Both == MergerInv /\ IndexInv
<1>1. MergerInit => Both
  BY MergerStarts, IndexStarts
<1>2. Both /\ [MergerNext]_mergerVars => Both'
  BY MergerStep, IndexStep
<1>3. Both => IndexedWhenDone
  BY DEF IndexInv
<1> HIDE DEF Both
<1> QED
  BY <1>1, <1>2, <1>3, PTL DEF MergerSpec

-----------------------------------------------------------------------------
(***************************************************************************)
(* Drive: for any number of callers, folders and accounts, what an         *)
(* overwrite and a search leave. An overwrite that nothing disturbed is    *)
(* the only one under way, and the invariant (Knows) says what it knows    *)
(* of its folder at each place.                                            *)
(***************************************************************************)

Place == {"idle", "look", "update", "delete", "create", "purge", "found"}

DriveShape ==
  /\ made \in Nat /\ late \in BOOLEAN
  /\ caller \in [Callers -> [pc : Place, folder : Nat, ids : SUBSET Nat]]
  /\ files = [id \in DOMAIN files |-> files[id]]
  /\ \A id \in DOMAIN files :
       id \in 1..made /\ files[id] \in [folder : Nat, body : Callers]

\* Of the writers under way at most one is undisturbed.
OneUndisturbed == \A c, d \in Writing : c # d => c \in disturbed

\* A folder that holds one file, of the writer c.
LeftAlone(c, S) == \E id : S = {id} /\ files[id].body = c

\* What an undisturbed writer knows of its folder.
Knows(c) ==
  /\ caller[c].pc = "update" => caller[c].ids = In(caller[c].folder)
  /\ caller[c].pc = "create" => In(caller[c].folder) = {}
  /\ caller[c].pc = "delete" => /\ caller[c].ids \subseteq In(caller[c].folder)
                                /\ LeftAlone(c, In(caller[c].folder) \ caller[c].ids)
  /\ caller[c].pc = "purge" => LeftAlone(c, In(caller[c].folder))

UndisturbedKnow == \A c \in Callers : c \in Writing \ disturbed => Knows(c)

OverwriteInv == DriveShape /\ OneUndisturbed /\ UndisturbedKnow

\* Who changed the set of files comes by the purge.
FreshInv ==
  found # NoSearch /\ ~late /\ found # DOMAIN files =>
    \E c \in Callers : caller[c].pc \in {"delete", "purge"}

-----------------------------------------------------------------------------
(* The shape *)

LEMMA MovedTo ==
  ASSUME DriveShape, NEW c \in Callers, NEW p \in Place, NEW I \in SUBSET Nat, GoWith(c, p, I)
  PROVE  /\ caller' \in [Callers -> [pc : Place, folder : Nat, ids : SUBSET Nat]]
         /\ caller'[c].pc = p /\ caller'[c].folder = caller[c].folder /\ caller'[c].ids = I
         /\ \A d \in Callers \ {c} : caller'[d] = caller[d]
BY DEF DriveShape, GoWith

LEMMA EndsAt ==
  ASSUME DriveShape, NEW c \in Callers, End(c)
  PROVE  /\ caller' \in [Callers -> [pc : Place, folder : Nat, ids : SUBSET Nat]]
         /\ caller'[c].pc = "idle"
         /\ \A d \in Callers \ {c} : caller'[d] = caller[d]
BY DEF DriveShape, End, Done, Place

LEMMA NextFolderAt ==
  ASSUME DriveShape, NEW c \in Callers, NEW end, NextFolder(c, end)
  PROVE  /\ caller' \in [Callers -> [pc : Place, folder : Nat, ids : SUBSET Nat]]
         /\ caller'[c].pc \in {"idle", "look"}
         /\ \A d \in Callers \ {c} : caller'[d] = caller[d]
<1> DEFINE to == IF end = "full" /\ caller[c].folder < Folders
                 THEN [pc |-> "look", folder |-> caller[c].folder + 1, ids |-> {}] ELSE Done
<1>1. caller' = [caller EXCEPT ![c] = to]
  BY DEF NextFolder
<1>2. caller[c].folder + 1 \in Nat
  BY DEF DriveShape
<1>3. to \in [pc : Place, folder : Nat, ids : SUBSET Nat] /\ to.pc \in {"idle", "look"}
  BY <1>2 DEF Done, Place
<1> HIDE DEF to
<1> QED
  BY <1>1, <1>3 DEF DriveShape

LEMMA CallerFields ==
  ASSUME DriveShape, NEW c \in Callers
  PROVE  /\ caller[c].pc \in Place /\ caller[c].folder \in Nat /\ caller[c].ids \in SUBSET Nat
         /\ caller[c] = [pc |-> caller[c].pc, folder |-> caller[c].folder, ids |-> caller[c].ids]
BY DEF DriveShape

-----------------------------------------------------------------------------
(* Who writes *)

LEMMA WritingIs ==
  ASSUME NEW c \in Callers
  PROVE  c \in Writing <=> caller[c].pc \in {"look", "update", "delete", "create", "purge"}
BY DEF Writing

LEMMA WritingPrimed ==
  ASSUME NEW c \in Callers
  PROVE  c \in Writing' <=> caller'[c].pc \in {"look", "update", "delete", "create", "purge"}
BY DEF Writing

\* Knows of the next state depends on the caller, the files and nothing else.
LEMMA KnowsStays ==
  ASSUME NEW d \in Callers, Knows(d), caller'[d] = caller[d], files' = files
  PROVE  Knows(d)'
<1>1. \A f : In(f)' = In(f)
  BY DEF In
<1>2. \A S : LeftAlone(d, S)' <=> LeftAlone(d, S)
  BY DEF LeftAlone
<1> QED
  BY <1>1, <1>2 DEF Knows

\* A step of one caller that begins no overwrite keeps the invariant if what
\* that caller knows is kept: an undisturbed writer is the only one.
LEMMA StepOfOne ==
  ASSUME OverwriteInv, DriveShape', NEW c \in Callers,
         \A d \in Callers \ {c} : caller'[d] = caller[d],
         c \in Writing \/ (c \notin Writing' /\ files' = files),
         disturbed \subseteq disturbed',
         c \in Writing' \ disturbed' => Knows(c)'
  PROVE  OverwriteInv'
<1>1. \A d \in Callers : d \in Writing' => d \in Writing
  <2> TAKE d \in Callers
  <2>1. CASE d = c
    BY <2>1
  <2>2. CASE d # c
    BY <2>2, WritingIs, WritingPrimed
  <2> QED
    BY <2>1, <2>2
<1>2. Writing' \subseteq Callers /\ Writing \subseteq Callers
  BY DEF Writing
<1>3. \A d, e \in Writing : d # e => d \in disturbed
  BY DEF OverwriteInv, OneUndisturbed
<1>4. OneUndisturbed'
  <2> SUFFICES ASSUME NEW d \in Writing', NEW e \in Writing', d # e PROVE d \in disturbed'
    BY DEF OneUndisturbed
  <2> QED
    BY <1>1, <1>2, <1>3
<1>5. UndisturbedKnow'
  <2> SUFFICES ASSUME NEW d \in Callers, d \in Writing' \ disturbed' PROVE Knows(d)'
    BY DEF UndisturbedKnow
  <2>1. CASE d = c
    BY <2>1
  <2>2. CASE d # c
    <3>1. d \in Writing \ disturbed
      BY <1>1
    <3>2. c \notin Writing
      BY <1>3, <2>2, <3>1
    <3>3. files' = files
      BY <3>2
    <3>4. Knows(d)
      BY <3>1 DEF OverwriteInv, UndisturbedKnow
    <3> QED
      BY <2>2, <3>3, <3>4, KnowsStays
  <2> QED
    BY <2>1, <2>2
<1> QED
  BY <1>4, <1>5 DEF OverwriteInv

\* The files of a folder.
LEMMA InFolder ==
  ASSUME NEW f, NEW id
  PROVE  /\ id \in In(f) <=> id \in DOMAIN files /\ files[id].folder = f
         /\ id \in In(f)' <=> id \in DOMAIN files' /\ files'[id].folder = f
BY DEF In

-----------------------------------------------------------------------------
(* The steps *)

LEMMA OverwriteKeeps ==
  ASSUME OverwriteInv, NEW c \in Callers, Overwrite(c)
  PROVE  OverwriteInv'
<1>1. /\ caller[c].pc = "idle" /\ Go(c, "look") /\ UNCHANGED <<files, made, late>>
      /\ disturbed' = IF Writing = {} THEN disturbed \ {c} ELSE disturbed \cup Writing \cup {c}
  BY DEF Overwrite, Start, SameFiles
<1>2. DriveShape
  BY DEF OverwriteInv
<1>3. "look" \in Place /\ caller[c].ids \in SUBSET Nat /\ GoWith(c, "look", caller[c].ids)
  BY <1>1, <1>2, CallerFields DEF Place, Go
<1>4. /\ caller' \in [Callers -> [pc : Place, folder : Nat, ids : SUBSET Nat]]
      /\ caller'[c].pc = "look"
      /\ \A d \in Callers \ {c} : caller'[d] = caller[d]
  BY <1>2, <1>3, MovedTo
<1>5. DriveShape'
  BY <1>1, <1>2, <1>4 DEF DriveShape
<1>6. \A d \in Callers : d \in Writing' => d \in Writing \/ d = c
  BY <1>4, WritingIs, WritingPrimed
<1>7. Writing' \subseteq Callers /\ Writing \subseteq Callers
  BY DEF Writing
<1>8. OneUndisturbed'
  <2> SUFFICES ASSUME NEW d \in Writing', NEW e \in Writing', d # e PROVE d \in disturbed'
    BY DEF OneUndisturbed
  <2>1. d \in Writing \/ e \in Writing
    BY <1>6, <1>7
  <2>2. disturbed' = disturbed \cup Writing \cup {c}
    BY <1>1, <2>1
  <2> QED
    BY <1>6, <1>7, <2>2
<1>9. UndisturbedKnow'
  <2> SUFFICES ASSUME NEW d \in Callers, d \in Writing' \ disturbed' PROVE Knows(d)'
    BY DEF UndisturbedKnow
  <2>1. CASE d = c
    BY <1>4, <2>1 DEF Knows
  <2>2. CASE d # c
    <3>1. d \in Writing
      BY <1>6, <2>2
    <3>2. disturbed' = disturbed \cup Writing \cup {c}
      BY <1>1, <3>1
    <3> QED
      BY <3>1, <3>2
  <2> QED
    BY <2>1, <2>2
<1> QED
  BY <1>5, <1>8, <1>9 DEF OverwriteInv

LEMMA LookForNameKeeps ==
  ASSUME OverwriteInv, NEW c \in Callers, LookForName(c)
  PROVE  OverwriteInv'
<1>1. PICK f : f = caller[c].folder
  OBVIOUS
<1>2. caller[c].pc = "look" /\ UNCHANGED <<files, made, late>>
  BY DEF LookForName, SameFiles
<1>3. DriveShape
  BY DEF OverwriteInv
<1>4. PICK r \in Request("search") :
        /\ IF r[1] = "ok" /\ In(f) # {} THEN GoWith(c, "update", In(f))
           ELSE GoWith(c, "create", {})
        /\ disturbed' = IF r[1] = "ok" THEN disturbed ELSE disturbed \cup {c}
  BY <1>1 DEF LookForName
<1>5. PICK p, I :
        /\ GoWith(c, p, I) /\ p \in {"update", "create"} /\ I \in {In(f), {}}
        /\ c \notin disturbed' /\ p = "update" => I = In(f)
        /\ c \notin disturbed' /\ p = "create" => In(f) = {}
  <2>1. CASE r[1] = "ok" /\ In(f) # {}
    BY <1>4, <2>1
  <2>2. CASE ~(r[1] = "ok" /\ In(f) # {})
    BY <1>4, <2>2
  <2> QED
    BY <2>1, <2>2
<1>6. /\ caller' \in [Callers -> [pc : Place, folder : Nat, ids : SUBSET Nat]]
      /\ caller'[c].pc = p /\ caller'[c].folder = f /\ caller'[c].ids = I
      /\ \A d \in Callers \ {c} : caller'[d] = caller[d]
  <2>1. p \in Place /\ I \in SUBSET Nat
    BY <1>3, <1>5 DEF Place, In, DriveShape
  <2> QED
    BY <1>1, <1>3, <1>5, <2>1, MovedTo
<1>7. DriveShape'
  BY <1>2, <1>3, <1>6 DEF DriveShape
<1>8. c \in Writing
  BY <1>2, WritingIs
<1>9. c \in Writing' \ disturbed' => Knows(c)'
  <2>2. In(caller[c].folder)' = In(f)
    BY <1>2, <1>6 DEF In
  <2> QED
    BY <1>5, <1>6, <2>2 DEF Knows
<1>10. disturbed \subseteq disturbed'
  BY <1>4
<1> QED
  BY <1>6, <1>7, <1>8, <1>9, <1>10, StepOfOne

\* A step that ends a request without knowing anything anew.
LEMMA NextFolderKeeps ==
  ASSUME OverwriteInv, NEW c \in Callers, c \in Writing, NEW end, NextFolder(c, end),
         DriveShape => /\ made' \in Nat /\ late' \in BOOLEAN
                       /\ files' = [id \in DOMAIN files' |-> files'[id]]
                       /\ \A id \in DOMAIN files' : id \in 1..made' /\ files'[id] \in [folder : Nat, body : Callers],
         disturbed \subseteq disturbed'
  PROVE  OverwriteInv'
<1>1. DriveShape
  BY DEF OverwriteInv
<1>4. /\ caller' \in [Callers -> [pc : Place, folder : Nat, ids : SUBSET Nat]]
      /\ caller'[c].pc \in {"idle", "look"}
      /\ \A d \in Callers \ {c} : caller'[d] = caller[d]
  BY <1>1, NextFolderAt
<1>5. DriveShape'
  BY <1>1, <1>4 DEF DriveShape
<1>6. Knows(c)'
  BY <1>4 DEF Knows
<1> QED
  BY <1>4, <1>5, <1>6, StepOfOne

LEMMA UpdateFileKeeps ==
  ASSUME OverwriteInv, NEW c \in Callers, UpdateFile(c)
  PROVE  OverwriteInv'
<1>1. DriveShape
  BY DEF OverwriteInv
<1>2. caller[c].pc = "update" /\ UNCHANGED <<made, disturbed, late>>
  BY DEF UpdateFile
<1>3. PICK r \in Request("update"), id \in caller[c].ids :
        LET ok == r[1] = "ok" /\ id \in DOMAIN files
            dups == caller[c].ids \ {id}
        IN /\ \/ /\ ok \/ r[1] = "lost"
                 /\ id \in DOMAIN files /\ files' = [files EXCEPT ![id].body = c]
              \/ ~ok /\ UNCHANGED files
           /\ IF ok THEN GoWith(c, IF dups = {} THEN "purge" ELSE "delete", dups)
              ELSE NextFolder(c, r[1])
  BY DEF UpdateFile
<1>4. c \in Writing
  BY <1>2, WritingIs
<1>5. /\ files' = [i \in DOMAIN files' |-> files'[i]]
      /\ DOMAIN files' = DOMAIN files
      /\ \A i \in DOMAIN files : /\ files'[i] \in [folder : Nat, body : Callers]
                                 /\ files'[i].folder = files[i].folder
  <2>1. CASE UNCHANGED files
    BY <1>1, <2>1 DEF DriveShape
  <2>2. CASE id \in DOMAIN files /\ files' = [files EXCEPT ![id].body = c]
    <3>1. files[id] \in [folder : Nat, body : Callers]
      BY <1>1, <2>2 DEF DriveShape
    <3> DEFINE new == [files[id] EXCEPT !.body = c]
    <3>2. new \in [folder : Nat, body : Callers] /\ new.folder = files[id].folder
      BY <3>1
    <3>3. files' = [files EXCEPT ![id] = new]
      BY <2>2
    <3> HIDE DEF new
    <3> QED
      BY <1>1, <3>2, <3>3 DEF DriveShape
  <2> QED
    BY <1>3, <2>1, <2>2
<1>6. CASE r[1] = "ok" /\ id \in DOMAIN files
  <2>1. PICK p, I : /\ GoWith(c, p, I) /\ I = caller[c].ids \ {id}
                    /\ p = IF I = {} THEN "purge" ELSE "delete"
    BY <1>3, <1>6
  <2>2. p \in Place /\ I \in SUBSET Nat
    BY <1>1, <2>1, CallerFields DEF Place
  <2>3. /\ caller' \in [Callers -> [pc : Place, folder : Nat, ids : SUBSET Nat]]
        /\ caller'[c].pc = p /\ caller'[c].folder = caller[c].folder /\ caller'[c].ids = I
        /\ \A d \in Callers \ {c} : caller'[d] = caller[d]
    BY <1>1, <2>1, <2>2, MovedTo
  <2>4. DriveShape'
    BY <1>1, <1>2, <1>5, <2>3 DEF DriveShape
  <2>5. files'[id].body = c
    <3>1. files' = [files EXCEPT ![id].body = c]
      BY <1>3, <1>6
    <3>2. files[id] \in [folder : Nat, body : Callers]
      BY <1>1, <1>6 DEF DriveShape
    <3> QED
      BY <1>6, <3>1, <3>2
  <2>6. c \notin disturbed => Knows(c)'
    <3> SUFFICES ASSUME c \notin disturbed PROVE Knows(c)'
      OBVIOUS
    <3>1. caller[c].ids = In(caller[c].folder)
      BY <1>2, <1>4 DEF OverwriteInv, UndisturbedKnow, Knows
    <3>2. In(caller[c].folder)' = In(caller[c].folder)
      BY <1>5, <2>3 DEF In
    <3>3. I = {} => In(caller[c].folder)' = {id}
      BY <2>1, <3>1, <3>2
    <3>4. I # {} => In(caller[c].folder)' \ I = {id} /\ I \subseteq In(caller[c].folder)'
      BY <2>1, <3>1, <3>2
    <3> QED
      BY <2>1, <2>3, <2>5, <3>3, <3>4 DEF Knows, LeftAlone
  <2> QED
    BY <1>2, <1>4, <2>3, <2>4, <2>6, StepOfOne
<1>7. CASE ~(r[1] = "ok" /\ id \in DOMAIN files)
  <2>1. NextFolder(c, r[1])
    BY <1>3, <1>7
  <2>2. DriveShape => /\ made' \in Nat /\ late' \in BOOLEAN
                      /\ \A i \in DOMAIN files' : i \in 1..made' /\ files'[i] \in [folder : Nat, body : Callers]
    BY <1>2, <1>5 DEF DriveShape
  <2> QED
    BY <1>2, <1>4, <1>5, <2>1, <2>2, NextFolderKeeps
<1> QED
  BY <1>6, <1>7

LEMMA DeleteDuplicateKeeps ==
  ASSUME OverwriteInv, NEW c \in Callers, DeleteDuplicate(c)
  PROVE  OverwriteInv'
<1>1. DriveShape
  BY DEF OverwriteInv
<1>2. caller[c].pc = "delete" /\ UNCHANGED made
  BY DEF DeleteDuplicate
<1>3. PICK r \in Request("delete"), id \in caller[c].ids :
        /\ \/ files' = [f \in DOMAIN files \ {id} |-> files[f]]
           \/ r[1] # "ok" /\ UNCHANGED files
        /\ disturbed' = IF r[1] = "ok" THEN disturbed ELSE disturbed \cup {c}
        /\ late' = (late \/ r[1] # "ok")
        /\ GoWith(c, IF caller[c].ids = {id} THEN "purge" ELSE "delete", caller[c].ids \ {id})
  BY DEF DeleteDuplicate
<1>4. c \in Writing
  BY <1>2, WritingIs
<1>5. PICK p, I : /\ GoWith(c, p, I) /\ I = caller[c].ids \ {id}
                  /\ p = IF caller[c].ids = {id} THEN "purge" ELSE "delete"
  BY <1>3
<1>6. p \in Place /\ I \in SUBSET Nat
  BY <1>1, <1>5, CallerFields DEF Place
<1>7. /\ caller' \in [Callers -> [pc : Place, folder : Nat, ids : SUBSET Nat]]
      /\ caller'[c].pc = p /\ caller'[c].folder = caller[c].folder /\ caller'[c].ids = I
      /\ \A d \in Callers \ {c} : caller'[d] = caller[d]
  BY <1>1, <1>5, <1>6, MovedTo
<1>8. /\ files' = [i \in DOMAIN files' |-> files'[i]]
      /\ DOMAIN files' \subseteq DOMAIN files
      /\ \A i \in DOMAIN files' : files'[i] = files[i]
  BY <1>1, <1>3 DEF DriveShape
<1>9. DriveShape'
  BY <1>1, <1>2, <1>3, <1>7, <1>8 DEF DriveShape
<1>10. c \notin disturbed' => Knows(c)'
  <2> SUFFICES ASSUME c \notin disturbed' PROVE Knows(c)'
    OBVIOUS
  <2>1. r[1] = "ok" /\ c \notin disturbed
    BY <1>3
  <2>2. files' = [f \in DOMAIN files \ {id} |-> files[f]]
    BY <1>3, <2>1
  <2>3. /\ caller[c].ids \subseteq In(caller[c].folder)
        /\ LeftAlone(c, In(caller[c].folder) \ caller[c].ids)
    BY <1>2, <1>4, <2>1 DEF OverwriteInv, UndisturbedKnow, Knows
  <2>4. PICK left : In(caller[c].folder) \ caller[c].ids = {left} /\ files[left].body = c
    BY <2>3 DEF LeftAlone
  <2>5. In(caller[c].folder)' = In(caller[c].folder) \ {id}
    BY <1>7, <2>2 DEF In
  <2>6. left \in DOMAIN files' /\ files'[left].body = c
    BY <1>3, <2>2, <2>4 DEF In
  <2>7. In(caller[c].folder)' \ I = {left} /\ I \subseteq In(caller[c].folder)'
    BY <1>5, <2>3, <2>4, <2>5
  <2>8. p = "purge" => In(caller[c].folder)' = {left}
    BY <1>5, <2>4, <2>5, <2>7
  <2>9. p \in {"purge", "delete"}
    BY <1>5
  <2> QED
    BY <1>7, <2>6, <2>7, <2>8, <2>9 DEF Knows, LeftAlone
<1>11. disturbed \subseteq disturbed'
  BY <1>3
<1> QED
  BY <1>4, <1>7, <1>9, <1>10, <1>11, StepOfOne

LEMMA CreateKeeps ==
  ASSUME OverwriteInv, NEW c \in Callers, Create(c)
  PROVE  OverwriteInv'
<1>1. DriveShape
  BY DEF OverwriteInv
<1>2. caller[c].pc = "create" /\ UNCHANGED disturbed
  BY DEF Create
<1> DEFINE new == [folder |-> caller[c].folder, body |-> c]
<1>3. PICK r \in Request("create") :
        /\ \/ /\ files' = [id \in DOMAIN files \cup {made + 1} |->
                            IF id = made + 1 THEN new ELSE files[id]]
              /\ made' = made + 1
           \/ r[1] # "ok" /\ UNCHANGED <<files, made>>
        /\ IF r[1] = "ok" THEN Go(c, "purge") ELSE NextFolder(c, r[1])
        /\ late' = (late \/ r[1] = "lost")
  BY DEF Create, SameFiles
<1>4. c \in Writing
  BY <1>2, WritingIs
<1>5. new \in [folder : Nat, body : Callers] /\ new.folder = caller[c].folder /\ new.body = c
  BY <1>1, CallerFields
<1> HIDE DEF new
<1>6. /\ made' \in Nat /\ late' \in BOOLEAN
      /\ files' = [id \in DOMAIN files' |-> files'[id]]
      /\ \A id \in DOMAIN files' : id \in 1..made' /\ files'[id] \in [folder : Nat, body : Callers]
  BY <1>1, <1>3, <1>5 DEF DriveShape
<1>7. CASE r[1] = "ok"
  <2>1. /\ files' = [id \in DOMAIN files \cup {made + 1} |->
                       IF id = made + 1 THEN new ELSE files[id]]
        /\ GoWith(c, "purge", caller[c].ids)
    BY <1>3, <1>7 DEF Go
  <2>2. "purge" \in Place /\ caller[c].ids \in SUBSET Nat
    BY <1>1, CallerFields DEF Place
  <2>3. /\ caller' \in [Callers -> [pc : Place, folder : Nat, ids : SUBSET Nat]]
        /\ caller'[c].pc = "purge" /\ caller'[c].folder = caller[c].folder
        /\ \A d \in Callers \ {c} : caller'[d] = caller[d]
    BY <1>1, <2>1, <2>2, MovedTo
  <2>4. DriveShape'
    BY <1>6, <2>3 DEF DriveShape
  <2>5. c \notin disturbed => Knows(c)'
    <3> SUFFICES ASSUME c \notin disturbed PROVE Knows(c)'
      OBVIOUS
    <3>1. In(caller[c].folder) = {}
      BY <1>2, <1>4 DEF OverwriteInv, UndisturbedKnow, Knows
    <3>2. In(caller[c].folder)' = {made + 1}
      BY <1>5, <2>1, <2>3, <3>1 DEF In
    <3>3. files'[made + 1].body = c
      BY <1>5, <2>1
    <3> QED
      BY <2>3, <3>2, <3>3 DEF Knows, LeftAlone
  <2> QED
    BY <1>2, <1>4, <2>3, <2>4, <2>5, StepOfOne
<1>8. CASE r[1] # "ok"
  BY <1>2, <1>3, <1>4, <1>6, <1>8, NextFolderKeeps
<1> QED
  BY <1>7, <1>8

\* A step of a caller that writes no file and is under no overwrite after it.
LEMMA QuietKeeps ==
  ASSUME OverwriteInv, NEW c \in Callers,
         caller' \in [Callers -> [pc : Place, folder : Nat, ids : SUBSET Nat]],
         \A d \in Callers \ {c} : caller'[d] = caller[d],
         caller'[c].pc \in {"idle", "found"},
         UNCHANGED <<files, made, disturbed>>, late' \in BOOLEAN
  PROVE  OverwriteInv'
<1>1. DriveShape'
  BY DEF DriveShape, OverwriteInv
<1>2. c \notin Writing'
  BY WritingPrimed
<1> QED
  BY <1>1, <1>2, StepOfOne

LEMMA PurgeKeeps ==
  ASSUME OverwriteInv, NEW c \in Callers, Purge(c)
  PROVE  OverwriteInv'
<1>1. End(c) /\ UNCHANGED <<files, made, disturbed, late>>
  BY DEF Purge, SameFiles
<1>2. DriveShape /\ late' \in BOOLEAN
  BY <1>1 DEF OverwriteInv, DriveShape
<1> QED
  BY <1>1, <1>2, EndsAt, QuietKeeps

LEMMA KeepFoundKeeps ==
  ASSUME OverwriteInv, NEW c \in Callers, KeepFound(c)
  PROVE  OverwriteInv'
<1>1. End(c) /\ UNCHANGED <<files, made, disturbed>> /\ late' \in BOOLEAN
  BY DEF KeepFound, SameFiles, OverwriteInv, DriveShape
<1>2. DriveShape
  BY DEF OverwriteInv
<1> QED
  BY <1>1, <1>2, EndsAt, QuietKeeps

\* Steps that leave the callers and the files alone.
LEMMA UnseenKeeps ==
  ASSUME OverwriteInv, UNCHANGED <<files, made, caller, disturbed, late>>
  PROVE  OverwriteInv'
<1>1. DriveShape'
  BY DEF OverwriteInv, DriveShape
<1>2. Writing' = Writing
  BY DEF Writing
<1>3. OneUndisturbed'
  BY <1>2 DEF OverwriteInv, OneUndisturbed
<1>4. UndisturbedKnow'
  <2> SUFFICES ASSUME NEW d \in Callers, d \in Writing' \ disturbed' PROVE Knows(d)'
    BY DEF UndisturbedKnow
  <2>1. Knows(d)
    BY <1>2 DEF OverwriteInv, UndisturbedKnow
  <2> QED
    BY <2>1, KnowsStays
<1> QED
  BY <1>1, <1>3, <1>4 DEF OverwriteInv

LEMMA FindFileKeeps ==
  ASSUME OverwriteInv, NEW c \in Callers, FindFile(c)
  PROVE  OverwriteInv'
<1>1. UNCHANGED <<files, made, disturbed, late>>
  BY DEF FindFile, SameFiles
<1>2. DriveShape /\ late' \in BOOLEAN
  BY <1>1 DEF OverwriteInv, DriveShape
<1>3. CASE UNCHANGED caller
  BY <1>1, <1>3, UnseenKeeps
<1>4. CASE GoWith(c, "found", DOMAIN files)
  <2>1. "found" \in Place /\ DOMAIN files \in SUBSET Nat
    BY <1>2 DEF Place, DriveShape
  <2>2. /\ caller' \in [Callers -> [pc : Place, folder : Nat, ids : SUBSET Nat]]
        /\ caller'[c].pc = "found"
        /\ \A d \in Callers \ {c} : caller'[d] = caller[d]
    BY <1>2, <1>4, <2>1, MovedTo
  <2> QED
    BY <1>1, <1>2, <2>2, QuietKeeps
<1> QED
  BY <1>3, <1>4 DEF FindFile

LEMMA OverwriteInvHolds == DriveInit => OverwriteInv
<1> SUFFICES ASSUME DriveInit PROVE OverwriteInv
  OBVIOUS
<1>1. /\ files = <<>> /\ made = 0 /\ late = FALSE
      /\ caller = [c \in Callers |-> Done]
  BY DEF DriveInit
<1>2. Done \in [pc : Place, folder : Nat, ids : SUBSET Nat] /\ Done.pc = "idle"
  BY DEF Done, Place
<1>3. DriveShape
  <2>1. DOMAIN files = {} /\ files = [id \in {} |-> files[id]]
    BY <1>1
  <2> QED
    BY <1>1, <1>2, <2>1 DEF DriveShape
<1>4. Writing = {}
  BY <1>1, <1>2 DEF Writing
<1> QED
  BY <1>3, <1>4 DEF OverwriteInv, OneUndisturbed, UndisturbedKnow

LEMMA OverwriteInvStep == OverwriteInv /\ [DriveNext]_driveVars => OverwriteInv'
<1> SUFFICES ASSUME OverwriteInv, [DriveNext]_driveVars PROVE OverwriteInv'
  OBVIOUS
<1>1. CASE UNCHANGED driveVars
  BY <1>1, UnseenKeeps DEF driveVars
<1>2. CASE Reopen
  BY <1>2, UnseenKeeps DEF Reopen, SameFiles
<1>3. CASE Expire
  BY <1>3, UnseenKeeps DEF Expire, SameFiles
<1>4. ASSUME NEW c \in Callers, Backup(c) PROVE OverwriteInv'
  BY <1>4, UnseenKeeps DEF Backup, SameFiles
<1>5. ASSUME NEW c \in Callers,
             \/ Overwrite(c) \/ LookForName(c) \/ UpdateFile(c) \/ DeleteDuplicate(c)
             \/ Create(c) \/ Purge(c) \/ FindFile(c) \/ KeepFound(c)
      PROVE  OverwriteInv'
  BY <1>5, OverwriteKeeps, LookForNameKeeps, UpdateFileKeeps, DeleteDuplicateKeeps,
     CreateKeeps, PurgeKeeps, FindFileKeeps, KeepFoundKeeps
<1> QED
  BY <1>1, <1>2, <1>3, <1>4, <1>5 DEF DriveNext

\* However many callers, folders and accounts there are and whatever requests
\* fail or are lost: an overwrite that updated a file, overlapped no other and
\* lost none of its requests leaves that file alone in its folder, with its
\* content (gdrive.go:654-703).
THEOREM OverwriteLeavesOneFile == DriveSpec => []OverwriteLeavesOne
<1>1. OverwriteInv => OverwriteLeavesOne
  <2> SUFFICES ASSUME OverwriteInv, NEW c \in Callers, caller[c].pc = "purge", c \notin disturbed
               PROVE  /\ Cardinality(In(caller[c].folder)) = 1
                      /\ \A id \in In(caller[c].folder) : files[id].body = c
    BY DEF OverwriteLeavesOne
  <2>1. c \in Writing \ disturbed
    BY WritingIs
  <2>2. PICK id : In(caller[c].folder) = {id} /\ files[id].body = c
    BY <2>1 DEF OverwriteInv, UndisturbedKnow, Knows, LeftAlone
  <2> QED
    BY <2>2, FS_Singleton
<1> QED
  BY <1>1, OverwriteInvHolds, OverwriteInvStep, PTL DEF DriveSpec

-----------------------------------------------------------------------------
(* The cached searches *)

\* A caller that comes by the purge stays on its way there.
LEMMA OnTheWayStays ==
  ASSUME DriveShape, NEW c \in Callers, caller[c].pc \in {"delete", "purge"},
         [DriveNext]_driveVars
  PROVE  caller'[c].pc \in {"delete", "purge"} \/ found' = NoSearch
<1>1. CASE UNCHANGED caller
  BY <1>1
<1>2. ASSUME NEW d \in Callers,
             Overwrite(d) \/ LookForName(d) \/ UpdateFile(d) \/ Create(d) \/ FindFile(d) \/ KeepFound(d)
      PROVE  caller'[c] = caller[c]
  <2>1. caller[d].pc \notin {"delete", "purge"}
    BY <1>2 DEF Overwrite, LookForName, UpdateFile, Create, FindFile, KeepFound
  <2>2. \/ UNCHANGED caller \/ End(d)
        \/ \E p, I : GoWith(d, p, I) \/ \E end : NextFolder(d, end)
    BY <1>2 DEF Overwrite, LookForName, UpdateFile, Create, FindFile, KeepFound, Start, Go
  <2>3. c # d
    BY <2>1
  <2> QED
    BY <2>2, <2>3 DEF DriveShape, End, GoWith, NextFolder
<1>3. ASSUME NEW d \in Callers, DeleteDuplicate(d)
      PROVE  caller'[c].pc \in {"delete", "purge"}
  <2>1. PICK p, I : GoWith(d, p, I) /\ p \in {"delete", "purge"}
    BY <1>3 DEF DeleteDuplicate
  <2> QED
    BY <2>1 DEF DriveShape, GoWith
<1>4. ASSUME NEW d \in Callers, Purge(d)
      PROVE  found' = NoSearch
  BY <1>4 DEF Purge, PurgeSearches
<1>5. ASSUME NEW d \in Callers, Backup(d) PROVE UNCHANGED caller
  BY <1>5 DEF Backup
<1>6. Reopen \/ Expire => UNCHANGED caller
  BY DEF Reopen, Expire
<1> QED
  BY <1>1, <1>2, <1>3, <1>4, <1>5, <1>6 DEF DriveNext, driveVars

LEMMA FreshStep ==
  ASSUME DriveShape, FreshInv, [DriveNext]_driveVars
  PROVE  FreshInv'
<1> SUFFICES ASSUME found' # NoSearch, ~late', found' # DOMAIN files'
             PROVE  \E c \in Callers : caller'[c].pc \in {"delete", "purge"}
  BY DEF FreshInv, NoSearch
<1>1. CASE found # NoSearch /\ ~late /\ found # DOMAIN files
  <2>1. PICK c \in Callers : caller[c].pc \in {"delete", "purge"}
    BY <1>1 DEF FreshInv
  <2> QED
    BY <2>1, OnTheWayStays
<1>2. CASE ~(found # NoSearch /\ ~late /\ found # DOMAIN files)
  <2>1. CASE \E c \in Callers : DeleteDuplicate(c)
    <3>1. PICK c \in Callers : DeleteDuplicate(c)
      BY <2>1
    <3>2. PICK p, I : GoWith(c, p, I) /\ p \in {"delete", "purge"}
      BY <3>1 DEF DeleteDuplicate
    <3> QED
      BY <3>2 DEF DriveShape, GoWith
  <2>2. CASE \E c \in Callers : Create(c)
    <3>1. PICK c \in Callers : Create(c)
      BY <2>2
    <3>2. UNCHANGED found
      BY <3>1 DEF Create
    <3>3. PICK r \in Request("create") :
            /\ r[1] \in {"ok", "lost"} \/ UNCHANGED <<files, made>>
            /\ r[1] = "ok" => Go(c, "purge")
            /\ late' = (late \/ r[1] = "lost")
      BY <3>1 DEF Create, SameFiles
    <3>4. ~late /\ r[1] # "lost"
      BY <3>3
    <3>5. Go(c, "purge")
      BY <1>2, <3>2, <3>3, <3>4
    <3> QED
      BY <3>5 DEF DriveShape, Go, GoWith
  <2>3. CASE \E c \in Callers : UpdateFile(c)
    <3>1. PICK c \in Callers : UpdateFile(c)
      BY <2>3
    <3>2. UNCHANGED <<found, late>> /\ DOMAIN files' = DOMAIN files
      BY <3>1 DEF UpdateFile
    <3> QED
      BY <1>2, <3>2
  <2>4. CASE \E c \in Callers : KeepFound(c)
    <3>1. PICK c \in Callers : KeepFound(c)
      BY <2>4
    <3>2. late' = (late \/ found' # DOMAIN files) /\ UNCHANGED files
      BY <3>1 DEF KeepFound, SameFiles
    <3> QED
      BY <3>2
  <2>5. CASE \E c \in Callers : Purge(c)
    BY <2>5 DEF Purge, PurgeSearches
  <2>6. CASE \E c \in Callers : Overwrite(c) \/ LookForName(c) \/ Backup(c) \/ FindFile(c)
    <3>1. UNCHANGED <<found, late, files>>
      BY <2>6 DEF Overwrite, LookForName, Backup, FindFile, SameFiles
    <3> QED
      BY <1>2, <3>1
  <2>7. CASE Reopen \/ Expire
    <3>1. UNCHANGED <<late, files>> /\ (UNCHANGED found \/ found' = NoSearch)
      BY <2>7 DEF Reopen, Expire, SameFiles
    <3> QED
      BY <1>2, <3>1
  <2>8. CASE UNCHANGED driveVars
    BY <1>2, <2>8 DEF driveVars
  <2> QED
    BY <2>1, <2>2, <2>3, <2>4, <2>5, <2>6, <2>7, <2>8 DEF DriveNext
<1> QED
  BY <1>1, <1>2

\* However many callers there are: unless an answer came late or was lost, what
\* the cache of searches holds when no overwrite is under way is what a search
\* would find (gdrive.go:654-800).
THEOREM SearchesStayFresh == DriveSpec => []SearchesAreFresh
<1>1. DriveInit => OverwriteInv /\ FreshInv
  <2>1. DriveInit => FreshInv
    BY DEF DriveInit, FreshInv
  <2> QED
    BY <2>1, OverwriteInvHolds
<1>2. (OverwriteInv /\ FreshInv) /\ [DriveNext]_driveVars => (OverwriteInv /\ FreshInv)'
  BY OverwriteInvStep, FreshStep DEF OverwriteInv
<1>3. OverwriteInv /\ FreshInv => SearchesAreFresh
  <2> SUFFICES ASSUME FreshInv, Writing = {}, found # NoSearch, ~late PROVE found = DOMAIN files
    BY DEF SearchesAreFresh
  <2> QED
    BY DEF FreshInv, Writing
<1> QED
  BY <1>1, <1>2, <1>3, PTL DEF DriveSpec

-----------------------------------------------------------------------------
(***************************************************************************)
(* DriveSync: for any files, pages and workers, a first pass that calls    *)
(* itself complete has fetched every file. The invariant follows each      *)
(* file the pages have listed: it is stored, queued, in work or among the  *)
(* failed.                                                                 *)
(***************************************************************************)

SyncPcs == {"none", "list", "search", "queue", "close", "retry", "flush", "done"}
JobStates == [pc : {"waiting", "download", "ended"}, job : SUBSET Files]

MainRecords == [pc : SyncPcs, page : Nat, todo : SUBSET Files, first : BOOLEAN, errors : BOOLEAN]

SyncType ==
  /\ db \subseteq Files /\ rows \subseteq Files /\ failed \subseteq Files
  /\ token \in Nat /\ cancelled \in BOOLEAN
  /\ main \in MainRecords
  /\ queue \in Seq(Files)
  /\ worker \in [SyncWorkers -> JobStates]
  /\ \A w \in SyncWorkers : worker[w].pc # "download" => worker[w] \in {Waiting, EndedWorker}

InQueue(f) == \E i \in 1..Len(queue) : queue[i] = f
InWork(f) == \E w \in SyncWorkers : f \in worker[w].job

\* Where a file may be that the main loop has dealt with.
Pending(f) == f \in db \/ f \in rows \/ f \in failed \/ InQueue(f) \/ InWork(f)

Listed(f) ==
  \/ main.pc \in {"list", "search"} /\ PageOf[f] < main.page
  \/ main.pc = "queue" /\ (PageOf[f] < main.page \/ (PageOf[f] = main.page /\ f \notin main.todo))
  \/ main.pc \in {"close", "retry", "flush", "done"}

\* A run that may call itself complete.
Clean == main.pc # "none" /\ main.first /\ ~cancelled /\ ~main.errors

SyncInv ==
  /\ SyncType
  /\ \A w \in SyncWorkers : worker[w].pc = "ended" => cancelled
  /\ Clean =>
       /\ \A f \in Files : Listed(f) => Pending(f)
       /\ main.pc \in {"retry", "flush", "done"} =>
            \A f \in Files : ~InQueue(f) /\ ~InWork(f)
       /\ main.pc \in {"flush", "done"} => failed = {}
       /\ main.pc = "done" => rows = {}

LEMMA PageIsCounted ==
  /\ Cardinality(Pages) \in Nat
  /\ \A f \in Files : PageOf[f] \in Nat /\ PageOf[f] <= Cardinality(Pages)
<1> DEFINE g == [x \in Files |-> PageOf[x]]
<1>1. IsFiniteSet(Pages)
  <2>1. g \in [Files -> Pages] /\ \A p \in Pages : \E x \in Files : g[x] = p
    BY DEF Pages
  <2> HIDE DEF g
  <2>2. g \in Surjection(Files, Pages)
    BY <2>1, Fun_IsSurj
  <2> QED
    BY <2>2, DriveSyncAssumption, FS_Surjection
<1>2. Cardinality(Pages) \in Nat
  BY <1>1, FS_CardinalityType
<1>3. \A f \in Files : PageOf[f] \in 1..Cardinality(Pages)
  BY DriveSyncAssumption DEF DriveSyncAssumption, Pages
<1> QED
  BY <1>2, <1>3

LEMMA SyncStarts == DriveSyncInit => SyncInv
<1> SUFFICES ASSUME DriveSyncInit PROVE SyncInv
  OBVIOUS
<1>1. /\ main \in MainRecords
      /\ main.pc = "none"
  BY DEF DriveSyncInit, NotRunning, MainRecords, SyncPcs
<1>2. /\ worker \in [SyncWorkers -> JobStates]
      /\ \A w \in SyncWorkers : worker[w] = Waiting /\ worker[w].pc # "ended"
  BY DEF DriveSyncInit, Waiting, JobStates
<1>3. queue \in Seq(Files)
  BY EmptySeq DEF DriveSyncInit
<1> QED
  BY <1>1, <1>2, <1>3 DEF DriveSyncInit, SyncInv, SyncType, Clean

\* The shape of the state after a step, and that no ended worker is unaccounted.
Shape == SyncType /\ \A w \in SyncWorkers : worker[w].pc = "ended" => cancelled

LEMMA QueueFacts ==
  ASSUME SyncType
  PROVE  /\ Len(queue) \in Nat
         /\ \A f \in Files : /\ Append(queue, f) \in Seq(Files)
                             /\ Len(Append(queue, f)) = Len(queue) + 1
                             /\ Append(queue, f)[Len(queue) + 1] = f
                             /\ \A i \in 1..Len(queue) : Append(queue, f)[i] = queue[i]
         /\ queue # <<>> =>
              /\ Tail(queue) \in Seq(Files) /\ Len(queue) # 0 /\ Head(queue) = queue[1]
              /\ Head(queue) \in Files /\ Len(Tail(queue)) = Len(queue) - 1
              /\ \A i \in 1..Len(Tail(queue)) : Tail(queue)[i] = queue[i + 1]
<1>1. queue \in Seq(Files)
  BY DEF SyncType, MainRecords
<1>2. Len(queue) \in Nat
  BY <1>1, LenProperties
<1>3. ASSUME NEW f \in Files
      PROVE  /\ Append(queue, f) \in Seq(Files)
             /\ Len(Append(queue, f)) = Len(queue) + 1
             /\ Append(queue, f)[Len(queue) + 1] = f
             /\ \A i \in 1..Len(queue) : Append(queue, f)[i] = queue[i]
  BY <1>1, <1>2, AppendProperties
<1>4. ASSUME queue # <<>>
      PROVE  /\ Tail(queue) \in Seq(Files) /\ Len(queue) # 0 /\ Head(queue) = queue[1]
             /\ Head(queue) \in Files /\ Len(Tail(queue)) = Len(queue) - 1
             /\ \A i \in 1..Len(Tail(queue)) : Tail(queue)[i] = queue[i + 1]
  BY <1>1, <1>2, <1>4, HeadTailProperties, EmptySeq
<1> QED
  BY <1>2, <1>3, <1>4

\* The steps of the main loop that queue nothing.
LEMMA MainKeeps ==
  ASSUME SyncInv, Loop \/ ListPage \/ SaveCheckpoint \/ CloseQueue \/ Finish \/ Launch
  PROVE  SyncInv'
<1>1. /\ UNCHANGED <<db, queue, worker, rows, failed, cancelled>>
      /\ SyncType /\ \A w \in SyncWorkers : worker[w].pc = "ended" => cancelled
      /\ token' \in Nat /\ main' \in MainRecords
  <2>1. /\ SyncType /\ \A w \in SyncWorkers : worker[w].pc = "ended" => cancelled
        /\ main \in MainRecords /\ main.page \in Nat /\ token \in Nat
    BY DEF SyncInv, SyncType, MainRecords
  <2>2. UNCHANGED <<db, queue, worker, rows, failed, cancelled>>
    BY DEF Loop, ListPage, SaveCheckpoint, CloseQueue, Finish, Launch
  <2>3. CASE Launch
    <3>1. NotRunning \in MainRecords
      BY DEF NotRunning, MainRecords, SyncPcs
    <3>2. PICK t \in {token, 0} :
            main' = [NotRunning EXCEPT !.pc = "list", !.page = IF t = 0 THEN 1 ELSE t, !.first = t = 0]
      BY <2>3 DEF Launch
    <3> DEFINE p == IF t = 0 THEN 1 ELSE t
    <3> DEFINE q == t = 0
    <3>3. p \in Nat /\ q \in BOOLEAN
      BY <2>1, <3>2
    <3>5. main' = [NotRunning EXCEPT !.pc = "list", !.page = p, !.first = q]
      BY <3>2
    <3> HIDE DEF p, q
    <3>4. main' \in MainRecords
      BY <3>1, <3>3, <3>5 DEF MainRecords, SyncPcs
    <3> QED
      BY <2>1, <2>2, <2>3, <3>4 DEF Launch
  <2>4. CASE SaveCheckpoint
    <3> DEFINE last == main.page >= Cardinality(Pages)
               pc == IF last THEN "close" ELSE "list"
               page == IF last THEN main.page ELSE main.page + 1
    <3>3. main' = [main EXCEPT !.pc = pc, !.page = page]
      BY <2>4 DEF SaveCheckpoint
    <3>4. pc \in SyncPcs /\ page \in Nat
      BY <2>1 DEF SyncPcs
    <3> HIDE DEF last, pc, page
    <3>1. main' \in MainRecords
      BY <2>1, <3>3, <3>4 DEF MainRecords
    <3>2. token' \in Nat
      BY <2>1, <2>4 DEF SaveCheckpoint
    <3> QED
      BY <2>1, <2>2, <3>1, <3>2
  <2>5. CASE Loop \/ CloseQueue \/ Finish
    BY <2>1, <2>2, <2>5 DEF Loop, CloseQueue, Finish, MainRecords, SyncPcs
  <2>6. CASE ListPage
    BY <2>1, <2>2, <2>6 DEF ListPage, MainRecords, SyncPcs
  <2> QED
    BY <2>3, <2>4, <2>5, <2>6
<1>2. SyncType'
  BY <1>1 DEF SyncType, MainRecords
<1>3. \A f : (Pending(f)' <=> Pending(f)) /\ (InQueue(f)' <=> InQueue(f)) /\ (InWork(f)' <=> InWork(f))
  BY <1>1 DEF Pending, InQueue, InWork
<1>4. main.page \in Nat /\ main'.page \in Nat
  BY <1>1 DEF SyncType, MainRecords
<1> SUFFICES ASSUME Clean'
             PROVE  /\ \A f \in Files : Listed(f)' => Pending(f)
                    /\ main'.pc \in {"retry", "flush", "done"} =>
                         \A f \in Files : ~InQueue(f) /\ ~InWork(f)
                    /\ main'.pc \in {"flush", "done"} => failed = {}
                    /\ main'.pc = "done" => rows = {}
  BY <1>1, <1>2, <1>3 DEF SyncInv
<1>5. CASE Launch
  <2>1. main'.pc = "list" /\ main'.first
    BY <1>5 DEF Launch, NotRunning, Clean
  <2>2. main'.page = 1
    BY <1>1, <1>5, <2>1 DEF Launch, NotRunning, SyncType, MainRecords
  <2>3. \A f \in Files : PageOf[f] \in Nat /\ PageOf[f] # 0
    BY DriveSyncAssumption, PageIsCounted DEF DriveSyncAssumption, Pages
  <2> QED
    BY <2>1, <2>2, <2>3 DEF Listed
<1>6. CASE ~Launch
  <2>1. Clean
    BY <1>1, <1>6 DEF Clean, SyncType, MainRecords, Loop, ListPage, SaveCheckpoint, CloseQueue, Finish
  <2>2. /\ \A f \in Files : Listed(f) => Pending(f)
        /\ main.pc \in {"retry", "flush", "done"} =>
             \A f \in Files : ~InQueue(f) /\ ~InWork(f)
        /\ main.pc \in {"flush", "done"} => failed = {}
        /\ ~cancelled
    BY <2>1 DEF SyncInv, Clean
  <2>3. CASE Loop
    <3>1. main.pc = "list" /\ main' = [main EXCEPT !.pc = "search"]
      BY <2>2, <2>3 DEF Loop
    <3>2. main'.pc = "search" /\ main'.page = main.page
      BY <1>1, <3>1 DEF SyncType, MainRecords
    <3> QED
      BY <2>2, <3>1, <3>2 DEF Listed
  <2>4. CASE ListPage
    <3>1. /\ main.pc = "search"
          /\ main' = [main EXCEPT !.pc = "queue", !.todo = {f \in Files : PageOf[f] = main.page}]
      BY <1>1, <2>4 DEF ListPage, Clean, SyncType, MainRecords
    <3>2. /\ main'.pc = "queue" /\ main'.page = main.page
          /\ main'.todo = {f \in Files : PageOf[f] = main.page}
      BY <1>1, <3>1 DEF SyncType, MainRecords
    <3> QED
      BY <2>2, <3>1, <3>2 DEF Listed
  <2>5. CASE SaveCheckpoint
    <3>1. /\ main.pc = "queue" /\ main.todo = {}
          /\ \/ main.page >= Cardinality(Pages) /\ main'.pc = "close"
             \/ main'.pc = "list" /\ main'.page = main.page + 1
      BY <1>1, <2>5 DEF SaveCheckpoint, SyncType, MainRecords
    <3>2. \A f \in Files : PageOf[f] < main.page + 1 => Listed(f)
      BY <1>4, <3>1, PageIsCounted DEF Listed
    <3>3. \A f \in Files : Listed(f)' => PageOf[f] < main.page + 1
      BY <1>4, <3>1, PageIsCounted DEF Listed
    <3> QED
      BY <2>2, <3>1, <3>2, <3>3
  <2>6. CASE CloseQueue
    <3>1. /\ main.pc = "close" /\ main'.pc \in {"flush", "retry"}
          /\ main'.pc = "flush" => failed = {}
          /\ \A w \in SyncWorkers : worker[w] = EndedWorker \/ (worker[w] = Waiting /\ queue = <<>>)
      BY <1>1, <2>2, <2>6 DEF CloseQueue, SyncType, MainRecords
    <3>2. \A w \in SyncWorkers : worker[w] = Waiting /\ queue = <<>>
      BY <1>1, <2>2, <3>1 DEF EndedWorker
    <3>3. \A f : ~InWork(f)
      BY <3>2 DEF InWork, Waiting
    <3>4. queue = <<>>
      BY <3>2, DriveSyncAssumption DEF DriveSyncAssumption
    <3>5. \A f : ~InQueue(f)
      BY <3>4, EmptySeq DEF InQueue
    <3> QED
      BY <2>2, <3>1, <3>3, <3>5 DEF Listed
  <2>7. CASE Finish
    <3>1. main.pc = "flush" /\ main'.pc = "done" /\ rows = {}
      BY <1>1, <2>7 DEF Finish, SyncType, MainRecords
    <3> QED
      BY <2>2, <3>1 DEF Listed
  <2> QED
    BY <1>6, <2>3, <2>4, <2>5, <2>6, <2>7
<1> QED
  BY <1>5, <1>6

\* The other steps do not move the main loop on; each file stays somewhere.
LEMMA FilesKeep ==
  ASSUME SyncInv, SyncType', \A w \in SyncWorkers : worker'[w].pc = "ended" => cancelled',
         Clean' => /\ Clean
                   /\ \A f \in Files : Pending(f) => Pending(f)'
                   /\ \A f \in Files : Listed(f)' => Listed(f) \/ Pending(f)'
                   /\ \A f \in Files : (InQueue(f)' => InQueue(f) \/ main'.pc = "queue")
                                       /\ (InWork(f)' => InWork(f) \/ InQueue(f))
                   /\ main'.pc = main.pc \/ (main.pc = "retry" /\ failed' = {} /\ main'.pc = "flush")
                   /\ main.pc \in {"flush", "done"} => failed' = {}
                   /\ main.pc = "done" => rows' = {}
  PROVE  SyncInv'
<1> SUFFICES ASSUME Clean'
             PROVE  /\ \A f \in Files : Listed(f)' => Pending(f)'
                    /\ main'.pc \in {"retry", "flush", "done"} =>
                         \A f \in Files : ~InQueue(f)' /\ ~InWork(f)'
                    /\ main'.pc \in {"flush", "done"} => failed' = {}
                    /\ main'.pc = "done" => rows' = {}
  BY DEF SyncInv
<1>1. /\ \A f \in Files : Listed(f) => Pending(f)
      /\ main.pc \in {"retry", "flush", "done"} => \A f \in Files : ~InQueue(f) /\ ~InWork(f)
  BY DEF SyncInv
<1> QED
  BY <1>1

LEMMA QueueKeeps == ASSUME SyncInv, NEW f \in Files, QueueJob(f) PROVE SyncInv'
<1>1. /\ main.pc = "queue" /\ f \in main.todo /\ main' = [main EXCEPT !.todo = @ \ {f}]
      /\ UNCHANGED <<db, token, worker, rows, failed, cancelled>>
      /\ (f \in db /\ queue' = queue) \/ queue' = Append(queue, f)
      /\ SyncType /\ \A w \in SyncWorkers : worker[w].pc = "ended" => cancelled
  BY DEF QueueJob, SyncInv
<1>2. /\ main' \in MainRecords /\ main'.pc = "queue" /\ main'.page = main.page
      /\ main'.todo = main.todo \ {f} /\ main'.first = main.first /\ main'.errors = main.errors
  BY <1>1 DEF SyncType, MainRecords
<1>3. /\ queue' \in Seq(Files)
      /\ \A g \in Files : InQueue(g) => InQueue(g)'
      /\ Pending(f)'
  <2>1. CASE f \in db /\ queue' = queue
    BY <1>1, <2>1 DEF SyncType, InQueue, Pending
  <2>2. CASE queue' = Append(queue, f)
    BY <1>1, <2>2, QueueFacts DEF InQueue, Pending
  <2> QED
    BY <1>1, <2>1, <2>2
<1>4. SyncType'
  BY <1>1, <1>2, <1>3 DEF SyncType
<1>5. \A g : InWork(g)' <=> InWork(g)
  BY <1>1 DEF InWork
<1>6. Clean' => Clean
  BY <1>1, <1>2 DEF Clean
<1>7. \A g \in Files : Pending(g) => Pending(g)'
  BY <1>1, <1>3, <1>5 DEF Pending
<1>8. \A g \in Files : Listed(g)' => Listed(g) \/ Pending(g)'
  BY <1>1, <1>2, <1>3 DEF Listed
<1> QED
  BY <1>1, <1>2, <1>4, <1>5, <1>6, <1>7, <1>8, FilesKeep

LEMMA WorkerMoves ==
  ASSUME SyncType, NEW w \in SyncWorkers, NEW j \in JobStates,
         worker' = [worker EXCEPT ![w] = j], j.pc # "download" => j \in {Waiting, EndedWorker}
  PROVE  /\ worker' \in [SyncWorkers -> JobStates] /\ worker'[w] = j
         /\ \A v \in SyncWorkers \ {w} : worker'[v] = worker[v]
         /\ \A v \in SyncWorkers : worker'[v].pc # "download" => worker'[v] \in {Waiting, EndedWorker}
BY DEF SyncType

LEMMA TakeKeeps == ASSUME SyncInv, NEW w \in SyncWorkers, Take(w) PROVE SyncInv'
<1>0. PICK h, j : /\ h = Head(queue)
                  /\ j = IF cancelled THEN EndedWorker
                         ELSE IF h \in db THEN Waiting ELSE [pc |-> "download", job |-> {h}]
  OBVIOUS
<1>1. /\ worker[w] = Waiting /\ queue # <<>> /\ queue' = Tail(queue)
      /\ worker' = [worker EXCEPT ![w] = j]
      /\ UNCHANGED <<db, token, main, rows, failed, cancelled>>
      /\ SyncType /\ \A v \in SyncWorkers : worker[v].pc = "ended" => cancelled
  BY <1>0 DEF Take, SyncInv
<1>2. /\ queue' \in Seq(Files) /\ h \in Files /\ h = queue[1] /\ Len(queue) \in Nat \ {0}
      /\ Len(queue') = Len(queue) - 1 /\ \A i \in 1..Len(queue') : queue'[i] = queue[i + 1]
  BY <1>0, <1>1, QueueFacts
<1>3. /\ j \in JobStates /\ (j.pc # "download" => j \in {Waiting, EndedWorker})
      /\ (j.pc = "ended" => cancelled)
      /\ ~cancelled => j.job \subseteq {h} /\ (h \in db \/ h \in j.job)
  BY <1>0, <1>2 DEF Waiting, EndedWorker, JobStates
<1>4. /\ worker' \in [SyncWorkers -> JobStates] /\ worker'[w] = j
      /\ \A v \in SyncWorkers \ {w} : worker'[v] = worker[v]
      /\ \A v \in SyncWorkers : worker'[v].pc # "download" => worker'[v] \in {Waiting, EndedWorker}
  BY <1>1, <1>3, WorkerMoves
<1>5. SyncType'
  BY <1>1, <1>2, <1>4 DEF SyncType
<1>6. \A v \in SyncWorkers : worker'[v].pc = "ended" => cancelled'
  BY <1>1, <1>3, <1>4
<1>7. ASSUME Clean' PROVE Clean /\ ~cancelled
  BY <1>1, <1>7 DEF Clean
<1>8. \A f \in Files : InQueue(f)' => InQueue(f)
  BY <1>2 DEF InQueue
<1>9. \A f \in Files : InQueue(f) => f = h \/ InQueue(f)'
  <2> SUFFICES ASSUME NEW f \in Files, NEW i \in 1..Len(queue), queue[i] = f, f # h
               PROVE  \E k \in 1..Len(queue') : queue'[k] = f
    BY DEF InQueue
  <2>1. i - 1 \in 1..Len(queue') /\ queue'[i - 1] = f
    BY <1>2
  <2> QED
    BY <2>1
<1>10. \A f \in Files : InWork(f) => InWork(f)'
  <2>1. \A f : f \notin worker[w].job
    BY <1>1 DEF Waiting
  <2> QED
    BY <1>4, <2>1 DEF InWork
<1>11. ASSUME ~cancelled PROVE /\ \A f \in Files : InWork(f)' => InWork(f) \/ InQueue(f)
                               /\ Pending(h)'
  <2>1. InQueue(h)
    BY <1>2 DEF InQueue
  <2>2. \A f \in Files : InWork(f)' => InWork(f) \/ f = h
    BY <1>3, <1>4, <1>11 DEF InWork
  <2>3. h \in db \/ InWork(h)'
    BY <1>3, <1>4, <1>11 DEF InWork
  <2> QED
    BY <1>1, <2>1, <2>2, <2>3 DEF Pending
<1>12. ASSUME ~cancelled PROVE \A f \in Files : Pending(f) => Pending(f)'
  BY <1>1, <1>9, <1>10, <1>11, <1>12 DEF Pending
<1>13. \A f : Listed(f)' <=> Listed(f)
  BY <1>1 DEF Listed
<1> QED
  BY <1>1, <1>5, <1>6, <1>7, <1>8, <1>11, <1>12, <1>13, FilesKeep DEF SyncInv

LEMMA DownloadKeeps == ASSUME SyncInv, NEW w \in SyncWorkers, Download(w) PROVE SyncInv'
<1>1. /\ worker[w].pc = "download"
      /\ UNCHANGED <<db, token, main, queue, cancelled>>
      /\ SyncType /\ \A v \in SyncWorkers : worker[v].pc = "ended" => cancelled
  BY DEF Download, SyncInv
<1>2. PICK j \in {Waiting, EndedWorker} :
        /\ worker' = [worker EXCEPT ![w] = j] /\ (j.pc = "ended" => cancelled)
        /\ \/ rows' = rows \cup worker[w].job /\ failed' = failed
           \/ failed' = failed \cup worker[w].job /\ rows' = rows
           \/ cancelled /\ UNCHANGED <<rows, failed>>
  BY DEF Download, Waiting, EndedWorker
<1>3. j \in JobStates /\ j.job = {} /\ worker[w].job \subseteq Files
  BY <1>1 DEF Waiting, EndedWorker, JobStates, SyncType
<1>4. /\ worker' \in [SyncWorkers -> JobStates] /\ worker'[w] = j
      /\ \A v \in SyncWorkers \ {w} : worker'[v] = worker[v]
      /\ \A v \in SyncWorkers : worker'[v].pc # "download" => worker'[v] \in {Waiting, EndedWorker}
  BY <1>1, <1>2, <1>3, WorkerMoves
<1>5. SyncType'
  BY <1>1, <1>2, <1>3, <1>4 DEF SyncType
<1>6. \A v \in SyncWorkers : worker'[v].pc = "ended" => cancelled'
  BY <1>1, <1>2, <1>4
<1>7. ASSUME Clean' PROVE Clean /\ ~cancelled
  BY <1>1, <1>7 DEF Clean
<1>8. \A f \in Files : (InQueue(f)' <=> InQueue(f)) /\ (Listed(f)' <=> Listed(f))
  BY <1>1 DEF InQueue, Listed
<1>9. \A f \in Files : InWork(f)' => InWork(f)
  BY <1>3, <1>4 DEF InWork
<1>10. \A f \in Files : InWork(f) => InWork(f)' \/ f \in worker[w].job
  BY <1>4 DEF InWork
<1>11. ASSUME ~cancelled PROVE \A f \in Files : Pending(f) => Pending(f)'
  BY <1>1, <1>2, <1>8, <1>10, <1>11 DEF Pending
\* Nothing is downloaded once the queue is closed and empty.
<1>12. ASSUME Clean PROVE main.pc \notin {"retry", "flush", "done"} \/ worker[w].job = {}
  <2> SUFFICES ASSUME main.pc \in {"retry", "flush", "done"}, NEW f \in worker[w].job PROVE FALSE
    OBVIOUS
  <2>1. f \in Files /\ InWork(f)
    BY <1>3 DEF InWork
  <2> QED
    BY <1>12, <2>1 DEF SyncInv
<1>13. ASSUME Clean', main.pc \in {"flush", "done"} PROVE failed' = {} /\ (main.pc = "done" => rows' = {})
  BY <1>2, <1>7, <1>12, <1>13 DEF SyncInv
<1> QED
  BY <1>1, <1>5, <1>6, <1>7, <1>8, <1>9, <1>11, <1>13, FilesKeep

LEMMA FlushKeeps == ASSUME SyncInv, Flush PROVE SyncInv'
<1>1. PICK batch \in SUBSET rows \ {{}} :
        /\ rows' = rows \ batch
        /\ \/ db' = db \cup batch /\ main' = main
           \/ db' = db /\ main' = [main EXCEPT !.errors = TRUE]
  BY DEF Flush
<1>2. /\ UNCHANGED <<token, queue, worker, failed, cancelled>>
      /\ SyncType /\ \A v \in SyncWorkers : worker[v].pc = "ended" => cancelled
  BY DEF Flush, SyncInv
<1>3. /\ main' \in MainRecords /\ main'.pc = main.pc /\ main'.page = main.page
      /\ main'.todo = main.todo /\ main'.first = main.first
      /\ ~main'.errors => ~main.errors /\ db' = db \cup batch
  BY <1>1, <1>2 DEF SyncType, MainRecords
<1>4. SyncType'
  BY <1>1, <1>2, <1>3 DEF SyncType
<1>5. ASSUME Clean' PROVE Clean /\ db' = db \cup batch
  BY <1>2, <1>3, <1>5 DEF Clean
<1>6. \A f \in Files : /\ InQueue(f)' <=> InQueue(f)
                       /\ InWork(f)' <=> InWork(f)
                       /\ Listed(f)' <=> Listed(f)
  BY <1>2, <1>3 DEF InQueue, InWork, Listed
<1>7. ASSUME Clean' PROVE \A f \in Files : Pending(f) => Pending(f)'
  BY <1>1, <1>2, <1>5, <1>6, <1>7 DEF Pending
<1>8. ASSUME Clean', main.pc \in {"flush", "done"} PROVE failed' = {} /\ (main.pc = "done" => rows' = {})
  BY <1>1, <1>2, <1>5, <1>8 DEF SyncInv
<1> QED
  BY <1>2, <1>3, <1>4, <1>5, <1>6, <1>7, <1>8, FilesKeep

LEMMA RetryKeeps == ASSUME SyncInv, Retry PROVE SyncInv'
<1>1. /\ main.pc = "retry" /\ UNCHANGED <<db, token, queue, worker, cancelled>>
      /\ SyncType /\ \A v \in SyncWorkers : worker[v].pc = "ended" => cancelled
      /\ main \in MainRecords
  BY DEF Retry, SyncInv, SyncType
<1>2. CASE \E f \in failed :
             /\ failed' = failed \ {f}
             /\ \/ rows' = rows \cup {f} /\ main' = main
                \/ rows' = rows /\ main' = [main EXCEPT !.errors = f \notin db \/ @]
  <2>1. PICK f \in failed :
          /\ failed' = failed \ {f}
          /\ \/ rows' = rows \cup {f} /\ main' = main
             \/ rows' = rows /\ main' = [main EXCEPT !.errors = f \notin db \/ @]
    BY <1>2
  <2>2. /\ main' \in MainRecords /\ main'.pc = "retry" /\ main'.first = main.first
        /\ ~main'.errors => ~main.errors /\ (rows' = rows \cup {f} \/ (f \in db /\ rows' = rows))
        /\ rows' \subseteq Files
    <3>1. CASE rows' = rows \cup {f} /\ main' = main
      BY <1>1, <2>1, <3>1 DEF SyncType
    <3>2. CASE rows' = rows /\ main' = [main EXCEPT !.errors = f \notin db \/ @]
      <4>1. CASE f \in db
        BY <1>1, <3>2, <4>1 DEF SyncType, MainRecords
      <4>2. CASE f \notin db
        BY <1>1, <3>2, <4>2 DEF SyncType, MainRecords
      <4> QED
        BY <4>1, <4>2
    <3> QED
      BY <2>1, <3>1, <3>2
  <2>3. SyncType'
    BY <1>1, <2>1, <2>2 DEF SyncType
  <2>4. ASSUME Clean' PROVE Clean /\ (rows' = rows \cup {f} \/ (f \in db /\ rows' = rows))
    BY <1>1, <2>2, <2>4 DEF Clean
  <2>5. \A g \in Files : (InQueue(g)' <=> InQueue(g)) /\ (InWork(g)' <=> InWork(g))
    BY <1>1 DEF InQueue, InWork
  <2>6. ASSUME Clean' PROVE \A g \in Files : Pending(g) => Pending(g)'
    BY <1>1, <2>1, <2>4, <2>5, <2>6 DEF Pending
  <2>7. \A g \in Files : Listed(g)
    BY <1>1 DEF Listed
  <2> QED
    BY <1>1, <2>2, <2>3, <2>4, <2>5, <2>6, <2>7, FilesKeep
<1>3. CASE (failed = {} \/ cancelled) /\ main' = [main EXCEPT !.pc = "flush"] /\ UNCHANGED <<rows, failed>>
  <2>1. /\ main' \in MainRecords /\ main'.pc = "flush"
        /\ main'.first = main.first /\ main'.errors = main.errors
    BY <1>1, <1>3 DEF MainRecords, SyncPcs
  <2>2. SyncType'
    BY <1>1, <1>3, <2>1 DEF SyncType
  <2>3. ASSUME Clean' PROVE Clean /\ failed = {}
    BY <1>1, <1>3, <2>1, <2>3 DEF Clean
  <2>4. \A g \in Files : /\ InQueue(g)' <=> InQueue(g)
                         /\ InWork(g)' <=> InWork(g)
                         /\ Pending(g)' <=> Pending(g)
    BY <1>1, <1>3 DEF InQueue, InWork, Pending
  <2>5. \A g \in Files : Listed(g)
    BY <1>1 DEF Listed
  <2> QED
    BY <1>1, <1>3, <2>1, <2>2, <2>3, <2>4, <2>5, FilesKeep
<1> QED
  BY <1>2, <1>3 DEF Retry

LEMMA InterruptKeeps == ASSUME SyncInv, Interrupt PROVE SyncInv'
<1>1. /\ cancelled' = TRUE /\ UNCHANGED <<db, token, main, queue, worker, rows, failed>>
      /\ SyncType
  BY DEF Interrupt, SyncInv
<1>2. SyncType' /\ ~Clean'
  BY <1>1 DEF SyncType, Clean
<1> QED
  BY <1>1, <1>2 DEF SyncInv

LEMMA ExitKeeps == ASSUME SyncInv, Exit PROVE SyncInv'
<1>1. /\ main' = NotRunning /\ queue' = <<>> /\ worker' = [w \in SyncWorkers |-> Waiting]
      /\ rows' = {} /\ failed' = {} /\ cancelled' = FALSE /\ UNCHANGED <<db, token>>
      /\ SyncType
  BY DEF Exit, SyncInv
<1>2. NotRunning \in MainRecords /\ NotRunning.pc = "none"
  BY DEF NotRunning, MainRecords, SyncPcs
<1>3. /\ worker' \in [SyncWorkers -> JobStates]
      /\ \A w \in SyncWorkers : worker'[w] = Waiting /\ worker'[w].pc # "ended"
  BY <1>1 DEF Waiting, JobStates
<1>4. SyncType' /\ ~Clean'
  BY <1>1, <1>2, <1>3, EmptySeq DEF SyncType, Clean
<1> QED
  BY <1>3, <1>4 DEF SyncInv

LEMMA SyncStep == SyncInv /\ [DriveSyncNext]_driveSyncVars => SyncInv'
<1>1. SyncInv /\ UNCHANGED driveSyncVars => SyncInv'
  BY DEF driveSyncVars, SyncInv, SyncType, Clean, Listed, Pending, InQueue, InWork
<1> QED
  BY <1>1, MainKeeps, QueueKeeps, TakeKeeps, DownloadKeeps, FlushKeeps, RetryKeeps,
     InterruptKeeps, ExitKeeps DEF DriveSyncNext, SyncSteps

\* A run of the importer that began with the first page, was not interrupted and
\* reports no error has saved every file of the folder, for any number of pages
\* and workers and whatever earlier runs left behind (cmd/gdrive_sync/main.go).
THEOREM FirstPassIsWhole == DriveSyncSpec => []FullPassIsComplete
<1>1. SyncInv => FullPassIsComplete
  <2> SUFFICES ASSUME SyncInv, main.pc = "done", main.first, ~cancelled, ~main.errors
               PROVE  db = Files
    BY DEF FullPassIsComplete
  <2>1. Clean /\ \A f \in Files : Listed(f)
    BY DEF Clean, Listed
  <2>2. \A f \in Files : f \in db
    BY <2>1 DEF SyncInv, Pending
  <2> QED
    BY <2>2 DEF SyncInv, SyncType
<1> QED
  BY <1>1, SyncStarts, SyncStep, PTL DEF DriveSyncSpec

-----------------------------------------------------------------------------
(* Module MemCache: the count of bytes *)

\* Each key is held once.
OneOfAKey(E) == \A e, f \in E : e.key = f.key => e = f

HeldWell(E) ==
  /\ IsFiniteSet(E) /\ IsFiniteSet(Bytes(E))
  /\ \A e \in E : e.size \in Nat
  /\ OneOfAKey(E)

CacheInv ==
  /\ HeldWell(entries)
  /\ bytes \in Nat
  /\ CacheAccounted

-----------------------------------------------------------------------------
\* The bytes of what stays and of what goes add up.
LEMMA BytesAddUp ==
  ASSUME NEW E, HeldWell(E), NEW T, T \subseteq E
  PROVE  /\ HeldWell(T) /\ HeldWell(E \ T)
         /\ {Size(E), Size(T), Size(E \ T)} \subseteq Nat
         /\ Size(E) = Size(T) + Size(E \ T)
<1>1. Bytes(T) \subseteq Bytes(E) /\ Bytes(E \ T) \subseteq Bytes(E)
  BY DEF Bytes
<1>2. Bytes(E) = Bytes(T) \cup Bytes(E \ T)
  BY DEF Bytes
<1>3. Bytes(T) \cap Bytes(E \ T) = {}
  <2> SUFFICES ASSUME NEW e \in T, NEW f \in E \ T, NEW b,
                      b \in {e.key} \X (1..e.size), b \in {f.key} \X (1..f.size)
               PROVE  FALSE
    BY DEF Bytes
  <2>1. e.key = f.key
    OBVIOUS
  <2> QED
    BY <2>1 DEF HeldWell, OneOfAKey
<1>4. IsFiniteSet(Bytes(T)) /\ IsFiniteSet(Bytes(E \ T))
  BY <1>1, FS_Subset DEF HeldWell
<1>5. HeldWell(T)
  BY <1>4, FS_Subset DEF HeldWell, OneOfAKey
<1>6. HeldWell(E \ T)
  <2>1. IsFiniteSet(E \ T)
    BY FS_Subset DEF HeldWell
  <2> QED
    BY <1>4, <2>1 DEF HeldWell, OneOfAKey
<1>7. Cardinality(Bytes(E)) = Cardinality(Bytes(T)) + Cardinality(Bytes(E \ T))
  <2>1. Cardinality(Bytes(T) \cup Bytes(E \ T))
          = Cardinality(Bytes(T)) + Cardinality(Bytes(E \ T)) - Cardinality(Bytes(T) \cap Bytes(E \ T))
    BY <1>4, FS_Union
  <2>2. Cardinality(Bytes(T) \cap Bytes(E \ T)) = 0
    BY <1>3, FS_EmptySet
  <2>3. Cardinality(Bytes(T)) \in Nat /\ Cardinality(Bytes(E \ T)) \in Nat
    BY <1>4, FS_CardinalityType
  <2> QED
    BY <1>2, <2>1, <2>2, <2>3
<1>8. Cardinality(Bytes(T)) \in Nat /\ Cardinality(Bytes(E \ T)) \in Nat
      /\ Cardinality(Bytes(E)) \in Nat
  BY <1>4, FS_CardinalityType DEF HeldWell
<1> QED
  BY <1>5, <1>6, <1>7, <1>8 DEF Size

\* A new entry adds its size.
LEMMA NewEntry ==
  ASSUME NEW V, HeldWell(V), NEW e, e.size \in Nat, e.key \notin KeysIn(V)
  PROVE  /\ HeldWell(V \cup {e}) /\ Size(V \cup {e}) = Size(V) + e.size /\ Size(V) \in Nat
         /\ Cardinality(V \cup {e}) = Cardinality(V) + 1 /\ Cardinality(V) \in Nat
<1> DEFINE B == {e.key} \X (1..e.size)  E == V \cup {e}
<1>1. IsFiniteSet(B) /\ Cardinality(B) = e.size
  <2>1. IsFiniteSet({e.key}) /\ Cardinality({e.key}) = 1
    BY FS_Singleton
  <2>2. IsFiniteSet(1..e.size) /\ Cardinality(1..e.size) = e.size
    <3> DEFINE n == e.size
    <3> HIDE DEF n
    <3>1. n \in Nat
      BY DEF n
    <3>2. IsFiniteSet(1..n) /\ Cardinality(1..n) = IF 1 > n THEN 0 ELSE n - 1 + 1
      BY <3>1, FS_Interval
    <3>3. Cardinality(1..n) = n
      BY <3>1, <3>2
    <3> QED
      BY <3>2, <3>3 DEF n
  <2>3. IsFiniteSet(B) /\ Cardinality(B) = Cardinality({e.key}) * Cardinality(1..e.size)
    BY <2>1, <2>2, FS_Product
  <2> QED
    BY <2>1, <2>2, <2>3
<1>2. Bytes(E) = Bytes(V) \cup B
  BY DEF Bytes
<1>3. Bytes(V) \cap B = {}
  <2> SUFFICES ASSUME NEW f \in V, NEW b, b \in {f.key} \X (1..f.size), b \in {e.key} \X (1..e.size)
               PROVE  FALSE
    BY DEF Bytes
  <2>1. e.key = f.key
    OBVIOUS
  <2> QED
    BY <2>1 DEF KeysIn
<1>4. IsFiniteSet(Bytes(V)) /\ Cardinality(Bytes(V)) \in Nat /\ IsFiniteSet(V)
  BY FS_CardinalityType DEF HeldWell
<1> HIDE DEF B
<1>5. IsFiniteSet(Bytes(E)) /\ Cardinality(Bytes(E)) = Cardinality(Bytes(V)) + e.size
  <2>1. /\ IsFiniteSet(Bytes(V) \cup B)
        /\ Cardinality(Bytes(V) \cup B) = Cardinality(Bytes(V)) + Cardinality(B)
                                            - Cardinality(Bytes(V) \cap B)
    BY <1>1, <1>4, FS_Union
  <2>2. Cardinality(Bytes(V) \cap B) = 0
    BY <1>3, FS_EmptySet
  <2>3. Cardinality(Bytes(V) \cup B) = Cardinality(Bytes(V)) + e.size
    BY <1>1, <1>4, <2>1, <2>2
  <2> HIDE DEF E
  <2> QED
    BY <1>2, <2>1, <2>3
<1>6. e \notin V
  BY DEF KeysIn
<1>7. IsFiniteSet(E) /\ Cardinality(E) = Cardinality(V) + 1 /\ Cardinality(V) \in Nat
  BY <1>4, <1>6, FS_AddElement, FS_CardinalityType
<1>8. OneOfAKey(E) /\ \A f \in E : f.size \in Nat
  BY DEF HeldWell, OneOfAKey, KeysIn
<1> QED
  BY <1>4, <1>5, <1>7, <1>8 DEF HeldWell, Size

\* Entries leave, and the count follows.
LEMMA SomeLeave ==
  ASSUME CacheInv, NEW T, T \subseteq entries
  PROVE  /\ HeldWell(T) /\ Size(T) \in Nat /\ CountWithout(entries \ T) = Size(T)
         /\ AtLeastZero(CountWithout(entries \ T)) = Size(T)
         /\ Cardinality(T) \in Nat /\ Cardinality(T) <= Cardinality(entries)
         /\ Size(T) <= MaxBytes \/ Cardinality(T) = 1
<1>1. /\ HeldWell(T) /\ {Size(entries), Size(T), Size(entries \ T)} \subseteq Nat
      /\ Size(entries) = Size(T) + Size(entries \ T)
  BY BytesAddUp DEF CacheInv
<1>2. bytes = Size(entries) /\ (bytes <= MaxBytes \/ Cardinality(entries) = 1)
      /\ IsFiniteSet(entries)
  BY DEF CacheInv, CacheAccounted, HeldWell
<1>3. CountWithout(entries \ T) = Size(T)
  BY <1>1, <1>2 DEF CountWithout
<1>4. /\ Cardinality(T) \in Nat /\ Cardinality(entries) \in Nat
      /\ Cardinality(T) <= Cardinality(entries)
      /\ Cardinality(T) = Cardinality(entries) => T = entries
      /\ Cardinality(T) = 0 => T = {}
  <2>1. IsFiniteSet(T)
    BY <1>1 DEF HeldWell
  <2> QED
    BY <1>2, <2>1, FS_Subset, FS_CardinalityType, FS_EmptySet
<1>5. Size({}) = 0
  BY FS_EmptySet DEF Size, Bytes
<1>6. MaxBytes \in Nat
  BY MemCacheAssumption
<1>7. Size(T) <= MaxBytes \/ Cardinality(T) = 1
  <2>1. CASE bytes <= MaxBytes
    BY <1>1, <1>2, <1>6, <2>1
  <2>2. CASE Cardinality(entries) = 1
    <3>1. Cardinality(T) \in {0, 1}
      BY <1>4, <2>2
    <3> QED
      BY <1>4, <1>5, <1>6, <3>1
  <2> QED
    BY <1>2, <2>1, <2>2
<1> QED
  BY <1>1, <1>3, <1>4, <1>7 DEF AtLeastZero

LEMMA LeaveKeeps ==
  ASSUME CacheInv, NEW T, T \subseteq entries, entries' = T,
         bytes' = AtLeastZero(CountWithout(entries \ T))
  PROVE  CacheInv'
<1>1. /\ HeldWell(T) /\ Size(T) \in Nat /\ bytes' = Size(T)
      /\ Cardinality(T) \in Nat /\ Cardinality(T) <= Cardinality(entries)
      /\ Size(T) <= MaxBytes \/ Cardinality(T) = 1
  BY SomeLeave
<1>2. Cardinality(entries) <= MaxKeys /\ MaxKeys \in Nat /\ Cardinality(entries) \in Nat
  BY MemCacheAssumption, FS_CardinalityType DEF CacheInv, CacheAccounted, HeldWell
<1>3. Cardinality(T) <= MaxKeys
  BY <1>1, <1>2
<1>4. HeldWell(entries)' /\ Size(entries)' = Size(T)
  <2>1. HeldWell(entries') /\ Size(entries') = Size(T)
    BY <1>1
  <2> QED
    BY <2>1 DEF HeldWell, OneOfAKey, Size, Bytes
<1> QED
  BY <1>1, <1>3, <1>4 DEF CacheInv, CacheAccounted

LEMMA SetKeeps ==
  ASSUME CacheInv, NEW k, NEW size \in Sizes, NEW left, SetEntry(k, size, left)
  PROVE  CacheInv'
<1> DEFINE others == {e \in entries : e.key # k}
           e == [key |-> k, size |-> size, left |-> left]
<1>0. PICK T \in MakeRoom(others, size) : \E V \in MakeSlot(T) :
        /\ entries' = V \cup {e}
        /\ bytes' = AtLeastZero(CountWithout(entries \ V)) + size
  BY DEF SetEntry
<1>1. PICK V \in MakeSlot(T) :
        /\ entries' = V \cup {e}
        /\ bytes' = AtLeastZero(CountWithout(entries \ V)) + size
  BY <1>0
<1>2. T \subseteq entries /\ V \subseteq T /\ V \subseteq entries
  BY DEF MakeRoom, MakeSlot, Newest
<1>3. e.size \in Nat /\ e.key \notin KeysIn(V) /\ e.size = size
  <2>1. V \subseteq others
    BY <1>2 DEF MakeRoom, Newest
  <2> QED
    BY <2>1, MemCacheAssumption DEF KeysIn
<1>4. /\ HeldWell(V) /\ Size(V) \in Nat /\ AtLeastZero(CountWithout(entries \ V)) = Size(V)
      /\ HeldWell(T) /\ Size(T) \in Nat /\ CountWithout(entries \ T) = Size(T)
      /\ Cardinality(T) \in Nat /\ Cardinality(T) <= Cardinality(entries)
      /\ Cardinality(V) \in Nat
  BY <1>2, SomeLeave
<1> HIDE DEF e
<1>5. /\ HeldWell(V \cup {e}) /\ Size(V \cup {e}) = Size(V) + size
      /\ Cardinality(V \cup {e}) = Cardinality(V) + 1
  BY <1>3, <1>4, NewEntry
<1>6. bytes' = Size(V \cup {e}) /\ bytes' \in Nat
  BY <1>1, <1>3, <1>4, <1>5
<1>7. Cardinality(V) + 1 <= MaxKeys
  <2>1. Cardinality(entries) <= MaxKeys /\ MaxKeys \in Nat \ {0} /\ Cardinality(entries) \in Nat
    BY MemCacheAssumption, FS_CardinalityType DEF CacheInv, CacheAccounted, HeldWell
  <2>2. Cardinality(V) = Cardinality(T) - (IF Cardinality(T) >= MaxKeys THEN 1 ELSE 0)
    BY DEF MakeSlot
  <2> QED
    BY <1>4, <2>1, <2>2
<1>8. bytes' <= MaxBytes \/ Cardinality(V \cup {e}) = 1
  <2>1. CASE T = {}
    <3>1. Cardinality(V) = 0
      BY <1>2, <2>1, FS_EmptySet
    <3> QED
      BY <1>5, <3>1
  <2>2. CASE Fits(T, size)
    <3>1. Size(T) + size <= MaxBytes
      BY <1>4, <2>2 DEF Fits
    <3>2. Size(T) = Size(V) + Size(T \ V) /\ Size(T \ V) \in Nat
      BY <1>2, <1>4, BytesAddUp
    <3> QED
      BY <1>3, <1>4, <1>5, <1>6, <3>1, <3>2, MemCacheAssumption
  <2> QED
    BY <2>1, <2>2 DEF MakeRoom
<1>9. HeldWell(entries)' /\ Size(entries)' = Size(V \cup {e})
  <2>1. HeldWell(entries') /\ Size(entries') = Size(V \cup {e})
    BY <1>1, <1>5
  <2> QED
    BY <2>1 DEF HeldWell, OneOfAKey, Size, Bytes
<1> QED
  BY <1>1, <1>5, <1>6, <1>7, <1>8, <1>9 DEF CacheInv, CacheAccounted

LEMMA CacheTickKeeps ==
  ASSUME CacheInv, CacheTick
  PROVE  CacheInv'
<1> DEFINE Aged(e) == [key |-> e.key, size |-> e.size,
                       left |-> IF e.left >= 0 THEN e.left - 1 ELSE e.left]
           E == {Aged(e) : e \in entries}
           f == [e \in entries |-> Aged(e)]
<1>1. entries' = E /\ bytes' = bytes
  BY DEF CacheTick
<1>2. \A e : Aged(e).key = e.key /\ Aged(e).size = e.size
  OBVIOUS
<1> HIDE DEF Aged
<1>3. Bytes(E) = Bytes(entries)
  BY <1>2 DEF Bytes
<1>4. OneOfAKey(E) /\ \A g \in E : g.size \in Nat
  BY <1>2 DEF CacheInv, HeldWell, OneOfAKey
<1>5. IsFiniteSet(entries)
  BY DEF CacheInv, HeldWell
<1>6. IsFiniteSet(E) /\ Cardinality(E) = Cardinality(entries)
  <2>1. f \in Surjection(entries, E)
    BY DEF Surjection
  <2>2. f \in Injection(entries, E)
    BY <1>2 DEF Injection, IsInjective, CacheInv, HeldWell, OneOfAKey
  <2> QED
    BY <1>5, <2>1, <2>2, FS_Surjection
<1>7. HeldWell(E) /\ Size(E) = Size(entries)
  BY <1>3, <1>4, <1>6 DEF HeldWell, CacheInv, Size
<1>8. HeldWell(entries)' /\ Size(entries)' = Size(entries) /\ Cardinality(entries)' = Cardinality(entries)
  <2>1. HeldWell(entries') /\ Size(entries') = Size(entries)
    BY <1>1, <1>7
  <2> QED
    BY <1>1, <1>6, <2>1 DEF HeldWell, OneOfAKey, Size, Bytes
<1> QED
  BY <1>1, <1>8 DEF CacheInv, CacheAccounted

\* For any keys, sizes, lifetimes and limits: the count of bytes is exactly what
\* the entries hold, and both limits are kept (memcache.go:65-146).
THEOREM CacheCountsExactly == MemCacheSpec => []CacheAccounted
<1>1. MemCacheInit => CacheInv
  <2> SUFFICES ASSUME MemCacheInit PROVE CacheInv
    OBVIOUS
  <2>1. entries = {} /\ bytes = 0 /\ Bytes(entries) = {}
    BY DEF MemCacheInit, Bytes
  <2>2. Size(entries) = 0 /\ Cardinality(entries) = 0 /\ HeldWell(entries)
    BY <2>1, FS_EmptySet DEF Size, HeldWell, OneOfAKey
  <2> QED
    BY <2>1, <2>2, MemCacheAssumption DEF CacheInv, CacheAccounted
<1>2. CacheInv /\ [MemCacheNext]_memCacheVars => CacheInv'
  <2> SUFFICES ASSUME CacheInv, [MemCacheNext]_memCacheVars PROVE CacheInv'
    OBVIOUS
  <2>1. CASE UNCHANGED <<entries, bytes>>
    BY <2>1 DEF CacheInv, HeldWell, OneOfAKey, CacheAccounted, Size, Bytes
  <2>2. ASSUME NEW k \in CacheKeys, GetEntry(k) PROVE CacheInv'
    <3>1. PICK e \in entries : \/ UNCHANGED <<entries, bytes>>
                                \/ /\ entries' = entries \ {e}
                                   /\ bytes' = AtLeastZero(CountWithout({e}))
      BY <2>2 DEF GetEntry
    <3>2. entries \ (entries \ {e}) = {e}
      OBVIOUS
    <3> QED
      BY <2>1, <3>1, <3>2, LeaveKeeps
  <2>3. CASE Shed
    <3>1. PICK V : /\ V \subseteq entries /\ entries' = V
                   /\ bytes' = AtLeastZero(CountWithout(entries \ V))
      BY <2>3 DEF Shed, Newest
    <3> QED
      BY <3>1, LeaveKeeps
  <2>4. CASE UNCHANGED memCacheVars
    BY <2>1, <2>4 DEF memCacheVars
  <2> QED
    BY <2>2, <2>3, <2>4, SetKeeps, CacheTickKeeps DEF MemCacheNext
<1>3. CacheInv => CacheAccounted
  BY DEF CacheInv
<1> QED
  BY <1>1, <1>2, <1>3, PTL DEF MemCacheSpec

-----------------------------------------------------------------------------
(* Module AccountFile: the accounts that were saved last *)

\* What the tool, the user and the server make of an account and of a file.
Creds == {"none", "plain", "odd", "changed", "old"}
Clients(k) == IF k = "spotify" THEN {"none", "given"} ELSE {"none"}
Keyed(k) == IF k = "qq" THEN {"none"} ELSE Creds
Entered(k) == [type : {"web", "android"}, cred : Creds, client : Clients(k)]
Doc(k) ==
  [list : Seq(Entered(k)), listed : BOOLEAN, web : Keyed(k), android : Keyed(k),
   client : Clients(k), alias : Seq({Old}),
   stray : Keyed(k) \cap {"none", "old"}, strayClient : Clients(k)]

\* The file d is settled on the accounts l: nothing that a save writes
\* contradicts them.  An emptied cookie of QQ is never written to JSON.
Settled(k, f, d, l) ==
  \/ k = "qq" /\ f = "json" /\ l = <<>>
  \/ /\ d.list = l
     /\ f = "env" => d.listed
     /\ k # "gdrive" => d.listed \/ (l = <<>> /\ d.alias = <<>>)
     /\ k # "qq" /\ l = <<>> => d.web = "none" /\ d.android = "none" /\ d.client = "none"
     /\ k # "qq" /\ Len(l) = 1 => d.client \in {"none", l[1].client}

FileInv ==
  /\ kind \in Kinds /\ form \in Forms
  /\ file \in Doc(kind) /\ doc \in Doc(kind) /\ list \in Seq(Entered(kind))
  /\ beside \in [over : SUBSET Seq(Entered(kind)), under : SUBSET Seq(Entered(kind))]
  /\ tool = "write" => Settled(kind, form, doc, list)
  /\ saved # {} => \E l \in Seq(Entered(kind)) : saved = {l} /\ Settled(kind, form, file, l)

-----------------------------------------------------------------------------
LEMMA AccountsAreEntered ==
  ASSUME NEW k, NEW a \in Account(k)
  PROVE  a \in Entered(k)
BY DEF Account, Entered, Creds, Clients

LEMMA OldIsEntered == ASSUME NEW k PROVE Old \in Entered(k)
BY DEF Old, Entered, Creds, Clients

LEMMA EmptyDocFits == ASSUME NEW k PROVE EmptyDoc \in Doc(k)
BY DEF EmptyDoc, Doc, Creds, Clients, Keyed

LEMMA SingleFits ==
  ASSUME NEW k, NEW d \in Doc(k)
  PROVE  /\ Single(k, d) \in Seq(Entered(k))
         /\ d.web = "none" /\ d.android = "none" /\ d.client = "none" => Single(k, d) = <<>>
<1> DEFINE a == [type |-> "android", cred |-> d.android, client |-> "none"]
           b == [type |-> "web", cred |-> d.web, client |-> d.client]
<1>1. a \in Entered(k) /\ b \in Entered(k)
  BY DEF Doc, Entered, Creds, Clients, Keyed
<1> HIDE DEF a, b
<1>2. Single(k, d) = (IF d.android # "none" THEN <<a>> ELSE <<>>)
                       \o (IF d.web # "none" \/ d.client # "none" THEN <<b>> ELSE <<>>)
  BY DEF Single, a, b
<1>3. <<a>> \in Seq(Entered(k)) /\ <<b>> \in Seq(Entered(k)) /\ <<>> \in Seq(Entered(k))
  BY <1>1
<1>4. Single(k, d) \in Seq(Entered(k))
  BY <1>2, <1>3, ConcatProperties
<1>5. ASSUME d.web = "none", d.android = "none", d.client = "none" PROVE Single(k, d) = <<>>
  BY <1>2, <1>5
<1> QED
  BY <1>4, <1>5

\* What is read of a .env file: the later of two lines, with its escapes undone.
LEMMA ThroughEnvFits ==
  ASSUME NEW k, NEW d \in Doc(k)
  PROVE  /\ ThroughEnv(d) \in Doc(k)
         /\ ThroughEnv(d).list = IF d.alias # <<>> THEN d.alias ELSE d.list
         /\ ThroughEnv(d).listed = (d.listed \/ d.alias # <<>>)
         /\ ThroughEnv(d).web = Env(IF d.stray # "none" THEN d.stray ELSE d.web)
         /\ ThroughEnv(d).android = Env(d.android)
         /\ ThroughEnv(d).client = IF d.strayClient # "none" THEN d.strayClient ELSE d.client
<1> DEFINE e == LaterLines(d)
           g == ThroughEnv(d)
<1>1. \A a \in Seq({Old}) : a \in Seq(Entered(k))
  BY OldIsEntered
<1>2. /\ e \in Doc(k) /\ e.list = (IF d.alias # <<>> THEN d.alias ELSE d.list)
      /\ e.listed = (d.listed \/ d.alias # <<>>)
      /\ e.web = (IF d.stray # "none" THEN d.stray ELSE d.web) /\ e.android = d.android
      /\ e.client = IF d.strayClient # "none" THEN d.strayClient ELSE d.client
  BY <1>1 DEF LaterLines, Doc
<1>3. g = [e EXCEPT !.web = Env(@), !.android = Env(@)]
  BY DEF ThroughEnv, Unescaped
<1> HIDE DEF e
<1>4. \A c \in Keyed(k) : Env(c) \in Keyed(k)
  BY DEF Env, Keyed, Creds
<1> HIDE DEF g
<1>5. /\ g \in Doc(k) /\ g.web = Env(e.web) /\ g.android = Env(e.android) /\ g.client = e.client
      /\ g.list = e.list /\ g.listed = e.listed
  BY <1>2, <1>3, <1>4 DEF Doc
<1> QED
  BY <1>2, <1>5 DEF g

\* A cookie that is not odd comes back as it was.
LEMMA CookieFits ==
  ASSUME NEW k, NEW d \in Doc(k)
  PROVE  /\ Cookie(d) \in Seq(Entered(k))
         /\ Readable(d) => Cookie(d) = d.list
<1> DEFINE l == d.list
           C(i) == [l[i] EXCEPT !.cred = Env(@)]
<1>1. l \in Seq(Entered(k))
  BY DEF Doc
<1>2. Cookie(d) = [i \in DOMAIN l |-> C(i)]
  BY DEF Cookie
<1>3. ASSUME NEW i \in DOMAIN l
      PROVE  C(i) \in Entered(k) /\ (l[i].cred # "odd" => C(i) = l[i])
  <2> DEFINE a == l[i]  c == Env(a.cred)
  <2>1. a \in Entered(k)
    BY <1>1, ElementOfSeq
  <2>2. c \in Creds /\ (a.cred # "odd" => c = a.cred)
    BY <2>1 DEF Env, Entered, Creds
  <2> HIDE DEF a
  <2>3. C(i) = [a EXCEPT !.cred = c]
    BY DEF a
  <2> HIDE DEF C, c
  <2>4. [a EXCEPT !.cred = c] \in Entered(k) /\ (c = a.cred => [a EXCEPT !.cred = c] = a)
    BY <2>1, <2>2 DEF Entered
  <2> QED
    BY <2>2, <2>3, <2>4 DEF a
<1> HIDE DEF C
<1>4. DOMAIN l = 1..Len(l) /\ Len(l) \in Nat /\ l = [i \in DOMAIN l |-> l[i]]
  BY <1>1
<1>5. Cookie(d) \in Seq(Entered(k))
  BY <1>2, <1>3, <1>4, SeqDef
<1>6. ASSUME Readable(d) PROVE Cookie(d) = d.list
  <2>1. \A i \in DOMAIN l : l[i].cred # "odd"
    BY <1>6 DEF Readable
  <2> QED
    BY <1>2, <1>3, <1>4, <2>1
<1> QED
  BY <1>5, <1>6

LEMMA LoadedFits ==
  ASSUME NEW k, NEW f, NEW d \in Doc(k)
  PROVE  Loaded(k, f, d) \in Seq(Entered(k))
<1> DEFINE e == ThroughEnv(d)
<1>1. e \in Doc(k)
  BY ThroughEnvFits
<1>2. d.list \in Seq(Entered(k)) /\ d.alias \in Seq(Entered(k)) /\ e.list \in Seq(Entered(k))
  BY <1>1, OldIsEntered DEF Doc
<1>3. Single(k, d) \in Seq(Entered(k)) /\ Single(k, e) \in Seq(Entered(k))
      /\ Cookie(e) \in Seq(Entered(k))
  BY <1>1, SingleFits, CookieFits
<1> HIDE DEF e
<1>4. Loaded(k, f, d) \in {d.list, d.alias, e.list, Single(k, d), Single(k, e), Cookie(e)}
  BY DEF Loaded, e
<1> QED
  BY <1>2, <1>3, <1>4

\* What is written is settled on the accounts.
LEMMA WrittenSettles ==
  ASSUME NEW k, NEW f, NEW d \in Doc(k), NEW l \in Seq(Entered(k))
  PROVE  Written(k, f, d, l) \in Doc(k) /\ Settled(k, f, Written(k, f, d, l), l)
<1> DEFINE e == Keys(k, d, l)
           n == IF f = "json" /\ k = "gdrive" THEN l # <<>> ELSE TRUE
           w == [e EXCEPT !.list = l, !.listed = n]
<1>1. /\ Len(l) \in Nat
      /\ Len(l) = 1 => l # <<>> /\ l[1] \in Entered(k)
      /\ Len(l) > 1 => l # <<>> /\ Len(l) # 1
      /\ l # <<>> => Len(l) >= 1
  BY ElementOfSeq
<1>2. e \in Doc(k)
      /\ (k # "qq" /\ l = <<>> => e.web = "none" /\ e.android = "none" /\ e.client = "none")
      /\ (k # "qq" /\ Len(l) = 1 => e.client = l[1].client)
  <2>1. CASE k = "qq" \/ Len(l) > 1
    <3>1. e = d
      BY <2>1, Zenon DEF Keys
    <3>2. k = "qq" \/ (l # <<>> /\ Len(l) # 1)
      <4>1. CASE k = "qq"
        BY <4>1
      <4>2. CASE Len(l) > 1
        BY <1>1, <4>2
      <4> QED
        BY <2>1, <4>1, <4>2
    <3> HIDE DEF e
    <3> QED
      BY <3>1, <3>2
  <2>2. CASE k # "qq" /\ l = <<>>
    <3>1. e = [d EXCEPT !.web = "none", !.android = "none", !.client = "none"]
      BY <2>2 DEF Keys
    <3>2. "none" \in Keyed(k) /\ "none" \in Clients(k)
      BY DEF Creds, Clients, Keyed
    <3> HIDE DEF e
    <3>3. e \in Doc(k) /\ e.web = "none" /\ e.android = "none" /\ e.client = "none"
      BY <3>1, <3>2 DEF Doc
    <3> QED
      BY <1>1, <2>2, <3>3
  <2>3. CASE k # "qq" /\ Len(l) = 1
    <3>1. e = [d EXCEPT ![l[1].type] = l[1].cred, !.client = l[1].client]
      BY <1>1, <2>3 DEF Keys
    <3> DEFINE a == l[1]
    <3>2. a \in Entered(k)
      BY <1>1, <2>3
    <3> HIDE DEF a, e
    <3>3. e = [d EXCEPT ![a.type] = a.cred, !.client = a.client]
      BY <3>1, Zenon DEF a
    <3>4. e \in Doc(k) /\ e.client = a.client
      <4>1. a.type \in {"web", "android"} /\ a.cred \in Keyed(k) /\ a.client \in Clients(k)
        BY <2>3, <3>2 DEF Entered, Keyed
      <4>2. CASE a.type = "web"
        <5>1. e = [d EXCEPT !.web = a.cred, !.client = a.client]
          BY <3>3, <4>2, Zenon
        <5> QED
          BY <4>1, <5>1 DEF Doc
      <4>3. CASE a.type = "android"
        <5>1. e = [d EXCEPT !.android = a.cred, !.client = a.client]
          BY <3>3, <4>3, Zenon
        <5> QED
          BY <4>1, <5>1 DEF Doc
      <4> QED
        BY <4>1, <4>2, <4>3
    <3> QED
      BY <1>1, <2>3, <3>4 DEF a
  <2>4. Len(l) > 1 \/ l = <<>> \/ Len(l) = 1
    <3> DEFINE size == Len(l)
    <3>1. size \in Nat /\ (l # <<>> => size >= 1)
      BY <1>1
    <3> HIDE DEF size
    <3>2. size > 1 \/ l = <<>> \/ size = 1
      BY <3>1
    <3> QED
      BY <3>2 DEF size
  <2> HIDE DEF e
  <2> QED
    BY <2>1, <2>2, <2>3, <2>4
<1> HIDE DEF e
<1>3. n \in BOOLEAN
  OBVIOUS
<1> HIDE DEF n
<1>4. w \in Doc(k) /\ w.list = l /\ w.listed = n /\ w.web = e.web /\ w.android = e.android
      /\ w.client = e.client
  BY <1>2, <1>3 DEF Doc
<1> HIDE DEF w
<1>5. CASE f = "json" /\ k = "qq" /\ l = <<>>
  BY <1>5 DEF Written, Settled
<1>6. CASE ~(f = "json" /\ k = "qq" /\ l = <<>>)
  <2>1. Written(k, f, d, l) = w
    BY <1>6 DEF Written, e, n, w
  <2>2. (f = "env" => n) /\ (k # "gdrive" => n)
    BY DEF n
  <2>3. Settled(k, f, w, l)
    BY <1>2, <1>4, <2>2 DEF Settled
  <2> QED
    BY <1>4, <2>1, <2>3
<1> QED
  BY <1>5, <1>6
-----------------------------------------------------------------------------
\* The tool loads the accounts that the file is settled on.
LEMMA SettledLoads ==
  ASSUME FileInv, NEW l \in Seq(Entered(kind)), Settled(kind, form, file, l), ~ToolFindsMore(l)
  PROVE  Loaded(kind, form, file) = l
<1> DEFINE k == kind  d == file  e == ThroughEnv(d)
<1>1. k \in Kinds /\ form \in Forms /\ d \in Doc(k)
  BY DEF FileInv
<1>2. CASE form = "env"
  <2>1. /\ d.alias = <<>> /\ Readable(d)
        /\ l = <<>> => d.stray = "none" /\ d.strayClient = "none"
        /\ d.list = l
        /\ k # "qq" /\ l = <<>> => d.web = "none" /\ d.android = "none" /\ d.client = "none"
    BY <1>2 DEF ToolFindsMore, Settled
  <2>2. e \in Doc(k) /\ e.list = l
        /\ (k # "qq" /\ l = <<>> => e.web = "none" /\ e.android = "none" /\ e.client = "none")
    BY <1>1, <2>1, ThroughEnvFits DEF Env
  <2>3. Readable(e)
    BY <2>1, <2>2 DEF Readable
  <2>4. Cookie(e) = l
    BY <2>2, <2>3, CookieFits
  <2>5. k # "qq" /\ l = <<>> => Single(k, e) = <<>>
    BY <2>2, SingleFits
  <2>6. Loaded(k, form, d) = IF k = "qq" THEN Cookie(e)
                             ELSE IF e.list # <<>> /\ Readable(e) THEN e.list ELSE Single(k, e)
    BY <1>2 DEF Loaded
  <2> HIDE DEF e, d
  <2> QED
    BY <2>2, <2>3, <2>4, <2>5, <2>6 DEF d
<1>3. CASE form = "json"
  <2>1. /\ l = <<>> => k # "qq" /\ (k = "gdrive" => d.alias = <<>>)
        /\ d.list = l
        /\ k # "gdrive" => d.listed \/ (l = <<>> /\ d.alias = <<>>)
        /\ k # "qq" /\ l = <<>> => d.web = "none" /\ d.android = "none" /\ d.client = "none"
    BY <1>3 DEF ToolFindsMore, Settled
  <2>2. l = <<>> => Single(k, d) = <<>>
    BY <1>1, <2>1, SingleFits
  <2> QED
    BY <1>3, <2>1, <2>2 DEF Loaded
<1> QED
  BY <1>1, <1>2, <1>3 DEF Forms

\* A client that is the first account's own changes nothing.
LEMMA OwnClient ==
  ASSUME NEW k, NEW d \in Doc(k), NEW l \in Seq(Entered(k)), NEW after, l # <<>>,
         d.strayClient = "none", after \subseteq KeysOf(k, d),
         Len(l) = 1 => d.client \in {"none", l[1].client},
         Len(l) > 1 => d.client = "none"
  PROVE  WithClient(d, l, after) = {l}
<1>1. CASE after \cap ClientKeys = {}
  BY <1>1 DEF WithClient
<1>2. CASE after \cap ClientKeys # {}
  <2>1. after \cap ClientKeys = {"client"} /\ d.client # "none"
    BY <1>2 DEF ClientKeys, KeysOf
  <2>2. Len(l) = 1
    <3> DEFINE size == Len(l)
    <3>1. size \in Nat /\ size # 0 /\ ~(size > 1)
      BY <2>1, EmptySeq
    <3> HIDE DEF size
    <3>2. size = 1
      BY <3>1
    <3> QED
      BY <3>2 DEF size
  <2> DEFINE a == l[1]
  <2>3. a \in Entered(k) /\ d.client = a.client /\ l = [i \in 1..1 |-> l[i]]
    BY <2>1, <2>2
  <2>4. [a EXCEPT !.client = d.client] = a
    <3> HIDE DEF a
    <3> QED
      BY <2>3 DEF Entered
  <2>5. WithClient(d, l, after) =
          {[l EXCEPT ![1] = [a EXCEPT !.client = d[key]]] : key \in {"client"}}
    BY <2>1 DEF WithClient
  <2>6. d["client"] = d.client
    OBVIOUS
  <2> HIDE DEF a
  <2>7. WithClient(d, l, after) = {[l EXCEPT ![1] = [a EXCEPT !.client = d.client]]}
    BY <2>5, <2>6
  <2>8. [l EXCEPT ![1] = a] = l
    BY <2>3 DEF a
  <2> QED
    BY <2>4, <2>7, <2>8
<1> QED
  BY <1>1, <1>2

\* In whatever order the server visits the keys, it finds the same accounts.
LEMMA SettledIsVisited ==
  ASSUME FileInv, NEW l \in Seq(Entered(kind)), Settled(kind, form, file, l),
         form = "json", kind # "gdrive", ~ServerFindsMore(l)
  PROVE  VisitAll(kind, file) = {l}
<1> DEFINE k == kind  d == file
           lists == KeysOf(k, d) \cap {"list", "alias"}
           singles == KeysOf(k, d) \ lists
<1>1. d \in Doc(k)
  BY DEF FileInv
<1>2. /\ d.list = l /\ d.alias = <<>> /\ d.strayClient = "none"
      /\ d.listed \/ l = <<>>
      /\ l = <<>> => d.web = "none" /\ d.android = "none" /\ d.client = "none" /\ d.stray = "none"
      /\ Len(l) > 1 => d.client = "none"
      /\ k # "qq" /\ Len(l) = 1 => d.client \in {"none", l[1].client}
  BY DEF ServerFindsMore, Settled
<1>3. Len(l) = 1 => d.client \in {"none", l[1].client}
  BY <1>1, <1>2 DEF Doc, Clients
<1>4. lists = IF d.listed THEN {"list"} ELSE {}
  BY <1>2 DEF KeysOf
<1>5. singles \subseteq KeysOf(k, d) /\ (l = <<>> => singles = {})
  BY <1>2 DEF KeysOf
<1>6. VisitAll(k, d) = IF lists = {} THEN Visit(k, d, <<>>, singles)
                       ELSE UNION {Visit(k, d, d[last], after) : last \in lists, after \in SUBSET singles}
  BY DEF VisitAll
<1>7. d["list"] = l
  BY <1>2
<1> HIDE DEF lists, singles, d
<1>8. ASSUME NEW after \in SUBSET singles PROVE Visit(k, d, l, after) = {l}
  <2>1. CASE l = <<>>
    BY <1>5, <2>1 DEF Visit
  <2>2. CASE l # <<>>
    <3>1. WithClient(d, l, after) = {l}
      BY <1>1, <1>2, <1>3, <1>5, <2>2, OwnClient
    <3> QED
      BY <2>2, <3>1 DEF Visit
  <2> QED
    BY <2>1, <2>2
<1>9. {} \in SUBSET singles /\ singles \in SUBSET singles
  OBVIOUS
<1>10. CASE ~d.listed
  BY <1>2, <1>4, <1>6, <1>8, <1>9, <1>10 DEF d
<1>11. CASE d.listed
  <2>1. VisitAll(k, d) = UNION {Visit(k, d, d[last], after) : last \in {"list"}, after \in SUBSET singles}
    BY <1>4, <1>6, <1>11
  <2>2. VisitAll(k, d) = UNION {Visit(k, d, l, after) : after \in SUBSET singles}
    BY <1>7, <2>1
  <2> QED
    BY <1>8, <1>9, <2>2 DEF d
<1> QED
  BY <1>10, <1>11

\* The server reads the accounts that the file is settled on.
LEMMA SettledRuns ==
  ASSUME FileInv, NEW l \in Seq(Entered(kind)), Settled(kind, form, file, l), ~ServerFindsMore(l)
  PROVE  ServerReads(kind, form, file, beside) = {l}
<1> DEFINE k == kind  d == file  e == ThroughEnv(d)
<1>1. k \in Kinds /\ form \in Forms /\ d \in Doc(k)
  BY DEF FileInv
<1>2. CASE form = "env"
  <2>1. /\ d.alias = <<>> /\ Readable(d) /\ beside.over = {}
        /\ d.list = l /\ d.listed
        /\ l = <<>> => beside.under = {}
    BY <1>2 DEF ServerFindsMore, Settled
  <2>2. e \in Doc(k) /\ e.list = l /\ e.listed
    BY <1>1, <2>1, ThroughEnvFits
  <2>3. Readable(e)
    BY <2>1, <2>2 DEF Readable
  <2>4. Cookie(e) = l
    BY <2>2, <2>3, CookieFits
  <2>5. FileReads(k, form, d) = {IF k = "qq" THEN Cookie(e)
           ELSE IF ~e.listed THEN Single(k, e)
           ELSE IF Readable(e) THEN e.list ELSE <<>>}
    BY <1>2 DEF FileReads
  <2>6. FileReads(k, form, d) = {l}
    BY <2>2, <2>3, <2>4, <2>5
  <2>7. l # <<>> => FileReads(k, form, d) # {<<>>}
    BY <2>6
  <2> QED
    BY <2>1, <2>6, <2>7 DEF ServerReads
<1>3. CASE form = "json" /\ k = "gdrive"
  <2>1. /\ d.list = l /\ beside.over = {}
        /\ l = <<>> => /\ d.alias = <<>> /\ d.stray = "none"
                       /\ d.web = "none" /\ d.android = "none" /\ d.client = "none"
    BY <1>3 DEF ServerFindsMore, Settled
  <2>2. l = <<>> => Single(k, d) = <<>>
    BY <1>1, <2>1, SingleFits
  <2>3. DriveReads(k, d) = {l}
    BY <2>1, <2>2 DEF DriveReads
  <2> QED
    BY <1>3, <2>1, <2>3 DEF ServerReads, FileReads
<1>4. CASE form = "json" /\ k # "gdrive"
  <2>1. VisitAll(k, d) = {l} /\ beside.over = {}
    BY <1>4, SettledIsVisited DEF ServerFindsMore
  <2> QED
    BY <1>4, <2>1 DEF ServerReads, FileReads
<1> QED
  BY <1>1, <1>2, <1>3, <1>4 DEF Forms

-----------------------------------------------------------------------------
\* The accounts r are among those that were saved, or stand where no save writes.
Known(r, l) ==
  \A i \in DOMAIN r :
    \/ r[i].cred \in OutOfReach
    \/ \E j \in DOMAIN l : r[i].type = l[j].type /\ r[i].cred = l[j].cred

LEMMA WhatStandsThereIsKnown ==
  ASSUME NEW l
  PROVE  /\ Known(l, l) /\ Known(<<>>, l) /\ Known(file.alias, l)
         /\ form = "json" /\ kind = "qq" => Known(file.list, l)
         /\ \A r \in beside.over \cup beside.under : Known(r, l)
         /\ form = "env" /\ ~Readable(file) =>
              Known(Single(kind, ThroughEnv(file)), l) /\ Known(Cookie(file), l)
<1>1. Known(l, l) /\ Known(<<>>, l)
  BY DEF Known
<1> DEFINE A == CredsIn(file.alias)
           B == {file.stray} \ {"none"}
           C == IF file.strayClient # "none" THEN {"none"} ELSE {}
           D == UNION {CredsIn(r) : r \in beside.over \cup beside.under}
           E == IF form = "env" /\ ~Readable(file)
                THEN CredsIn(Single(kind, ThroughEnv(file))) \cup CredsIn(Cookie(file)) ELSE {}
           F == IF form = "json" /\ kind = "qq" THEN CredsIn(file.list) ELSE {}
<1>2. A \subseteq OutOfReach /\ D \subseteq OutOfReach /\ E \subseteq OutOfReach /\ F \subseteq OutOfReach
  <2>1. OutOfReach = A \cup B \cup C \cup D \cup E \cup F
    BY DEF OutOfReach
  <2> HIDE DEF A, B, C, D, E, F
  <2> QED
    BY <2>1
<1>3. form = "json" /\ kind = "qq" => F = CredsIn(file.list)
  OBVIOUS
<1>4. \A r \in beside.over \cup beside.under : CredsIn(r) \subseteq D
  OBVIOUS
<1>5. form = "env" /\ ~Readable(file) =>
        CredsIn(Single(kind, ThroughEnv(file))) \subseteq E /\ CredsIn(Cookie(file)) \subseteq E
  OBVIOUS
<1> HIDE DEF D, E, F
<1>6. \A r : CredsIn(r) \subseteq OutOfReach => Known(r, l)
  BY DEF CredsIn, Known
<1> QED
  BY <1>1, <1>2, <1>3, <1>4, <1>5, <1>6

\* From a .env file.
LEMMA EnvIsKnown ==
  ASSUME FileInv, form = "env", NEW l \in Seq(Entered(kind)), Settled(kind, form, file, l)
  PROVE  /\ Known(Loaded(kind, form, file), l)
         /\ \A r \in FileReads(kind, form, file) : Known(r, l)
<1> DEFINE k == kind  d == file  e == ThroughEnv(d)
<1>1. k \in Kinds /\ d \in Doc(k)
  BY DEF FileInv
<1>2. /\ d.list = l /\ d.listed
      /\ k # "qq" /\ l = <<>> => d.web = "none" /\ d.android = "none" /\ d.client = "none"
  BY DEF Settled
<1>3. /\ e \in Doc(k) /\ e.listed
      /\ e.list = IF d.alias # <<>> THEN d.alias ELSE l
      /\ e.web = Env(IF d.stray # "none" THEN d.stray ELSE d.web)
      /\ e.android = Env(d.android)
      /\ e.client = IF d.strayClient # "none" THEN d.strayClient ELSE d.client
  BY <1>1, <1>2, ThroughEnvFits
<1>4. Known(e.list, l)
  BY <1>3, WhatStandsThereIsKnown
<1>5. Known(Cookie(e), l)
  <2>1. CASE Readable(e)
    BY <1>3, <1>4, <2>1, CookieFits
  <2>2. CASE ~Readable(e)
    <3>1. d.alias = <<>>
      <4>1. d.alias # <<>> => e.list \in Seq({Old})
        BY <1>1, <1>3 DEF Doc
      <4>2. \A s \in Seq({Old}) : \A i \in DOMAIN s : s[i] = Old
        BY ElementOfSeq
      <4>3. Old.cred # "odd"
        BY DEF Old
      <4> QED
        BY <2>2, <4>1, <4>2, <4>3 DEF Readable
    <3>2. e.list = d.list
      BY <1>2, <1>3, <3>1
    <3>3. ~Readable(d) /\ Cookie(e) = Cookie(d)
      BY <2>2, <3>2 DEF Readable, Cookie
    <3> QED
      BY <3>3, WhatStandsThereIsKnown
  <2> QED
    BY <2>1, <2>2
<1>6. k # "qq" /\ ~(e.list # <<>> /\ Readable(e)) => Known(Single(k, e), l)
  <2> SUFFICES ASSUME k # "qq", ~(e.list # <<>> /\ Readable(e)) PROVE Known(Single(k, e), l)
    OBVIOUS
  <2>1. CASE ~Readable(d)
    BY <2>1, WhatStandsThereIsKnown
  <2>2. CASE Readable(d)
    <3>1. Readable(e)
      <4>1. d.alias # <<>> => e.list \in Seq({Old})
        BY <1>1, <1>3 DEF Doc
      <4>2. \A s \in Seq({Old}) : \A i \in DOMAIN s : s[i] = Old
        BY ElementOfSeq
      <4>3. Old.cred # "odd"
        BY DEF Old
      <4> QED
        BY <1>2, <1>3, <2>2, <4>1, <4>2, <4>3 DEF Readable
    <3>2. e.list = <<>>
      BY <3>1
    <3>3. l = <<>>
      BY <1>3, <3>2
    <3>4. /\ e.android = "none"
          /\ e.web = d.stray
          /\ e.client = d.strayClient
      <4>1. d.stray \in {"none", "old"}
        BY <1>1 DEF Doc
      <4> QED
        BY <1>2, <1>3, <3>3, <4>1 DEF Env
    <3> DEFINE b == [type |-> "web", cred |-> e.web, client |-> e.client]
    <3>5. Single(k, e) = IF e.web # "none" \/ e.client # "none" THEN <<b>> ELSE <<>>
      <4> HIDE DEF e
      <4>1. Single(k, e) = <<>> \o (IF e.web # "none" \/ e.client # "none" THEN <<b>> ELSE <<>>)
        BY <3>4 DEF Single
      <4> HIDE DEF b
      <4>2. <<>> \o <<b>> = <<b>> /\ <<>> \o <<>> = <<>>
        OBVIOUS
      <4> QED
        BY <4>1, <4>2
    <3>6. e.web # "none" \/ e.client # "none" => e.web \in OutOfReach
      <4>1. d.stray # "none" => d.stray \in OutOfReach
        BY DEF OutOfReach
      <4>2. d.strayClient # "none" => "none" \in OutOfReach
        BY DEF OutOfReach
      <4> HIDE DEF e, d
      <4> QED
        BY <3>4, <4>1, <4>2
    <3>7. b.cred = e.web
      OBVIOUS
    <3> HIDE DEF b, e
    <3>8. \A i \in DOMAIN <<b>> : <<b>>[i] = b
      OBVIOUS
    <3>9. CASE e.web # "none" \/ e.client # "none"
      BY <3>5, <3>6, <3>7, <3>8, <3>9 DEF Known
    <3>10. CASE ~(e.web # "none" \/ e.client # "none")
      BY <3>5, <3>10, WhatStandsThereIsKnown
    <3> QED
      BY <3>9, <3>10
  <2> QED
    BY <2>1, <2>2
<1>7. Loaded(k, form, d) = IF k = "qq" THEN Cookie(e)
                           ELSE IF e.list # <<>> /\ Readable(e) THEN e.list ELSE Single(k, e)
  BY DEF Loaded
<1>8. FileReads(k, form, d) = {IF k = "qq" THEN Cookie(e)
         ELSE IF ~e.listed THEN Single(k, e)
         ELSE IF Readable(e) THEN e.list ELSE <<>>}
  BY DEF FileReads
<1> HIDE DEF e
<1>9. Known(Loaded(k, form, d), l)
  BY <1>4, <1>5, <1>6, <1>7
<1>10. \A r \in FileReads(k, form, d) : Known(r, l)
  BY <1>3, <1>4, <1>5, <1>8, WhatStandsThereIsKnown
<1> QED
  BY <1>9, <1>10

\* A client changes neither type nor credential.
LEMMA ClientKeepsKnown ==
  ASSUME NEW k, NEW d, NEW prior \in Seq(Entered(k)), prior # <<>>, NEW l, Known(prior, l), NEW keys,
         NEW r \in WithClient(d, prior, keys)
  PROVE  Known(r, l)
<1>1. CASE keys \cap ClientKeys = {}
  BY <1>1 DEF WithClient
<1>2. CASE keys \cap ClientKeys # {}
  <2>1. PICK key \in keys \cap ClientKeys : r = [prior EXCEPT ![1].client = d[key]]
    BY <1>2 DEF WithClient
  <2> DEFINE c == d[key]
  <2> HIDE DEF c
  <2>2. r = [prior EXCEPT ![1].client = c]
    BY <2>1 DEF c
  <2>3. DOMAIN r = DOMAIN prior
    BY <2>2
  <2>4. ASSUME NEW i \in DOMAIN prior
        PROVE  r[i].type = prior[i].type /\ r[i].cred = prior[i].cred
    <3> DEFINE a == prior[i]
    <3>1. a \in Entered(k)
      BY ElementOfSeq
    <3>2. r[i] = a \/ r[i] = [a EXCEPT !.client = c]
      BY <2>2
    <3> HIDE DEF a
    <3>3. [a EXCEPT !.client = c].type = a.type /\ [a EXCEPT !.client = c].cred = a.cred
      BY <3>1 DEF Entered
    <3> QED
      BY <3>2, <3>3 DEF a
  <2> QED
    BY <2>3, <2>4 DEF Known
<1> QED
  BY <1>1, <1>2

\* From a JSON file, in any order of its keys.
LEMMA VisitedIsKnown ==
  ASSUME FileInv, form = "json", kind # "gdrive",
         NEW l \in Seq(Entered(kind)), Settled(kind, form, file, l), NEW r \in VisitAll(kind, file)
  PROVE  Known(r, l)
<1> DEFINE k == kind  d == file
           lists == KeysOf(k, d) \cap {"list", "alias"}
           singles == KeysOf(k, d) \ lists
           V(last, after) == Visit(k, d, d[last], after)
           T == SUBSET singles
<1>1. d \in Doc(k)
  BY DEF FileInv
<1>2. \/ k = "qq" /\ l = <<>>
      \/ /\ d.list = l /\ (d.listed \/ l = <<>>)
         /\ k # "qq" /\ l = <<>> => d.web = "none" /\ d.android = "none" /\ d.client = "none"
  BY DEF Settled
<1>3. Known(d["list"], l) /\ Known(d["alias"], l) /\ Known(<<>>, l)
  BY <1>2, WhatStandsThereIsKnown
<1>4. d["list"] \in Seq(Entered(k)) /\ d["alias"] \in Seq(Entered(k)) /\ <<>> \in Seq(Entered(k))
  BY <1>1, OldIsEntered DEF Doc
\* What begins with no account: the single keys that no save reaches.
<1>5. ASSUME NEW key \in singles, k = "qq" \/ l = <<>>
      PROVE  FromKey(k, d, key).cred \in OutOfReach
  <2>1. key \in {"stray", "strayClient"}
    <3>1. CASE k = "qq"
      <4>1. d.web = "none" /\ d.client = "none"
        BY <1>1, <3>1 DEF Doc, Keyed, Clients
      <4> QED
        BY <3>1, <4>1 DEF KeysOf
    <3>2. CASE k # "qq"
      BY <1>2, <1>5, <3>2 DEF KeysOf
    <3> QED
      BY <3>1, <3>2
  <2>2. d[key] # "none"
    BY <2>1 DEF KeysOf
  <2>3. CASE key = "stray"
    <3>1. d.stray # "none" /\ FromKey(k, d, key).cred = d.stray
      BY <2>2, <2>3 DEF FromKey, ClientKeys
    <3> QED
      BY <3>1 DEF OutOfReach
  <2>4. CASE key = "strayClient"
    <3>1. d.strayClient # "none" /\ FromKey(k, d, key).cred = "none"
      BY <2>2, <2>4 DEF FromKey, ClientKeys
    <3> QED
      BY <3>1 DEF OutOfReach
  <2> QED
    BY <2>1, <2>3, <2>4
<1>6. ASSUME NEW prior \in Seq(Entered(k)), Known(prior, l), NEW after \in SUBSET singles,
             prior = <<>> => k = "qq" \/ l = <<>>,
             r \in Visit(k, d, prior, after)
      PROVE  Known(r, l)
  <2>1. CASE prior # <<>>
    <3>1. r \in WithClient(d, prior, after)
      BY <1>6, <2>1 DEF Visit
    <3> QED
      BY <1>6, <2>1, <3>1, ClientKeepsKnown
  <2>2. CASE prior = <<>> /\ after = {}
    BY <1>3, <1>6, <2>2 DEF Visit
  <2>3. CASE prior = <<>> /\ after # {}
    <3>1. PICK first \in after : r \in WithClient(d, <<FromKey(k, d, first)>>, after \ {first})
      BY <1>6, <2>3 DEF Visit
    <3> DEFINE a == FromKey(k, d, first)
    <3>2. a.cred \in OutOfReach
      BY <1>5, <1>6, <2>3
    <3>3. a \in Entered(k)
      <4>1. first \in {"web", "android", "client", "stray", "strayClient"}
        BY DEF KeysOf
      <4>2. d[first] \in Creds \cup Clients(k) /\ (first \in ClientKeys => d[first] \in Clients(k))
            /\ (first \notin ClientKeys => d[first] \in Creds)
        BY <1>1, <4>1 DEF Doc, Keyed, Creds, ClientKeys
      <4>3. "none" \in Creds /\ "none" \in Clients(k)
        BY DEF Creds, Clients
      <4> QED
        BY <4>2, <4>3 DEF FromKey, Entered
    <3> HIDE DEF a
    <3>4. <<a>> \in Seq(Entered(k)) /\ <<a>> # <<>> /\ Known(<<a>>, l)
      BY <3>2, <3>3 DEF Known
    <3>5. r \in WithClient(d, <<a>>, after \ {first})
      BY <3>1 DEF a
    <3> QED
      BY <3>4, <3>5, ClientKeepsKnown
  <2> QED
    BY <2>1, <2>2, <2>3
<1>7. VisitAll(k, d) = IF lists = {} THEN Visit(k, d, <<>>, singles)
                       ELSE UNION {V(last, after) : last \in lists, after \in T}
  BY DEF VisitAll
<1>8. CASE lists = {}
  <2>1. k = "qq" \/ l = <<>>
    BY <1>2, <1>8 DEF KeysOf
  <2>2. r \in Visit(k, d, <<>>, singles)
    BY <1>7, <1>8
  <2> HIDE DEF singles
  <2> QED
    BY <1>3, <1>4, <1>6, <2>1, <2>2
<1>9. CASE lists # {}
  <2> HIDE DEF lists, singles
  <2>1. PICK last \in lists, after \in SUBSET singles : r \in Visit(k, d, d[last], after)
    <3> HIDE DEF V, T
    <3>1. r \in UNION {V(last, after) : last \in lists, after \in T}
      BY <1>7, <1>9
    <3>2. \E last \in lists, after \in T : r \in V(last, after)
      BY <3>1
    <3> QED
      BY <3>2 DEF V, T
  <2>2. last \in {"list", "alias"}
    BY DEF lists
  <2>3. d[last] = <<>> => k = "qq" \/ l = <<>>
    BY <1>2, <2>2 DEF KeysOf, lists
  <2> DEFINE prior == d[last]
  <2>4. prior \in Seq(Entered(k)) /\ Known(prior, l)
    BY <1>3, <1>4, <2>2
  <2> HIDE DEF prior
  <2> QED
    BY <1>6, <2>1, <2>3, <2>4 DEF prior
<1> QED
  BY <1>8, <1>9

LEMMA JSONIsKnown ==
  ASSUME FileInv, form = "json", NEW l \in Seq(Entered(kind)), Settled(kind, form, file, l)
  PROVE  /\ Known(Loaded(kind, form, file), l)
         /\ \A r \in FileReads(kind, form, file) : Known(r, l)
<1> DEFINE k == kind  d == file
<1>1. d \in Doc(k)
  BY DEF FileInv
<1>2. \/ k = "qq" /\ l = <<>>
      \/ /\ d.list = l
         /\ k # "qq" /\ l = <<>> => d.web = "none" /\ d.android = "none" /\ d.client = "none"
  BY DEF Settled
<1>3. Known(d.list, l) /\ Known(d.alias, l) /\ Known(<<>>, l)
  BY <1>2, WhatStandsThereIsKnown
<1>4. k # "qq" /\ d.list = <<>> => Single(k, d) = <<>>
  BY <1>1, <1>2, SingleFits
<1>5. Known(Loaded(k, form, d), l)
  <2>1. Loaded(k, form, d) \in {d.list, d.alias} \/ (k # "qq" /\ d.list = <<>> /\ Loaded(k, form, d) = Single(k, d))
    BY DEF Loaded
  <2> QED
    BY <1>3, <1>4, <2>1
<1>6. CASE k = "gdrive"
  <2> DEFINE a == FromKey(k, d, "stray")
  <2>1. d.stray # "none" => a.cred \in OutOfReach
    <3>1. a.cred = d.stray
      BY DEF FromKey, ClientKeys
    <3> QED
      BY <3>1 DEF OutOfReach
  <2> HIDE DEF a
  <2>2. d.stray # "none" => Known(<<a>>, l)
    BY <2>1 DEF Known
  <2>3. <<a>> \o <<>> = <<a>>
    OBVIOUS
  <2>4. ASSUME NEW r \in DriveReads(k, d)
        PROVE  \/ r \in {d.list, d.alias}
               \/ d.list = <<>> /\ r = Single(k, d)
               \/ d.list = <<>> /\ d.stray # "none" /\ r \in {<<a>>, <<a>> \o Single(k, d)}
    BY DEF DriveReads, a
  <2>5. \A r \in DriveReads(k, d) : Known(r, l)
    BY <1>3, <1>4, <1>6, <2>2, <2>3, <2>4
  <2> QED
    BY <1>5, <1>6, <2>5 DEF FileReads
<1>7. CASE k # "gdrive"
  <2>1. FileReads(k, form, d) = VisitAll(k, d)
    BY <1>7 DEF FileReads
  <2> QED
    BY <1>5, <1>7, <2>1, VisitedIsKnown
<1> QED
  BY <1>6, <1>7

LEMMA SettledIsRead == FileInv => SavedIsRead
<1> SUFFICES ASSUME FileInv, NEW l \in saved
             PROVE  /\ ToolFindsMore(l) \/ Loaded(kind, form, file) = l
                    /\ ServerFindsMore(l) \/ ServerReads(kind, form, file, beside) = {l}
                    /\ \A r \in {Loaded(kind, form, file)} \cup ServerReads(kind, form, file, beside) :
                         Known(r, l)
  BY DEF SavedIsRead, Known
<1>1. l \in Seq(Entered(kind)) /\ Settled(kind, form, file, l) /\ form \in Forms
  BY DEF FileInv
<1>2. ToolFindsMore(l) \/ Loaded(kind, form, file) = l
  BY <1>1, SettledLoads
<1>3. ServerFindsMore(l) \/ ServerReads(kind, form, file, beside) = {l}
  BY <1>1, SettledRuns
<1>4. Known(Loaded(kind, form, file), l) /\ \A r \in FileReads(kind, form, file) : Known(r, l)
  BY <1>1, EnvIsKnown, JSONIsKnown DEF Forms
<1>5. \A r \in beside.over \cup beside.under : Known(r, l)
  BY WhatStandsThereIsKnown
<1>6. ServerReads(kind, form, file, beside) \in {beside.over, beside.under, FileReads(kind, form, file)}
  BY DEF ServerReads
<1> QED
  BY <1>2, <1>3, <1>4, <1>5, <1>6

-----------------------------------------------------------------------------
LEMMA FileStarts == AccountFileInit => FileInv
<1> SUFFICES ASSUME AccountFileInit PROVE FileInv
  OBVIOUS
<1>1. /\ kind \in Kinds /\ form \in Forms /\ doc = EmptyDoc /\ list = <<>>
      /\ tool = "closed" /\ saved = {}
  BY DEF AccountFileInit
<1>2. PICK a \in Account(kind), m \in {<<>>, <<Old>>},
           s \in IF kind = "qq" THEN {"none"} ELSE {"none", "old"},
           c \in IF kind = "spotify" THEN {"none", "given"} ELSE {"none"} :
        LET d == [EmptyDoc EXCEPT !.alias = m, !.stray = s, !.strayClient = c]
        IN \/ file \in {d, [d EXCEPT !.list = <<a>>, !.listed = TRUE]}
           \/ kind # "qq" /\ file = [d EXCEPT ![a.type] = a.cred, !.client = a.client]
  BY DEF AccountFileInit
<1>3. a \in Entered(kind) /\ EmptyDoc \in Doc(kind)
  BY AccountsAreEntered, EmptyDocFits
<1>4. <<a>> \in Seq(Entered(kind)) /\ <<>> \in Seq(Entered(kind))
  BY <1>3
<1>5. m \in Seq({Old}) /\ s \in Keyed(kind) \cap {"none", "old"} /\ c \in Clients(kind)
  <2>1. m \in Seq({Old})
    <3>1. <<>> \in Seq({Old}) /\ <<Old>> \in Seq({Old})
      OBVIOUS
    <3> QED
      BY <3>1
  <2>2. s \in Keyed(kind) \cap {"none", "old"}
    BY DEF Keyed, Creds
  <2>3. c \in Clients(kind)
    BY DEF Clients
  <2> QED
    BY <2>1, <2>2, <2>3
<1> DEFINE d == [EmptyDoc EXCEPT !.alias = m, !.stray = s, !.strayClient = c]
<1>6. d \in Doc(kind)
  <2> DEFINE g == EmptyDoc
  <2>1. g \in Doc(kind) /\ d = [g EXCEPT !.alias = m, !.stray = s, !.strayClient = c]
    BY <1>3
  <2> HIDE DEF g, d
  <2> QED
    BY <1>5, <2>1 DEF Doc
<1>7. \/ file \in {d, [d EXCEPT !.list = <<a>>, !.listed = TRUE]}
      \/ kind # "qq" /\ file = [d EXCEPT ![a.type] = a.cred, !.client = a.client]
  BY <1>2
<1> HIDE DEF d
<1>8. file \in Doc(kind)
  <2>1. CASE file \in {d, [d EXCEPT !.list = <<a>>, !.listed = TRUE]}
    BY <1>4, <1>6, <2>1 DEF Doc
  <2>2. CASE kind # "qq" /\ file = [d EXCEPT ![a.type] = a.cred, !.client = a.client]
    <3>1. a.type \in {"web", "android"} /\ a.cred \in Keyed(kind) /\ a.client \in Clients(kind)
      <4>1. kind # "qq"
        BY <2>2, Zenon
      <4>2. a.type \in {"web", "android"} /\ a.cred \in Creds /\ a.client \in Clients(kind)
        BY <1>3 DEF Entered
      <4> QED
        BY <4>1, <4>2, Zenon DEF Keyed
    <3>2. CASE a.type = "web"
      <4>1. file = [d EXCEPT !.web = a.cred, !.client = a.client]
        BY <2>2, <3>2, Zenon
      <4> QED
        BY <1>6, <3>1, <4>1 DEF Doc
    <3>3. CASE a.type = "android"
      <4>1. file = [d EXCEPT !.android = a.cred, !.client = a.client]
        BY <2>2, <3>3, Zenon
      <4> QED
        BY <1>6, <3>1, <4>1 DEF Doc
    <3> QED
      BY <3>1, <3>2, <3>3
  <2> QED
    BY <1>7, <2>1, <2>2, Zenon
<1>9. beside \in [over : SUBSET Seq(Entered(kind)), under : SUBSET Seq(Entered(kind))]
  <2> DEFINE S == Seq(Entered(kind))
  <2>1. <<Old>> \in S /\ <<>> \in S
    BY OldIsEntered
  <2> HIDE DEF S
  <2>2. {{}, {<<Old>>}} \cup (IF kind = "qq" THEN {{<<>>}} ELSE {}) \subseteq SUBSET S
        /\ (IF form = "env" THEN {{}, {<<Old>>}} ELSE {{}}) \subseteq SUBSET S
    BY <2>1
  <2> QED
    BY <2>2 DEF AccountFileInit, S
<1> QED
  BY <1>1, <1>3, <1>4, <1>8, <1>9 DEF FileInv

LEMMA EditKeeps ==
  ASSUME FileInv, NEW l \in Seq(Entered(kind)), Edited(l)
  PROVE  FileInv'
BY DEF FileInv, Edited

LEMMA ToolKeeps ==
  ASSUME FileInv, Open \/ SaveFails \/ Truncate \/ WriteOut \/ Quit
  PROVE  FileInv'
<1>1. /\ kind' = kind /\ form' = form /\ kind \in Kinds /\ form \in Forms
      /\ file \in Doc(kind) /\ doc \in Doc(kind) /\ list \in Seq(Entered(kind))
      /\ beside' = beside
      /\ beside \in [over : SUBSET Seq(Entered(kind)), under : SUBSET Seq(Entered(kind))]
  BY DEF FileInv, Open, SaveFails, Truncate, WriteOut, Quit
<1>2. EmptyDoc \in Doc(kind) /\ <<>> \in Seq(Entered(kind))
  BY EmptyDocFits
<1>3. /\ Written(kind, form, doc, list) \in Doc(kind)
      /\ Settled(kind, form, Written(kind, form, doc, list), list)
  BY <1>1, WrittenSettles
<1>4. CASE Open
  BY <1>1, <1>4, LoadedFits DEF FileInv, Open
<1>5. CASE SaveFails
  BY <1>1, <1>3, <1>5 DEF FileInv, SaveFails
<1>6. CASE Truncate
  BY <1>1, <1>2, <1>3, <1>6 DEF FileInv, Truncate
<1>7. CASE WriteOut
  <2>1. file' = doc /\ saved' = {list} /\ tool' = "open" /\ doc' = doc /\ list' = list
        /\ Settled(kind, form, doc, list)
    BY <1>7 DEF FileInv, WriteOut
  <2> QED
    BY <1>1, <2>1 DEF FileInv
<1>8. CASE Quit
  BY <1>1, <1>2, <1>8 DEF FileInv, Quit
<1> QED
  BY <1>4, <1>5, <1>6, <1>7, <1>8

LEMMA UserKeeps ==
  ASSUME FileInv, Add \/ SetCookie \/ Edit \/ RemoveOne
  PROVE  FileInv'
<1>1. list \in Seq(Entered(kind))
  BY DEF FileInv
<1>2. CASE Add
  <2>1. PICK a \in Account(kind) : Edited(Append(list, a))
    BY <1>2 DEF Add
  <2> QED
    BY <1>1, <2>1, AccountsAreEntered, EditKeeps, AppendProperties
<1>3. CASE SetCookie
  <2>1. PICK l \in {<<a>> : a \in Account(kind)} \cup {<<>>} : Edited(l)
    BY <1>3 DEF SetCookie
  <2>2. l \in Seq(Entered(kind))
    <3>1. CASE l = <<>>
      BY <3>1
    <3>2. CASE l # <<>>
      <4>1. PICK a \in Account(kind) : l = <<a>>
        BY <2>1, <3>2
      <4>2. a \in Entered(kind)
        BY AccountsAreEntered
      <4> QED
        BY <4>1, <4>2
    <3> QED
      BY <3>1, <3>2
  <2> QED
    BY <2>1, <2>2, EditKeeps
<1>4. CASE Edit
  <2>1. PICK i \in DOMAIN list, a \in Account(kind) : Edited([list EXCEPT ![i] = a])
    BY <1>4 DEF Edit
  <2>2. a \in Entered(kind)
    BY AccountsAreEntered
  <2>3. [list EXCEPT ![i] = a] \in Seq(Entered(kind))
    BY <1>1, <2>2, ExceptSeq
  <2> QED
    BY <2>1, <2>3, EditKeeps
<1>5. CASE RemoveOne
  <2>1. PICK i \in DOMAIN list : Edited(RemoveAt(list, i))
    BY <1>5 DEF RemoveOne
  <2>2. RemoveAt(list, i) \in Seq(Entered(kind))
    BY <1>1, SubSeqProperties, ConcatProperties DEF RemoveAt
  <2> QED
    BY <2>1, <2>2, EditKeeps
<1> QED
  BY <1>2, <1>3, <1>4, <1>5

LEMMA ConvertKeeps ==
  ASSUME FileInv, ConvertEnvToJSON
  PROVE  FileInv'
<1> DEFINE S == Seq(Entered(kind))
           b == [beside EXCEPT !.under = {}]
<1>1. PICK l \in ServerReads(kind, form, file, b) :
        /\ file' = [EmptyDoc EXCEPT !.list = l, !.listed = l # <<>>]
        /\ beside' \in {[over |-> beside.over, under |-> {}],
                        [over |-> IF l = <<>> /\ kind # "qq" THEN {} ELSE {l}, under |-> {}]}
        /\ saved' = {l}
  BY Zenon DEF ConvertEnvToJSON
<1>2. /\ form = "env" /\ form' = "json" /\ kind' = kind /\ doc' = doc /\ list' = list
      /\ tool' = tool /\ tool = "closed" /\ kind \in Kinds
      /\ file \in Doc(kind) /\ doc \in Doc(kind) /\ list \in S
      /\ beside \in [over : SUBSET S, under : SUBSET S]
  BY DEF ConvertEnvToJSON, FileInv
<1>3. l \in S
  <2> DEFINE e == ThroughEnv(file)
  <2>1. e \in Doc(kind)
    BY <1>2, ThroughEnvFits
  <2>2. Cookie(e) \in S /\ Single(kind, e) \in S /\ e.list \in S /\ <<>> \in S
    BY <2>1, CookieFits, SingleFits DEF Doc
  <2>3. b.over = beside.over /\ b.under = {}
    BY <1>2
  <2>4. l \in beside.over \/ l \in FileReads(kind, form, file)
    <3> HIDE DEF b
    <3> QED
      BY <1>1, <2>3 DEF ServerReads
  <2>5. l \in FileReads(kind, form, file) => l \in {Cookie(e), Single(kind, e), e.list, <<>>}
    BY <1>2 DEF FileReads
  <2> HIDE DEF e
  <2> QED
    BY <1>2, <2>2, <2>4, <2>5
<1>4. /\ file' \in Doc(kind) /\ file'.list = l /\ file'.listed = (l # <<>>) /\ file'.alias = <<>>
      /\ file'.web = "none" /\ file'.android = "none" /\ file'.client = "none"
  <2> DEFINE d == EmptyDoc
  <2>1. d \in Doc(kind) /\ d.alias = <<>> /\ d.web = "none" /\ d.android = "none" /\ d.client = "none"
    BY EmptyDocFits DEF EmptyDoc
  <2>2. file' = [d EXCEPT !.list = l, !.listed = l # <<>>]
    BY <1>1
  <2> HIDE DEF d
  <2> QED
    BY <1>3, <2>1, <2>2 DEF Doc
<1>5. Settled(kind, "json", file', l)
  BY <1>4 DEF Settled
<1>6. beside' \in [over : SUBSET S, under : SUBSET S]
  <2> HIDE DEF S
  <2> QED
    BY <1>1, <1>2, <1>3
<1> QED
  BY <1>1, <1>2, <1>3, <1>4, <1>5, <1>6 DEF FileInv, Forms

\* For any number of accounts, whatever is edited, saved, converted or given up,
\* and whatever order the server visits the keys in: the accounts saved last are
\* those that the tool loads and the server runs with, if nothing else is said
\* where no save writes; and no other account comes back from what a save does
\* write (account_store.go, config.go:371-390, 425-464, 640-754, 1241-1373).
THEOREM SavedAccountsStay == AccountFileSpec => []SavedIsRead
<1>1. FileInv /\ [AccountFileNext]_accountFileVars => FileInv'
  <2> SUFFICES ASSUME FileInv, [AccountFileNext]_accountFileVars PROVE FileInv'
    OBVIOUS
  <2>1. CASE UNCHANGED accountFileVars
    BY <2>1 DEF accountFileVars, FileInv
  <2> QED
    BY <2>1, ToolKeeps, UserKeeps, ConvertKeeps DEF AccountFileNext
<1> QED
  BY <1>1, FileStarts, SettledIsRead, PTL DEF AccountFileSpec
=============================================================================
