------------------------------- MODULE Merger -------------------------------
(***************************************************************************)
(* The offline merger of databases: storage/merger.go and the command      *)
(* db_merger.  The sources are merged into the target one after the other, *)
(* each in two transactions: rows the target has are updated by the        *)
(* strategy, the others are inserted.  An interrupt ends the merge between *)
(* two chunks; whatever happened, the indexes that were dropped for the    *)
(* merge are restored at the end.  A chunk is the row of one song.  Titles *)
(* and the counts that are printed are left out.                           *)
(***************************************************************************)
EXTENDS Integers, Sequences, FiniteSets

CONSTANTS RowsOf,       \* per pair (filename, source) the rows it may have,
                        \* each [content, at]
          MaxSources    \* bound: the number of source databases

VARIABLES strategy,     \* MergeConfig.Strategy
          sources,      \* the source databases: song -> {} or {row}
          target,       \* the rows of the target, committed
          fts,          \* the songs in its full-text index, committed
          trigger,      \* whether its insert trigger and its indexes exist
          before,       \* the songs with an id up to maxIDBeforeAll
          inserted,     \* stats.Inserted > 0
          tx,           \* the open transaction: [rows, fts]
          merge,        \* the merge: [pc, src, todo]
          interrupted,  \* ctx was cancelled by a signal
          merged,       \* ghost: the sources that were merged without error
          passed        \* ghost: the conflicts <<source, song>> passed over

mergerVars == <<strategy, sources, target, fts, trigger, before, inserted, tx,
                merge, interrupted, merged, passed>>

MergeSongs == DOMAIN RowsOf

ASSUME MergerAssumption ==
  /\ MaxSources \in Nat
  /\ \A m \in MergeSongs : \A r \in RowsOf[m] : r.at \in Nat

Strategies == {"quality", "newer", "insert-only", "force"}
RankNone == 0
RankEmpty == 1
RankPlain == 2
RankLine == 3
RankSyllable == 4

(***************************************************************************)
(* The quality of a content.  A content is a record of what the detection  *)
(* looks at: its form ("blank", "xml", "json", "broken"), the declared     *)
(* type ("word", "line", "none") and whether it is found in the header,    *)
(* where its syllables begin ("head", "tail", "no"), whether lines carry   *)
(* times, whether the list of lines is empty, whether it is one of         *)
(* KpoeTools', and whether the first 512 bytes are all of it.              *)
(***************************************************************************)

\* detectJSONHeaderType: the type, when it stands in the first 160 bytes.
HeaderType(c) == IF c.early THEN c.type ELSE "none"

\* What the full text says, when the header did not decide.
FullRank(c) ==
  IF c.form = "json" /\ c.empty THEN RankEmpty
  ELSE IF c.syllables # "no" \/ (c.form = "json" /\ c.type = "word") THEN RankSyllable
  ELSE IF c.timed \/ (c.form = "json" /\ c.type = "line") THEN RankLine
  ELSE IF c.form = "broken" THEN RankNone ELSE RankPlain

DetectLyricsQuality(c) ==
  LET type == HeaderType(c)
      heard == c.syllables = "head"
  IN  CASE c.form = "blank" -> RankNone
        [] c.form = "xml" ->
             IF type = "word" \/ heard THEN RankSyllable
             ELSE IF type = "line" THEN RankLine ELSE FullRank(c)
        [] c.form = "json" ->
             IF c.empty THEN RankEmpty
             ELSE IF type = "word" THEN RankSyllable
             ELSE IF type = "line" /\ heard THEN RankSyllable
             ELSE IF type = "line" /\ (c.whole \/ c.tools) THEN RankLine
             ELSE FullRank(c)
        [] OTHER -> FullRank(c)

\* Mutant: between equal ranks the older row is kept.
UpgradesRankOnly(s, t) ==
  DetectLyricsQuality(s.content) > DetectLyricsQuality(t.content)

\* evaluateSingleCandidate: whether the source's row replaces the target's.
Upgrades(s, t) ==
  LET sr == DetectLyricsQuality(s.content)
      tr == DetectLyricsQuality(t.content)
  IN IF s.content = t.content
     THEN s.at > t.at
     ELSE sr > tr \/ (sr = tr /\ s.at > t.at)

\* What the strategy does about a row both databases have.
Replaces(s, t) ==
  CASE strategy = "force" -> TRUE
    [] strategy = "newer" -> s.at > t.at
    [] OTHER -> Upgrades(s, t)

-----------------------------------------------------------------------------

Source == sources[merge.src]
RowsIn(db) == {m \in MergeSongs : db[m] # {}}
Databases ==
  {d \in [MergeSongs -> UNION {{{}} \cup {{r} : r \in RowsOf[m]} : m \in MergeSongs}] :
     \A m \in MergeSongs : d[m] \subseteq RowsOf[m]}
NoTx == [rows |-> <<>>, fts |-> {}]

MergerInit ==
  /\ strategy \in Strategies
  /\ target \in Databases
  /\ \E n \in 0..MaxSources : sources \in [1..n -> Databases]
  /\ fts = RowsIn(target)
  /\ trigger = TRUE
  /\ before = RowsIn(target)
  /\ inserted = FALSE
  /\ tx = NoTx
  /\ merge = [pc |-> "prepare", src |-> 0, todo |-> {}]
  /\ interrupted = FALSE
  /\ merged = {} /\ passed = {}

SameSources == UNCHANGED <<strategy, sources, before, interrupted>>
SameDatabase == SameSources /\ passed' = passed

\* MergeDatabases begins: with an empty target, or much to merge, the indexes
\* and the insert trigger are dropped.
Prepare ==
  /\ merge.pc = "prepare"
  /\ \/ trigger' = FALSE
     \/ target # [m \in MergeSongs |-> {}] /\ UNCHANGED trigger
  /\ merge' = [merge EXCEPT !.pc = "next"]
  /\ UNCHANGED <<target, fts, inserted, tx, merged>> /\ SameDatabase

\* The loop over the sources ends after the last one, or at an interrupt.
Sourced ==
  /\ merge.pc = "next"
  /\ interrupted \/ merge.src = Len(sources)
  /\ merge' = [merge EXCEPT !.pc = "restore"]
  /\ UNCHANGED <<target, fts, trigger, inserted, tx, merged>> /\ SameDatabase

\* A source that is the target itself, is missing or cannot be attached is
\* passed over.
SkipSource ==
  /\ merge.pc = "next" /\ ~interrupted /\ merge.src < Len(sources)
  /\ merge' = [merge EXCEPT !.src = @ + 1]
  /\ UNCHANGED <<target, fts, trigger, inserted, tx, merged>> /\ SameDatabase

BeginTx(pc) ==
  /\ tx' = [rows |-> target, fts |-> fts]
  /\ merge' = [merge EXCEPT !.pc = pc,
                            !.src = IF merge.pc = "next" THEN @ + 1 ELSE @,
                            !.todo = MergeSongs]

\* mergeSingleSource begins: rows that may be in conflict first.
Attach ==
  /\ merge.pc = "next" /\ ~interrupted /\ merge.src < Len(sources)
  /\ IF RowsIn(sources[merge.src + 1]) = {}
     THEN /\ merge' = [merge EXCEPT !.src = @ + 1]
          /\ merged' = merged \cup {merge.src + 1}
          /\ UNCHANGED tx
     ELSE /\ BeginTx(IF RowsIn(target) # {} /\ strategy # "insert-only"
                   THEN "resolve" ELSE "insert")
          /\ UNCHANGED merged
  /\ UNCHANGED <<target, fts, trigger, inserted>> /\ SameDatabase

\* One chunk of resolveConflictsForceOrNewer or resolveConflictsQuality.
Resolve(m) ==
  /\ merge.pc = "resolve" /\ ~interrupted /\ m \in merge.todo
  /\ merge' = [merge EXCEPT !.todo = @ \ {m}]
  /\ tx' = [tx EXCEPT !.rows[m] =
              IF \E s \in Source[m], t \in @ : Replaces(s, t) THEN Source[m] ELSE @]
  /\ UNCHANGED <<target, fts, trigger, inserted, merged>> /\ SameDatabase

\* By quality the rows are compared one by one: one that cannot be read or
\* written is counted in stats.Errors and passed over, as are the rows after a
\* read that broke off, and the transaction goes on (merger.go:843-867).
PassOver(m) ==
  /\ merge.pc = "resolve" /\ strategy = "quality" /\ ~interrupted
  /\ m \in merge.todo /\ Source[m] # {} /\ tx.rows[m] # {}
  /\ merge' = [merge EXCEPT !.todo = @ \ {m}]
  /\ passed' = passed \cup {<<merge.src, m>>}
  /\ UNCHANGED <<target, fts, trigger, inserted, tx, merged>> /\ SameSources

\* One chunk of the bulk insert: INSERT OR IGNORE, with the insert trigger if
\* there is one.  stats.Inserted counts it though the transaction may fail.
Insert(m) ==
  LET new == tx.rows[m] = {} /\ Source[m] # {}
  IN /\ merge.pc = "insert" /\ ~interrupted /\ m \in merge.todo
     /\ merge' = [merge EXCEPT !.todo = @ \ {m}]
     /\ tx' = IF new THEN [rows |-> [tx.rows EXCEPT ![m] = Source[m]],
                           fts |-> IF trigger THEN tx.fts \cup {m} ELSE tx.fts]
              ELSE tx
     /\ inserted' = (inserted \/ new)
     /\ UNCHANGED <<target, fts, trigger, merged>> /\ SameDatabase

Committed == target' = tx.rows /\ fts' = tx.fts

\* The conflicts are committed and the bulk insert begins.
CommitResolved ==
  /\ merge.pc = "resolve" /\ merge.todo = {}
  /\ Committed
  /\ tx' = tx
  /\ merge' = [merge EXCEPT !.pc = "insert", !.todo = MergeSongs]
  /\ UNCHANGED <<trigger, inserted, merged>> /\ SameDatabase

\* The bulk insert is committed: the source is merged.
CommitInserted ==
  /\ merge.pc = "insert" /\ merge.todo = {}
  /\ Committed
  /\ tx' = NoTx
  /\ merge' = [merge EXCEPT !.pc = "next"]
  /\ merged' = merged \cup {merge.src}
  /\ UNCHANGED <<trigger, inserted>> /\ SameDatabase

\* Any other statement fails, or the context ended: the open transaction is
\* rolled back and the source is left, half merged if its conflicts were
\* committed.
Fail ==
  /\ merge.pc \in {"resolve", "insert"}
  /\ tx' = NoTx
  /\ merge' = [merge EXCEPT !.pc = "next", !.todo = {}]
  /\ UNCHANGED <<target, fts, trigger, inserted, merged>> /\ SameDatabase

\* A signal; before the loop it ends the merge with nothing changed.
Interrupted ==
  /\ merge.pc \in {"next", "resolve", "insert"} /\ ~interrupted
  /\ interrupted' = TRUE
  /\ UNCHANGED <<strategy, sources, target, fts, trigger, before, inserted, tx,
                 merge, merged, passed>>

\* Mutant: an interrupted merge leaves the new rows to the next one.
RestoreUninterrupted ==
  /\ merge.pc = "restore"
  /\ merge' = [merge EXCEPT !.pc = "done"]
  /\ trigger' = TRUE
  /\ fts' \in {IF ~trigger /\ inserted /\ ~interrupted
               THEN fts \cup (RowsIn(target) \ before) ELSE fts,
               RowsIn(target)}
  /\ UNCHANGED <<target, inserted, tx, merged>> /\ SameDatabase

\* The indexes are restored with a context of their own.  Without --rebuild-fts
\* the rows with new ids enter the full-text index if any was inserted.
Restore ==
  /\ merge.pc = "restore"
  /\ merge' = [merge EXCEPT !.pc = "done"]
  /\ trigger' = TRUE
  /\ fts' \in {IF ~trigger /\ inserted THEN fts \cup (RowsIn(target) \ before)
               ELSE fts,
               RowsIn(target)}
  /\ UNCHANGED <<target, inserted, tx, merged>> /\ SameDatabase

MergerNext ==
  \/ Prepare \/ Sourced \/ SkipSource \/ Attach
  \/ \E m \in MergeSongs : Resolve(m) \/ PassOver(m) \/ Insert(m)
  \/ CommitResolved \/ CommitInserted \/ Fail \/ Interrupted \/ Restore

MergerSpec == MergerInit /\ [][MergerNext]_mergerVars

-----------------------------------------------------------------------------

AtLeast(t, s) ==
  LET tr == DetectLyricsQuality(t.content)
      sr == DetectLyricsQuality(s.content)
  IN CASE strategy = "quality" -> tr > sr \/ (tr = sr /\ t.at >= s.at)
       [] strategy = "newer" -> t.at >= s.at
       [] OTHER -> TRUE

Passed(i) == {m \in MergeSongs : <<i, m>> \in passed}

\* Whatever sources failed or were interrupted before and after it: for every
\* source that was merged the target has all its songs, each in a row that the
\* strategy ranks at least as high, unless that very row was counted as an
\* error; an error costs no other row and no row that was already there
\* (merger.go:317-890).
MergedIsKept ==
  \A i \in merged : \A m \in MergeSongs :
    sources[i][m] # {} =>
      \E t \in target[m] : m \in Passed(i) \/ \A s \in sources[i][m] : AtLeast(t, s)

\* When the merge is over, interrupted or not, the insert trigger is back and
\* every row is found by a full-text search (merger.go:405-425: "the target
\* database is never left in an unindexed state even on interrupt").
IndexedWhenDone ==
  merge.pc = "done" => trigger /\ RowsIn(target) \subseteq fts
=============================================================================
