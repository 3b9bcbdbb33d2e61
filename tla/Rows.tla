-------------------------------- MODULE Rows --------------------------------
(***************************************************************************)
(* The table of lyrics with its keys, and the caches of storage.Store in   *)
(* front of it: which lookups a write invalidates.  Store models one song  *)
(* under interleaving; here every call is atomic, but there are several    *)
(* rows, found by ISRC, platform id, title or full text, and written by    *)
(* the service and by the handlers of the administration.                  *)
(***************************************************************************)
EXTENDS Integers

CONSTANTS Requests,   \* what is saved: [title, isrc, plat, source]; "" is none
          Lookups,    \* the keys that are looked up, see KeysOfRow
          Found,      \* title -> the titles a full-text search for it finds
          MaxIDs,     \* bound: rows ever inserted
          MaxVersions \* bound: versions of contents ever written

VARIABLES table,   \* the rows: a request's fields with [id, file, version]
          cached,  \* the caches exact, exactTitle and exist: key -> rows
          missed,  \* the memo of misses: keys
          counts   \* [id, version]: how many were handed out

rowsVars == <<table, cached, missed, counts>>

\* A lookup without any id, or of a title without a word to search for, returns
\* before it comes to the caches; and a title is found by its own words.
ASSUME RowsAssumption ==
  /\ MaxIDs \in Nat /\ MaxVersions \in Nat
  /\ \A k \in Lookups : /\ k[1] \in {"exact", "user"} => k[2] # "" \/ k[3] # ""
                        /\ k[1] = "fts" => k[2] \in Found[k[2]]

\* The state the operations below work on, as one record.
Now == [table |-> table, cached |-> cached, missed |-> missed, counts |-> counts]
Becomes(st) ==
  /\ table' = st.table /\ cached' = st.cached
  /\ missed' = st.missed /\ counts' = st.counts

RowsInit ==
  /\ table = {}
  /\ cached = [k \in Lookups |-> {}]
  /\ missed = {}
  /\ counts = [id |-> 0, version |-> 0]

-----------------------------------------------------------------------------

\* extForSource: Apple's lyrics are kept as TTML.
Ext(source) == IF source = "apple" THEN "ttml" ELSE "json"

\* CanonicalFilename, without album and duration: what makes a row's name.
CanonicalFilename(r, ext) == <<r.title, r.isrc, r.plat, ext>>

\* The keys invalidate removes for a row: a key is a kind of lookup and what
\* it names.
KeysOfRow(r) ==
  ({"exact", "user"} \X {r.isrc, ""} \X {r.plat, ""})
    \cup {<<"title", r.title, "">>, <<"fts", r.title, "">>}

\* The state without what is cached under some keys.
WithoutKeys(st, keys) ==
  [table |-> st.table,
   cached |-> [k \in Lookups |-> IF k \in keys THEN {} ELSE st.cached[k]],
   missed |-> st.missed \ keys,
   counts |-> st.counts]

\* Mutant: the keys of one id alone are forgotten.
InvalidatePairs(st, R) ==
  WithoutKeys(st, UNION {{<<"exact", r.isrc, r.plat>>, <<"user", r.isrc, r.plat>>,
                      <<"title", r.title, "">>, <<"fts", r.title, "">>} : r \in R})

\* Store.invalidate, for each row of R.
Invalidate(st, R) == WithoutKeys(st, UNION {KeysOfRow(r) : r \in R})

\* The state with other rows, whatever is cached.
WithRows(st, rows, numbers) ==
  [table |-> rows, cached |-> st.cached, missed |-> st.missed, counts |-> numbers]

\* SaveLyrics: an upsert on (filename, source).
SaveOne(st, r) ==
  LET file == CanonicalFilename(r, Ext(r.source))
      same == {o \in st.table : o.file = file /\ o.source = r.source}
      id == IF same = {} THEN st.counts.id + 1 ELSE (CHOOSE o \in same : TRUE).id
      row == [title |-> r.title, isrc |-> r.isrc, plat |-> r.plat,
              source |-> r.source, id |-> id, file |-> file,
              version |-> st.counts.version + 1]
  IN Invalidate(WithRows(st, (st.table \ same) \cup {row},
                         [id |-> IF same = {} THEN id ELSE st.counts.id,
                          version |-> st.counts.version + 1]), {row})

\* What CreateLyrics and BatchCreateLyrics accept.
Named(r) == r.title # "" \/ r.isrc # "" \/ r.plat # ""

Room == counts.id < MaxIDs /\ counts.version < MaxVersions

\* A save of the service, of a submission, of ManualScrape or CreateLyrics.
SaveRow ==
  \E r \in Requests :
    /\ Room /\ Named(r)
    /\ Becomes(SaveOne(Now, r))

\* BatchCreateLyrics and SaveLyricsBatch: the items without a name are passed
\* over; when one fails the rows are rolled back, not the invalidations.
SaveBatch ==
  \E r, s \in Requests :
    LET first == IF Named(r) THEN SaveOne(Now, r) ELSE Now
        done == IF Named(s) THEN SaveOne(first, s) ELSE first
    IN /\ Room /\ r # s /\ (Named(r) \/ Named(s))
       /\ done.counts.id <= MaxIDs /\ done.counts.version <= MaxVersions
       /\ \/ Becomes(done)
          \/ Becomes(WithRows(done, table, counts))

\* UpdateLyric and AdminUpdate: the keys of the old row, then those of the new.
\* The file is named anew, as JSON; another row of that name is an error.
UpdateRow ==
  \E o \in table, r \in Requests :
    LET file == CanonicalFilename(r, "json")
        new == [title |-> r.title, isrc |-> r.isrc, plat |-> r.plat,
                source |-> r.source, id |-> o.id, file |-> file,
                version |-> counts.version + 1]
        first == Invalidate(Now, {o})
    IN /\ counts.version < MaxVersions
       /\ IF \E u \in table \ {o} : u.file = file /\ u.source = r.source
          THEN Becomes(first)
          ELSE Becomes(Invalidate(WithRows(first, (table \ {o}) \cup {new},
                                           [id |-> counts.id,
                                            version |-> counts.version + 1]), {new}))

\* DeleteLyric and BatchDeleteLyrics: some rows, and their keys.
DeleteRows ==
  \E S \in SUBSET table \ {{}} : Becomes(WithRows(Invalidate(Now, S), table \ S, counts))

-----------------------------------------------------------------------------

\* What the query of a lookup may return: exact ones one row, by ISRC first.
QueryRow(k) ==
  LET rows == IF k[1] = "user" THEN {r \in table : r.source = "lyricsplus"}
              ELSE table
      byISRC == {r \in rows : k[2] # "" /\ r.isrc = k[2]}
      byPlat == {r \in rows : k[3] # "" /\ r.plat = k[3]}
      one(S) == {{r} : r \in S}
  IN IF k[1] = "title" THEN {{r \in table : r.title = k[2]}}
     ELSE IF k[1] = "fts" THEN {{r \in table : r.title \in Found[k[2]]}}
     ELSE IF byISRC # {} THEN one(byISRC)
     ELSE IF byPlat # {} THEN one(byPlat)
     ELSE {{}}

\* GetExact, GetExactUser, GetByTitleArtist and GetByFTS5, past their caches.
LookUpRow(k) ==
  /\ cached[k] = {} /\ k \notin missed
  /\ \E rows \in QueryRow(k) :
       IF rows = {} THEN missed' = missed \cup {k} /\ UNCHANGED cached
       ELSE cached' = [cached EXCEPT ![k] = rows] /\ UNCHANGED missed
  /\ UNCHANGED <<table, counts>>

\* An entry is evicted, or the memory is shed.
Evicted(k) ==
  /\ cached[k] # {} \/ k \in missed
  /\ cached' = [cached EXCEPT ![k] = {}]
  /\ missed' = missed \ {k}
  /\ UNCHANGED <<table, counts>>

RowsNext ==
  \/ SaveRow \/ SaveBatch \/ UpdateRow \/ DeleteRows
  \/ \E k \in Lookups : LookUpRow(k) \/ Evicted(k)

RowsSpec == RowsInit /\ [][RowsNext]_rowsVars

-----------------------------------------------------------------------------

\* Under the keys a row has itself, whatever was renamed, rolled back or
\* deleted before: no cache holds an older state of it, and no memo hides it
\* (store.go:993-1030, admin.go:343-392).
OwnKeysAgree ==
  /\ \A k \in Lookups : \A r \in cached[k] : k \in KeysOfRow(r) => r \in table
  /\ \A r \in table : \A k \in missed \cap KeysOfRow(r) :
       k[1] = "user" /\ r.source # "lyricsplus"

\* No memoised miss hides a row that its query would find (pool_test.go:131:
\* "row is still hidden by a stale memoized miss after save").
NoHiddenRow == \A k \in missed : QueryRow(k) = {{}}
=============================================================================
