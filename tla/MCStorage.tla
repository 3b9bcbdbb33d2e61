----------------------------- MODULE MCStorage ------------------------------
(* The storage layer and its offline tools for TLC.  Store and the others    *)
(* share no state, so one run explores each of them by itself: part says     *)
(* which, and the variables of the others rest.                              *)
EXTENDS Store, MCRows, MemCache, Merger, Drive, MCSync, AccountFile, TLC

VARIABLE part

Parts == {"store", "rows", "memcache", "merger", "drive", "sync", "accounts"}

MCSymmetry == Permutations(Readers) \cup Permutations(Writers)

-----------------------------------------------------------------------------
\* A song with three contents whose ranks the header and the full text tell
\* apart differently, and one that only one database has.
Content(f, type, early, syllables, timed, whole, tools) ==
  [form |-> f, type |-> type, early |-> early, syllables |-> syllables,
   timed |-> timed, empty |-> FALSE, whole |-> whole, tools |-> tools]
MCRowsOf ==
  ("a" :> {[content |-> Content("xml", "none", FALSE, "no", TRUE, TRUE, FALSE), at |-> 2],
           [content |-> Content("json", "line", TRUE, "tail", TRUE, FALSE, FALSE), at |-> 1],
           [content |-> Content("json", "line", TRUE, "tail", TRUE, FALSE, TRUE), at |-> 3]})
  @@ ("b" :> {[content |-> Content("broken", "none", FALSE, "no", TRUE, TRUE, FALSE), at |-> 1]})

-----------------------------------------------------------------------------
\* Each part begins in each of its initial states; at rest it is in one.
StorageInit ==
  /\ part \in Parts
  /\ Init /\ RowsInit /\ MemCacheInit /\ DriveSyncInit
  /\ MergerInit
  /\ part # "merger" => /\ strategy = "force" /\ Len(sources) = 0
                        /\ target = [m \in MergeSongs |-> {}]
  /\ DriveInit
  /\ part # "drive" => client.errs = 0
  /\ AccountFileInit
  /\ part # "accounts" => kind = "qq" /\ form = "json" /\ file = EmptyDoc
                          /\ beside = [over |-> {}, under |-> {}]
  \* Bounds: Musixmatch is Apple with fewer keys, Deezer Spotify with fewer; all
  \* with a list are the same in a .env file; one place beside what a save writes.
  /\ kind # "musixmatch" /\ (kind \in {"apple", "spotify"} => form = "json")
  /\ kind = "deezer" => form = "env"
  /\ LET besides == <<file.alias # <<>>, file.stray # "none", file.strayClient # "none",
                     beside.over # {}, beside.under # {}>>
     IN Cardinality({n \in DOMAIN besides : besides[n]}) <= 1

StoreRests == UNCHANGED vars
RowsRest == UNCHANGED rowsVars
MemCacheRests == UNCHANGED memCacheVars
MergerRests == UNCHANGED mergerVars
DriveRests == UNCHANGED driveVars
SyncRests == UNCHANGED driveSyncVars
AccountFileRests == UNCHANGED accountFileVars

StorageNext ==
  /\ part' = part
  /\ \/ /\ part = "store" /\ Next
        /\ RowsRest /\ MemCacheRests /\ MergerRests /\ DriveRests /\ SyncRests /\ AccountFileRests
     \/ /\ part = "rows" /\ RowsNext
        /\ StoreRests /\ MemCacheRests /\ MergerRests /\ DriveRests /\ SyncRests /\ AccountFileRests
     \/ /\ part = "memcache" /\ MemCacheNext
        /\ StoreRests /\ RowsRest /\ MergerRests /\ DriveRests /\ SyncRests /\ AccountFileRests
     \/ /\ part = "merger" /\ MergerNext
        /\ StoreRests /\ RowsRest /\ MemCacheRests /\ DriveRests /\ SyncRests /\ AccountFileRests
     \/ /\ part = "drive" /\ DriveNext
        /\ StoreRests /\ RowsRest /\ MemCacheRests /\ MergerRests /\ SyncRests /\ AccountFileRests
     \/ /\ part = "sync" /\ DriveSyncNext
        /\ StoreRests /\ RowsRest /\ MemCacheRests /\ MergerRests /\ DriveRests /\ AccountFileRests
     \/ /\ part = "accounts" /\ AccountFileNext
        /\ StoreRests /\ RowsRest /\ MemCacheRests /\ MergerRests /\ DriveRests /\ SyncRests

StorageSpec ==
  StorageInit /\ [][StorageNext]_<<part, vars, rowsVars, memCacheVars, mergerVars,
                                   driveVars, driveSyncVars, accountFileVars>>
=============================================================================
