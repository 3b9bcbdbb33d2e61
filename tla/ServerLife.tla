----------------------------- MODULE ServerLife -----------------------------
(***************************************************************************)
(* The life of the server process and of its dump worker: cmd/server's     *)
(* main, api.Server (Start, Shutdown, Close) and storage.Dumper.  main and *)
(* the goroutine that serves both end the dumper; a dump under way is not  *)
(* waited for.  Requests are counted: every one uses the store.            *)
(***************************************************************************)
EXTENDS Integers, FiniteSets

CONSTANTS MaxRequests,  \* bound: requests under way at a time
          MaxDumps      \* bound: dumps of the process, named by their number

VARIABLES main,         \* main: "run", "drain", "close", "over", "fatal"
          serve,        \* the goroutine of StartServer: "new", "started",
                        \* "listening", "returned", "ended"
          requests,     \* requests under way
          storeOpen,    \* the store's databases are open
          dumper,       \* [running, stopped: stopCh is closed, loops, panicked]
          dump,         \* DumpOnce: its step
          dumps,        \* dumps begun
          tmp,          \* the temporary copies in the dump directory
          backups,      \* its backups: [id, state], state "part", "whole", "old"
          late          \* ghost: the shutdown gave up or began before listening

lifeVars == <<main, serve, requests, storeOpen, dumper, dump, dumps, tmp,
              backups, late>>

ASSUME LifeAssumption == MaxRequests \in Nat /\ MaxDumps \in Nat

ProcessRuns == main \notin {"over", "fatal"}

\* api.New: the store is opened and everything is wired; nothing runs yet.
LifeInit ==
  /\ main = "run" /\ serve = "new"
  /\ requests = 0
  /\ storeOpen = TRUE
  /\ dumper = [running |-> FALSE, stopped |-> FALSE, loops |-> 0,
               panicked |-> FALSE]
  /\ dump = "idle" /\ dumps = 0
  /\ tmp = {} /\ backups = {}
  /\ late = FALSE

DumpRests == UNCHANGED <<dump, dumps, tmp, backups>>

\* Dumper.Start: once it runs it is not started again.
StartDumper ==
  dumper' = IF dumper.running THEN dumper
            ELSE [dumper EXCEPT !.running = TRUE, !.loops = @ + 1]

\* Mutant: the worker is stopped without noting it.
StopAgain ==
  dumper' = IF ~dumper.running THEN dumper
            ELSE [dumper EXCEPT !.stopped = TRUE,
                                !.panicked = @ \/ dumper.stopped]

\* Dumper.Stop: closing a closed channel would panic.
StopDumper ==
  dumper' = IF ~dumper.running THEN dumper
            ELSE [dumper EXCEPT !.running = FALSE, !.stopped = TRUE,
                                !.panicked = @ \/ dumper.stopped]

\* Server.Start: watchdog and dumper first, then the server is made known.
StartServer ==
  /\ ProcessRuns /\ serve = "new"
  /\ StartDumper
  /\ serve' = "started"
  /\ UNCHANGED <<main, requests, storeOpen, late>> /\ DumpRests

Listen ==
  /\ ProcessRuns /\ serve = "started"
  /\ serve' \in {"listening", "returned"}
  /\ UNCHANGED <<main, requests, storeOpen, dumper, late>> /\ DumpRests

Arrives ==
  /\ ProcessRuns /\ serve = "listening" /\ requests < MaxRequests
  /\ requests' = requests + 1
  /\ UNCHANGED <<main, serve, storeOpen, dumper, late>> /\ DumpRests

Answered ==
  /\ ProcessRuns /\ requests > 0
  /\ requests' = requests - 1
  /\ UNCHANGED <<main, serve, storeOpen, dumper, late>> /\ DumpRests

\* Start returns: its deferred Stop runs beside main's Shutdown.
StartReturns ==
  /\ ProcessRuns /\ serve = "returned"
  /\ StopDumper
  /\ serve' = "ended"
  /\ UNCHANGED <<main, requests, storeOpen, late>> /\ DumpRests

\* A server that could not listen ends the process at once: Fatalf runs no
\* deferred Close.
ListenFails ==
  /\ main = "run" /\ serve = "ended"
  /\ main' = "fatal"
  /\ UNCHANGED <<serve, requests, storeOpen, dumper, late>> /\ DumpRests

\* A signal: Shutdown stops the dumper and closes the listener, so that
\* ListenAndServe returns at once.  Before Listen there is nothing to close.
Signal ==
  /\ main = "run"
  /\ StopDumper
  /\ main' = "drain"
  /\ serve' = IF serve = "listening" THEN "returned" ELSE serve
  /\ late' = (serve \in {"new", "started"})
  /\ UNCHANGED <<requests, storeOpen>> /\ DumpRests

\* http.Server.Shutdown returns when no request is left or the context ended.
Drained ==
  /\ main = "drain"
  /\ main' = "close"
  /\ \/ requests = 0 /\ UNCHANGED late
     \/ late' = TRUE
  /\ UNCHANGED <<serve, requests, storeOpen, dumper>> /\ DumpRests

\* The deferred Close of main, and then the process is over.
CloseStore ==
  /\ main = "close" /\ storeOpen
  /\ storeOpen' = FALSE
  /\ UNCHANGED <<main, serve, requests, dumper, late>> /\ DumpRests

ProcessEnds ==
  /\ main = "close" /\ ~storeOpen
  /\ main' = "over"
  /\ UNCHANGED <<serve, requests, storeOpen, dumper, late>> /\ DumpRests

-----------------------------------------------------------------------------
(* The loop of the dumper; a closed channel and a tick may both be ready.   *)

ServerRests == UNCHANGED <<main, serve, requests, storeOpen, late>>

LoopEnds ==
  /\ ProcessRuns /\ dumper.loops > 0 /\ dump = "idle" /\ dumper.stopped
  /\ dumper' = [dumper EXCEPT !.loops = @ - 1]
  /\ ServerRests /\ DumpRests

\* VACUUM INTO, or a copy of the file when that fails; both need the disk.  A
\* copy that fails may leave part of a file, which nobody removes.
Snapshot ==
  /\ ProcessRuns /\ dumper.loops > 0 /\ dump = "idle" /\ dumps < MaxDumps
  /\ dumps' = dumps + 1
  /\ \/ tmp' = tmp \cup {dumps + 1} /\ dump' = "compress"
     \/ tmp' \in {tmp, tmp \cup {dumps + 1}} /\ dump' = dump
  /\ UNCHANGED <<dumper, backups>> /\ ServerRests

\* compressToGz: the file is made first and filled then; an error leaves it.
CreateBackup ==
  /\ ProcessRuns /\ dump = "compress"
  /\ backups' = backups \cup {[id |-> dumps, state |-> "part"]}
  /\ dump' = "fill"
  /\ UNCHANGED <<dumper, dumps, tmp>> /\ ServerRests

FillBackup ==
  /\ ProcessRuns /\ dump = "fill"
  /\ \/ /\ backups' = {IF b.id = dumps THEN [b EXCEPT !.state = "whole"] ELSE b :
                         b \in backups}
        /\ dump' = "prune"
     \/ dump' = "remove" /\ UNCHANGED backups
  /\ UNCHANGED <<dumper, dumps, tmp>> /\ ServerRests

\* pruneOldBackups, after an upload whose errors are only logged.
PruneOld ==
  /\ ProcessRuns /\ dump = "prune"
  /\ backups' = {b \in backups : b.state # "old"}
  /\ dump' = "remove"
  /\ UNCHANGED <<dumper, dumps, tmp>> /\ ServerRests

\* The deferred removal of the temporary copy.
RemoveTmp ==
  /\ ProcessRuns /\ dump = "remove"
  /\ tmp' = tmp \ {dumps}
  /\ dump' = "idle"
  /\ UNCHANGED <<dumper, dumps, backups>> /\ ServerRests

\* Seven days pass.
BackupAges ==
  /\ ProcessRuns
  /\ \E b \in backups :
       /\ b.id # dumps \/ dump = "idle"
       /\ backups' = (backups \ {b}) \cup {[b EXCEPT !.state = "old"]}
  /\ UNCHANGED <<dumper, dump, dumps, tmp>> /\ ServerRests

LifeNext ==
  \/ StartServer \/ Listen \/ Arrives \/ Answered \/ StartReturns \/ ListenFails
  \/ Signal \/ Drained \/ CloseStore \/ ProcessEnds
  \/ LoopEnds \/ Snapshot \/ CreateBackup \/ FillBackup \/ PruneOld \/ RemoveTmp \/ BackupAges

LifeSpec == LifeInit /\ [][LifeNext]_lifeVars

-----------------------------------------------------------------------------

\* Whichever of main and the serving goroutine is first, the dumper's channel
\* is closed once and one loop runs (dumper.go:52-72, server.go:240-265), and
\* the store is closed under a request only when the shutdown gave up waiting,
\* or came before the server listened (server.go:262-280, main.go:33-61).
EndsInOrder ==
  /\ ~dumper.panicked /\ dumper.loops <= 1
  /\ ~storeOpen /\ ~late => requests = 0
=============================================================================
