----------------------------- MODULE DriveSync -----------------------------
(***************************************************************************)
(* The bulk importer of the drive (cmd/gdrive_sync): a main loop lists a   *)
(* folder page by page, workers download its files, a writer saves them in *)
(* batches, and a checkpoint says where the next run goes on.              *)
(***************************************************************************)
EXTENDS Integers, Sequences, FiniteSets

CONSTANTS PageOf,      \* the files of the folder, and the page each is on
          SyncWorkers,
          QueueCap     \* of the queue of jobs

Files == DOMAIN PageOf
Pages == {PageOf[f] : f \in Files}

ASSUME DriveSyncAssumption ==
  /\ IsFiniteSet(Files) /\ Pages = 1..Cardinality(Pages)
  /\ QueueCap \in Nat \ {0}
  /\ SyncWorkers # {}        \* -concurrency, 150 unless it is given

VARIABLES
  db,         \* the files in the table
  token,      \* the checkpoint: the page to go on with; 0 is the first, or the end
  main,       \* the main loop
  queue,      \* jobQueue
  worker,     \* each worker, and the file it downloads
  rows,       \* saveQueue and the writer's batch
  failed,     \* failedJobs
  cancelled   \* the context of the run

driveSyncVars == <<db, token, main, queue, worker, rows, failed, cancelled>>

NotRunning == [pc |-> "none", page |-> 0, todo |-> {}, first |-> FALSE, errors |-> FALSE]
Waiting == [pc |-> "waiting", job |-> {}]
EndedWorker == [pc |-> "ended", job |-> {}]

DriveSyncInit ==
  /\ db = {} /\ token = 0
  /\ main = NotRunning
  /\ queue = <<>> /\ worker = [w \in SyncWorkers |-> Waiting]
  /\ rows = {} /\ failed = {} /\ cancelled = FALSE

\* The start of a run; -reset and -redo forget the checkpoint.
Launch ==
  /\ main.pc = "none"
  /\ \E t \in {token, 0} :
       main' = [NotRunning EXCEPT !.pc = "list", !.page = IF t = 0 THEN 1 ELSE t, !.first = t = 0]
  /\ UNCHANGED <<db, token, queue, worker, rows, failed, cancelled>>

\* The loop looks at the context before each page.
Loop ==
  /\ main.pc = "list"
  /\ main' = [main EXCEPT !.pc = IF cancelled THEN "close" ELSE "search"]
  /\ UNCHANGED <<db, token, queue, worker, rows, failed, cancelled>>

\* A page is listed, or the search fails for good.
ListPage ==
  /\ main.pc = "search"
  /\ \/ main' = [main EXCEPT !.pc = "queue", !.todo = {f \in Files : PageOf[f] = main.page}]
     \/ main' = [main EXCEPT !.pc = "close", !.errors = TRUE]
  /\ UNCHANGED <<db, token, queue, worker, rows, failed, cancelled>>

\* A file that is in the table is skipped; the loop waits for room otherwise,
\* whatever became of the context.
QueueJob(f) ==
  /\ main.pc = "queue" /\ f \in main.todo
  /\ \/ f \in db /\ queue' = queue
     \/ f \notin db /\ Len(queue) < QueueCap /\ queue' = Append(queue, f)
  /\ main' = [main EXCEPT !.todo = @ \ {f}]
  /\ UNCHANGED <<db, token, worker, rows, failed, cancelled>>

\* The checkpoint is moved on when the page is queued, not when it is saved.
SaveCheckpoint ==
  /\ main.pc = "queue" /\ main.todo = {}
  /\ LET last == main.page >= Cardinality(Pages) IN
       /\ token' = IF last THEN 0 ELSE main.page + 1
       /\ main' = [main EXCEPT !.pc = IF last THEN "close" ELSE "list",
                               !.page = IF last THEN @ ELSE @ + 1]
  /\ UNCHANGED <<db, queue, worker, rows, failed, cancelled>>

\* A worker takes a job: one that sees the context's end returns and drops it,
\* a file saved meanwhile is skipped.
Take(w) ==
  /\ worker[w] = Waiting /\ queue # <<>>
  /\ queue' = Tail(queue)
  /\ worker' = [worker EXCEPT ![w] =
                   IF cancelled THEN EndedWorker
                   ELSE IF Head(queue) \in db THEN Waiting
                   ELSE [pc |-> "download", job |-> {Head(queue)}]]
  /\ UNCHANGED <<db, token, main, rows, failed, cancelled>>

\* Five attempts end in a download, in a failure, or in the context's end.
Download(w) ==
  /\ worker[w].pc = "download"
  /\ \/ /\ rows' = rows \cup worker[w].job /\ failed' = failed
        /\ worker' = [worker EXCEPT ![w] = Waiting]
     \/ /\ failed' = failed \cup worker[w].job /\ rows' = rows
        /\ worker' = [worker EXCEPT ![w] = Waiting]
     \/ /\ cancelled /\ UNCHANGED <<rows, failed>>
        /\ worker' = [worker EXCEPT ![w] = EndedWorker]
  /\ UNCHANGED <<db, token, main, queue, cancelled>>

\* The writer inserts a batch in a transaction, or drops it with an error.
Flush ==
  /\ \E batch \in SUBSET rows \ {{}} :
       /\ rows' = rows \ batch
       /\ \/ db' = db \cup batch /\ main' = main
          \/ db' = db /\ main' = [main EXCEPT !.errors = TRUE]
  /\ UNCHANGED <<token, queue, worker, failed, cancelled>>

\* close(jobQueue): the workers empty it and return.
CloseQueue ==
  /\ main.pc = "close"
  /\ \A w \in SyncWorkers : worker[w] = EndedWorker \/ (worker[w] = Waiting /\ queue = <<>>)
  /\ main' = [main EXCEPT !.pc = IF cancelled \/ failed = {} THEN "flush" ELSE "retry"]
  /\ UNCHANGED <<db, token, queue, worker, rows, failed, cancelled>>

\* The second pass over the failures, until all are tried or the context ends.
Retry ==
  /\ main.pc = "retry"
  /\ \/ \E f \in failed :
          /\ failed' = failed \ {f}
          /\ \/ rows' = rows \cup {f} /\ main' = main
             \/ rows' = rows /\ main' = [main EXCEPT !.errors = f \notin db \/ @]
     \/ /\ failed = {} \/ cancelled
        /\ main' = [main EXCEPT !.pc = "flush"]
        /\ UNCHANGED <<rows, failed>>
  /\ UNCHANGED <<db, token, queue, worker, cancelled>>

\* Mutant: the run ends without waiting for the writer.
FinishUnwaited ==
  /\ main.pc = "flush"
  /\ main' = [main EXCEPT !.pc = "done"]
  /\ UNCHANGED <<db, token, queue, worker, rows, failed, cancelled>>

\* close(saveQueue): the writer flushes what is left; the run reports and ends.
Finish ==
  /\ main.pc = "flush" /\ rows = {}
  /\ main' = [main EXCEPT !.pc = "done"]
  /\ UNCHANGED <<db, token, queue, worker, rows, failed, cancelled>>

\* The first signal cancels the context; nobody reads a second one.
Interrupt ==
  /\ main.pc \notin {"none", "done"} /\ ~cancelled
  /\ cancelled' = TRUE
  /\ UNCHANGED <<db, token, main, queue, worker, rows, failed>>

\* The process ends, or is killed: table and checkpoint stay.
Exit ==
  /\ main.pc # "none"
  /\ main' = NotRunning
  /\ queue' = <<>> /\ worker' = [w \in SyncWorkers |-> Waiting]
  /\ rows' = {} /\ failed' = {} /\ cancelled' = FALSE
  /\ UNCHANGED <<db, token>>

SyncSteps ==
  \/ Loop \/ ListPage \/ SaveCheckpoint \/ Flush \/ CloseQueue \/ Retry \/ Finish
  \/ \E f \in Files : QueueJob(f)
  \/ \E w \in SyncWorkers : Take(w) \/ Download(w)
DriveSyncNext == SyncSteps \/ Launch \/ Interrupt \/ Exit
DriveSyncSpec == DriveSyncInit /\ [][DriveSyncNext]_driveSyncVars

-----------------------------------------------------------------------------
\* A run that began with the first page, was not interrupted and reports no
\* error has saved every file, whatever earlier runs left behind.  (One that
\* went on from a checkpoint may lack files: see the README.)
FullPassIsComplete ==
  main.pc = "done" /\ main.first /\ ~cancelled /\ ~main.errors => db = Files

\* "Interrupt received! Flushing database and saving checkpoint..." (main.go:141)
InterruptEnds == cancelled ~> ~cancelled \/ main.pc = "done"
=============================================================================
