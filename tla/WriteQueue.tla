----------------------------- MODULE WriteQueue -----------------------------
(***************************************************************************)
(* The queue of asynchronous database writes (internal/storage/            *)
(* writequeue.go) and its shutdown by Store.Close (internal/storage/       *)
(* store.go).  A full queue sheds its oldest job instead of blocking the   *)
(* submitter.  Each job of the model is submitted once, by a goroutine of  *)
(* its own.                                                                *)
(*                                                                         *)
(* Submit holds closeMu for reading throughout, Close takes it for         *)
(* writing; a waiting writer keeps new readers out (sync.RWMutex).         *)
(***************************************************************************)
EXTENDS Integers, Sequences

CONSTANTS
  Jobs,      \* calls of Submit
  Workers,   \* goroutines of newWriteQueue; the Store starts one
  Capacity   \* of the channel

ASSUME WriteQueueAssumption ==
  /\ Jobs \cap {"none", "gone"} = {}
  /\ Workers # {}
  /\ Capacity \in Nat \ {0}

VARIABLES
  phase,    \* how far each job has come
  queue,    \* the channel q.jobs
  running,  \* the job each worker runs, "none", or "gone" after its return
  closing,  \* Close: "no", "lock", "wait", "done"
  store     \* Store.Close: "open", "closing", "closed"

vars == <<phase, queue, running, closing, store>>

(***************************************************************************)
(* "push" and "full" are the two selects of Submit's loop, "pause" the     *)
(* retry interval.  "ignored" is a Submit after the close, "given up" one  *)
(* whose context ended.  "shed" and "ran" are the ends of accepted jobs;   *)
(* "late" is a run that found the database closed.                         *)
(***************************************************************************)
Phase == {"new", "push", "full", "pause", "queued", "running",
          "ran", "late", "shed", "ignored", "given up"}

Submitting == {"push", "full", "pause"}

TypeOK ==
  /\ phase \in [Jobs -> Phase]
  /\ queue \in Seq(Jobs)
  /\ Len(queue) <= Capacity
  /\ running \in [Workers -> Jobs \cup {"none", "gone"}]
  /\ closing \in {"no", "lock", "wait", "done"}
  /\ store \in {"open", "closing", "closed"}

Init ==
  /\ phase = [j \in Jobs |-> "new"]
  /\ queue = <<>>
  /\ running = [w \in Workers |-> "none"]
  /\ closing = "no"
  /\ store = "open"

\* Mutant: closed is set after the workers have been waited for.
ClosedAfterWait == closing = "done"

\* q.closed, set in the step that closes the channel.
Closed == closing \in {"wait", "done"}

-----------------------------------------------------------------------------
(* Submit *)

\* RLock, then the check of closed.
Enter(j) ==
  /\ phase[j] = "new"
  /\ closing # "lock"
  /\ phase' = [phase EXCEPT ![j] = IF Closed THEN "ignored" ELSE "push"]
  /\ UNCHANGED <<queue, running, closing, store>>

\* Mutant: no return after the send.
PushAndStay(j) ==
  /\ phase[j] = "push"
  /\ IF Len(queue) < Capacity
       THEN queue' = Append(queue, j) /\ UNCHANGED phase
       ELSE phase' = [phase EXCEPT ![j] = "full"] /\ UNCHANGED queue
  /\ UNCHANGED <<running, closing, store>>

\* The channel has room, or Submit goes on to make some.
Push(j) ==
  /\ phase[j] = "push"
  /\ IF Len(queue) < Capacity
       THEN /\ queue' = Append(queue, j)
            /\ phase' = [phase EXCEPT ![j] = "queued"]
       ELSE /\ phase' = [phase EXCEPT ![j] = "full"]
            /\ UNCHANGED queue
  /\ UNCHANGED <<running, closing, store>>

\* The oldest job gives way.  A worker may have emptied the channel since.
Shed(j) ==
  /\ phase[j] = "full"
  /\ IF queue # <<>>
       THEN /\ queue' = Tail(queue)
            /\ phase' = [phase EXCEPT ![j] = "push", ![Head(queue)] = "shed"]
       ELSE /\ phase' = [phase EXCEPT ![j] = "pause"]
            /\ UNCHANGED queue
  /\ UNCHANGED <<running, closing, store>>

\* submitRetryInterval is over, or the submitter's context is.
Retry(j) ==
  /\ phase[j] = "pause"
  /\ \E next \in {"push", "given up"} : phase' = [phase EXCEPT ![j] = next]
  /\ UNCHANGED <<queue, running, closing, store>>

-----------------------------------------------------------------------------
(* worker and execute *)

Receive(w) ==
  /\ running[w] = "none"
  /\ queue # <<>>
  /\ queue' = Tail(queue)
  /\ running' = [running EXCEPT ![w] = Head(queue)]
  /\ phase' = [phase EXCEPT ![Head(queue)] = "running"]
  /\ UNCHANGED <<closing, store>>

\* The job ends, or panics and is recovered: the worker goes on either way.
Finish(w) ==
  /\ running[w] \in Jobs
  /\ phase' = [phase EXCEPT ![running[w]] =
       IF store = "closed" THEN "late" ELSE "ran"]
  /\ running' = [running EXCEPT ![w] = "none"]
  /\ UNCHANGED <<queue, closing, store>>

\* range over the closed channel ends when it is empty.
Exit(w) ==
  /\ running[w] = "none"
  /\ Closed
  /\ queue = <<>>
  /\ running' = [running EXCEPT ![w] = "gone"]
  /\ UNCHANGED <<phase, queue, closing, store>>

-----------------------------------------------------------------------------
(* Close, CloseWithin and Store.Close *)

\* Store.Close calls CloseWithin, whose goroutine calls Close and waits for
\* the lock.
BeginClose ==
  /\ store = "open"
  /\ store' = "closing"
  /\ closing' = "lock"
  /\ UNCHANGED <<phase, queue, running>>

\* Mutant: the channel is closed without the lock.
CloseUnlocked ==
  /\ closing = "lock"
  /\ closing' = "wait"
  /\ UNCHANGED <<phase, queue, running, store>>

\* closed = true and close(q.jobs), once no Submit holds the lock.
CloseChannel ==
  /\ closing = "lock"
  /\ \A j \in Jobs : phase[j] \notin Submitting
  /\ closing' = "wait"
  /\ UNCHANGED <<phase, queue, running, store>>

WorkersDone ==
  /\ closing = "wait"
  /\ \A w \in Workers : running[w] = "gone"
  /\ closing' = "done"
  /\ UNCHANGED <<phase, queue, running, store>>

\* CloseWithin returns and the databases are closed: the queue is drained,
\* or the five seconds are over.
CloseStore ==
  /\ store = "closing"
  /\ store' = "closed"
  /\ UNCHANGED <<phase, queue, running, closing>>

-----------------------------------------------------------------------------
Submit(j) == Enter(j) \/ Push(j) \/ Shed(j) \/ Retry(j)

Worker(w) == Receive(w) \/ Finish(w) \/ Exit(w)

Close == CloseChannel \/ WorkersDone

Next ==
  \/ \E j \in Jobs : Submit(j)
  \/ \E w \in Workers : Worker(w)
  \/ BeginClose
  \/ Close
  \/ CloseStore

Spec == Init /\ [][Next]_vars

(***************************************************************************)
(* Submitters and Close run when they can, and the five seconds pass.      *)
(* Nothing is assumed of the workers here: a job may hang in the database. *)
(***************************************************************************)
Fairness ==
  /\ \A j \in Jobs : WF_vars(phase[j] # "new" /\ Submit(j))
  /\ WF_vars(Close)
  /\ WF_vars(CloseStore)

FairSpec == Spec /\ Fairness

-----------------------------------------------------------------------------
(* Properties *)

\* A job is in exactly one place: no interleaving of submitters that shed
\* for each other and of workers runs a job twice or loses one that was
\* neither shed nor refused (writequeue.go:89-110).
JobsAccounted ==
  /\ \A i, k \in 1..Len(queue) : queue[i] = queue[k] => i = k
  /\ \A j \in Jobs :
       /\ phase[j] = "queued" <=> \E i \in 1..Len(queue) : queue[i] = j
       /\ phase[j] = "running" <=> \E w \in Workers : running[w] = j
  /\ \A v, w \in Workers : running[v] = running[w] /\ running[v] \in Jobs => v = w

\* Nobody is inside Submit once the channel is closed: a send would panic
\* (writequeue.go:83-87).
NoSendOnClosed == Closed => \A j \in Jobs : phase[j] \notin Submitting

\* When Close returns, every job that was accepted has run or was shed
\* (TestWriteQueueDrainsOnClose): nothing is left behind in the channel.
DrainedOnClose ==
  closing = "done" => \A j \in Jobs : phase[j] \notin {"queued", "running"}

\* As long as the workers' jobs end, Close ends, however many submitters
\* were inside when it was called (writequeue.go:114-125).
CloseEnds ==
  (\A w \in Workers : WF_vars(Worker(w))) => (closing = "lock" ~> closing = "done")
=============================================================================
