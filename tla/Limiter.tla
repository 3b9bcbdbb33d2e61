------------------------------- MODULE Limiter -------------------------------
(***************************************************************************)
(* The caps on concurrent provider calls (internal/orchestrator/           *)
(* limiter.go): a semaphore for each source and one for all of them.  A    *)
(* caller takes the permit of its source first and the global one second,  *)
(* and gives them back in the opposite order.  The race only tries         *)
(* (TryAcquire); the admin's test of a source waits (Acquire, through      *)
(* Racer.TryFetch).                                                        *)
(*                                                                         *)
(* The semaphores are golang.org/x/sync/semaphore.Weighted with weight 1:  *)
(* first come, first served, and nobody passes those who wait.             *)
(***************************************************************************)
EXTENDS Integers, Sequences, FiniteSets, SequencesExt

CONSTANTS
  Callers,    \* goroutines that call providers
  Sources,    \* provider names
  Global,     \* LimiterConfig.Global, a size
  PerSource,  \* LimiterConfig.PerSource, a size
  global      \* the global semaphore's name

\* NewLimiter replaces non-positive limits by its defaults.
ASSUME LimiterAssumption ==
  /\ IsFiniteSet(Callers)
  /\ Global \in Nat \ {0}
  /\ PerSource \in Nat \ {0}
  /\ global \notin Sources

VARIABLES
  pc,    \* what each caller is doing
  src,   \* the source it calls, or called last
  cur,   \* Weighted.cur of each semaphore: permits out
  queue  \* Weighted.waiters of each semaphore

vars == <<pc, src, cur, queue>>

Sem == Sources \cup {global}

Size(m) == IF m = global THEN Global ELSE PerSource

(***************************************************************************)
(* "try" and "ask" hold the source's permit and want the global one, the   *)
(* former without waiting.  "srcQ" and "globalQ" wait in a queue; the      *)
(* latter holds the source's permit.  "held" holds both, "undo" only the   *)
(* source's, on the way out.                                               *)
(***************************************************************************)
State == {"idle", "try", "srcQ", "ask", "globalQ", "held", "undo"}

TypeOK ==
  /\ pc \in [Callers -> State]
  /\ src \in [Callers -> Sources]
  /\ cur \in [Sem -> Nat]
  /\ queue \in [Sem -> Seq(Callers)]

Init ==
  /\ pc = [c \in Callers |-> "idle"]
  /\ src \in [Callers -> Sources]
  /\ cur = [m \in Sem |-> 0]
  /\ queue = [m \in Sem |-> <<>>]

-----------------------------------------------------------------------------
(* The semaphore *)

Room(m) == cur[m] < Size(m) /\ queue[m] = <<>>

Take(m) == cur' = [cur EXCEPT ![m] = @ + 1] /\ UNCHANGED queue

Enqueue(m, c) == queue' = [queue EXCEPT ![m] = Append(@, c)] /\ UNCHANGED cur

\* Mutant: nobody is woken.
ReleaseSilently(m, c, next, then) ==
  /\ cur' = [cur EXCEPT ![m] = @ - 1]
  /\ UNCHANGED queue
  /\ pc' = [pc EXCEPT ![c] = next]

\* Release: the permit passes to the first that waits, if any, which goes on
\* to state then; the releasing caller goes on to state next.
Release(m, c, next, then) ==
  IF queue[m] = <<>>
    THEN /\ cur' = [cur EXCEPT ![m] = @ - 1]
         /\ UNCHANGED queue
         /\ pc' = [pc EXCEPT ![c] = next]
    ELSE /\ queue' = [queue EXCEPT ![m] = Tail(@)]
         /\ UNCHANGED cur
         /\ pc' = [pc EXCEPT ![c] = next, ![Head(queue[m])] = then]

-----------------------------------------------------------------------------
(* TryAcquire *)

\* With no room the call is refused and the caller is where it was.
TrySource(c, s) ==
  /\ pc[c] = "idle"
  /\ src' = [src EXCEPT ![c] = s]
  /\ Room(s)
  /\ Take(s)
  /\ pc' = [pc EXCEPT ![c] = "try"]

\* Mutant: a refusal by the global semaphore forgets the source's permit.
TryGlobalLeaks(c) ==
  /\ pc[c] = "try"
  /\ IF Room(global)
       THEN Take(global) /\ pc' = [pc EXCEPT ![c] = "held"]
       ELSE pc' = [pc EXCEPT ![c] = "idle"] /\ UNCHANGED <<cur, queue>>
  /\ UNCHANGED src

TryGlobal(c) ==
  /\ pc[c] = "try"
  /\ IF Room(global)
       THEN Take(global) /\ pc' = [pc EXCEPT ![c] = "held"]
       ELSE pc' = [pc EXCEPT ![c] = "undo"] /\ UNCHANGED <<cur, queue>>
  /\ UNCHANGED src

-----------------------------------------------------------------------------
(* Acquire *)

AcquireSource(c, s) ==
  /\ pc[c] = "idle"
  /\ src' = [src EXCEPT ![c] = s]
  /\ IF Room(s) THEN Take(s) /\ pc' = [pc EXCEPT ![c] = "ask"]
                ELSE Enqueue(s, c) /\ pc' = [pc EXCEPT ![c] = "srcQ"]

AcquireGlobal(c) ==
  /\ pc[c] = "ask"
  /\ IF Room(global) THEN Take(global) /\ pc' = [pc EXCEPT ![c] = "held"]
                     ELSE Enqueue(global, c) /\ pc' = [pc EXCEPT ![c] = "globalQ"]
  /\ UNCHANGED src

\* The wait is over without a permit: the caller leaves the queue.
Leave(m, c, next) ==
  /\ \E i \in 1..Len(queue[m]) :
       /\ queue[m][i] = c
       /\ queue' = [queue EXCEPT ![m] = RemoveAt(@, i)]
  /\ pc' = [pc EXCEPT ![c] = next]
  /\ UNCHANGED <<src, cur>>

SourceTimeout(c) == pc[c] = "srcQ" /\ Leave(src[c], c, "idle")

GlobalTimeout(c) == pc[c] = "globalQ" /\ Leave(global, c, "undo")

\* The context ended before the caller could wait for the global semaphore,
\* or while the source's permit was being passed to it.
Withdraw(c) ==
  /\ pc[c] = "ask"
  /\ pc' = [pc EXCEPT ![c] = "undo"]
  /\ UNCHANGED <<src, cur, queue>>

-----------------------------------------------------------------------------
(* The release function, which sync.Once makes run once.  A caller whose   *)
(* wait ends just when it is given the global permit takes the same way.   *)

ReleaseGlobal(c) ==
  /\ pc[c] = "held"
  /\ Release(global, c, "undo", "held")
  /\ UNCHANGED src

ReleaseSource(c) ==
  /\ pc[c] = "undo"
  /\ Release(src[c], c, "idle", "ask")
  /\ UNCHANGED src

-----------------------------------------------------------------------------
Call(c) ==
  \/ TryGlobal(c)
  \/ AcquireGlobal(c)
  \/ ReleaseGlobal(c)
  \/ ReleaseSource(c)

Timeout(c) == SourceTimeout(c) \/ GlobalTimeout(c) \/ Withdraw(c)

Next ==
  \E c \in Callers :
    \/ \E s \in Sources : TrySource(c, s) \/ AcquireSource(c, s)
    \/ Call(c)
    \/ Timeout(c)

Spec == Init /\ [][Next]_vars

(***************************************************************************)
(* Callers that can go on do, and every provider call ends (Breaker's      *)
(* MaxFlight).  No timeout has to fire: nobody needs one to get on.        *)
(***************************************************************************)
Fairness == \A c \in Callers : WF_vars(Call(c))

FairSpec == Spec /\ Fairness

-----------------------------------------------------------------------------
(* Properties *)

HoldsSource == {"try", "ask", "globalQ", "held", "undo"}

Holders(m) == {c \in Callers :
  IF m = global THEN pc[c] = "held" ELSE pc[c] \in HoldsSource /\ src[c] = m}

\* Every permit that is out is held by somebody: none leaks when the second
\* semaphore refuses or the wait times out, and none is returned twice
\* (limiter.go:87-91, 111-115).
PermitsExact == \A m \in Sem : cur[m] = Cardinality(Holders(m))

\* TestLimiterBoundedConcurrentFetches: never more calls than either limit.
WithinLimits ==
  /\ Cardinality({c \in Callers : pc[c] = "held"}) <= Global
  /\ \A s \in Sources :
       Cardinality({c \in Callers : pc[c] = "held" /\ src[c] = s}) <= PerSource

\* Nobody waits while a permit is free, and whoever is in a queue waits.
NoIdlePermit ==
  \A m \in Sem :
    /\ queue[m] # <<>> => cur[m] = Size(m)
    /\ \A i \in 1..Len(queue[m]) :
         LET c == queue[m][i]
         IN  IF m = global THEN pc[c] = "globalQ" ELSE pc[c] = "srcQ" /\ src[c] = m

\* Callers that hold a source's permit while they wait for a global one do
\* not block each other for good: whoever waits is served, even if no
\* timeout ever fires.
WaitersServed ==
  \A c \in Callers : pc[c] \in {"srcQ", "globalQ"} ~> pc[c] \in {"held", "idle", "undo"}
=============================================================================
