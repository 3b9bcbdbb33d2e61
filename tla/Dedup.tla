-------------------------------- MODULE Dedup --------------------------------
(***************************************************************************)
(* Collapsing concurrent requests for one song into one shared race        *)
(* (internal/orchestrator/singleflight.go).  Keys are independent entries  *)
(* of the tracker's maps and of singleflight.Group, so the module follows  *)
(* one key.                                                                *)
(*                                                                         *)
(* A caller enters the tracker, joins the running flight or starts one,    *)
(* waits for the result or for its own context, and leaves the tracker.    *)
(* The last one to leave cancels the flight.  Tracker methods run under    *)
(* keyTracker.mu and the group's under its own lock: one action each.      *)
(***************************************************************************)
EXTENDS Integers, FiniteSets

CONSTANT Callers  \* requests for the key

ASSUME CallersAssumption == IsFiniteSet(Callers)

VARIABLES
  pc,       \* where each caller is in Get
  got,      \* what its channel holds, or what Get returned last
  waiters,  \* keyTracker.waiters[key], 0 when absent
  cancels,  \* keyTracker.cancels[key]: "absent", or whose cancel it is
  flight,   \* the singleflight call and its function
  ctx,      \* the flight's fetchCtx
  value     \* what Race returned to the flight

vars == <<pc, got, waiters, cancels, flight, ctx, value>>

\* "aborted" is a miss of a race whose context ended: some sources were not
\* asked, or not waited for.
Outcome == {"lyrics", "miss", "aborted"}

TypeOK ==
  /\ pc \in [Callers -> {"idle", "entered", "waiting", "leaving"}]
  /\ got \in [Callers -> Outcome \cup {"none", "ctxErr"}]
  /\ waiters \in Nat
  /\ cancels \in {"absent", "own", "stale"}
  /\ flight \in {"none", "spawned", "racing", "raced", "cleared"}
  /\ ctx \in {"live", "canceled", "expired"}
  /\ value \in Outcome \cup {"none"}

Init ==
  /\ pc = [c \in Callers |-> "idle"]
  /\ got = [c \in Callers |-> "none"]
  /\ waiters = 0
  /\ cancels = "absent"
  /\ flight = "none"
  /\ ctx = "live"
  /\ value = "none"

-----------------------------------------------------------------------------
(* The caller: Dedup.Get *)

Enter(c) ==
  /\ pc[c] = "idle"
  /\ pc' = [pc EXCEPT ![c] = "entered"]
  /\ got' = [got EXCEPT ![c] = "none"]
  /\ waiters' = waiters + 1
  /\ UNCHANGED <<cancels, flight, ctx, value>>

\* DoChan: join the flight that is in the group, or start one.  A new flight
\* has a context of its own; a cancel still registered is not its own.
Join(c) ==
  /\ pc[c] = "entered"
  /\ pc' = [pc EXCEPT ![c] = "waiting"]
  /\ IF flight = "none"
       THEN /\ flight' = "spawned"
            /\ ctx' = "live"
            /\ value' = "none"
            /\ cancels' = IF cancels = "own" THEN "stale" ELSE cancels
       ELSE UNCHANGED <<flight, ctx, value, cancels>>
  /\ UNCHANGED <<got, waiters>>

\* The select takes the result.
Take(c) ==
  /\ pc[c] = "waiting"
  /\ got[c] # "none"
  /\ pc' = [pc EXCEPT ![c] = "leaving"]
  /\ UNCHANGED <<got, waiters, cancels, flight, ctx, value>>

\* The select takes ctx.Done: the client went away or ran out of time.
Desert(c) ==
  /\ pc[c] = "waiting"
  /\ pc' = [pc EXCEPT ![c] = "leaving"]
  /\ got' = [got EXCEPT ![c] = "ctxErr"]
  /\ UNCHANGED <<waiters, cancels, flight, ctx, value>>

Cancel == ctx' = IF ctx = "live" THEN "canceled" ELSE ctx

\* Mutant: the last but one to leave counts as the last.
LeaveOffByOne(c) ==
  /\ pc[c] = "leaving"
  /\ pc' = [pc EXCEPT ![c] = "idle"]
  /\ IF waiters - 1 <= 1
       THEN /\ waiters' = 0
            /\ cancels' = "absent"
            /\ IF cancels = "own" THEN Cancel ELSE UNCHANGED ctx
       ELSE waiters' = waiters - 1 /\ UNCHANGED <<cancels, ctx>>
  /\ UNCHANGED <<got, flight, value>>

\* leave: the last waiter uses up the registered cancel.
Leave(c) ==
  /\ pc[c] = "leaving"
  /\ pc' = [pc EXCEPT ![c] = "idle"]
  /\ waiters' = IF waiters > 0 THEN waiters - 1 ELSE 0
  /\ IF waiters' = 0
       THEN /\ cancels' = "absent"
            /\ IF cancels = "own" THEN Cancel ELSE UNCHANGED ctx
       ELSE UNCHANGED <<cancels, ctx>>
  /\ UNCHANGED <<got, flight, value>>

-----------------------------------------------------------------------------
(* The flight: the function passed to DoChan *)

\* Mutant: the cancel is stored without looking for waiters.
RegisterBlindly ==
  /\ flight = "spawned"
  /\ flight' = "racing"
  /\ cancels' = "own"
  /\ UNCHANGED <<pc, got, waiters, ctx, value>>

\* registerCancel: when everybody has left already, cancel at once.  The
\* race is started either way.
Register ==
  /\ flight = "spawned"
  /\ flight' = "racing"
  /\ IF waiters > 0
       THEN cancels' = "own" /\ UNCHANGED ctx
       ELSE Cancel /\ UNCHANGED cancels
  /\ UNCHANGED <<pc, got, waiters, value>>

\* The flight's timeout, the Racer's, fires.
Expire ==
  /\ flight = "racing"
  /\ ctx = "live"
  /\ ctx' = "expired"
  /\ UNCHANGED <<pc, got, waiters, cancels, flight, value>>

\* Mutant: the race waits for its context and not for its sources.
ReturnWhenDone ==
  /\ flight = "racing"
  /\ ctx # "live"
  /\ flight' = "raced"
  /\ value' \in Outcome
  /\ UNCHANGED <<pc, got, waiters, cancels, ctx>>

\* Race returns (module Race).  Only a race whose context has ended comes
\* back before every source was heard.
RaceReturns ==
  /\ flight = "racing"
  /\ flight' = "raced"
  /\ value' \in IF ctx = "live" THEN {"lyrics", "miss"} ELSE Outcome
  /\ UNCHANGED <<pc, got, waiters, cancels, ctx>>

\* The deferred clearCancel and cancel.
ClearCancel ==
  /\ flight = "raced"
  /\ flight' = "cleared"
  /\ cancels' = "absent"
  /\ Cancel
  /\ UNCHANGED <<pc, got, waiters, value>>

\* singleflight takes the call out of its map and sends the result to the
\* channel of everyone who joined.
Publish ==
  /\ flight = "cleared"
  /\ flight' = "none"
  /\ got' = [c \in Callers |->
       IF pc[c] = "waiting" /\ got[c] = "none" THEN value ELSE got[c]]
  /\ UNCHANGED <<pc, waiters, cancels, ctx, value>>

-----------------------------------------------------------------------------
Get(c) == Join(c) \/ Take(c) \/ Leave(c)

Fly == Register \/ RaceReturns \/ ClearCancel \/ Publish

Next ==
  \/ \E c \in Callers : Enter(c) \/ Get(c) \/ Desert(c)
  \/ Fly
  \/ Expire

Spec == Init /\ [][Next]_vars

(***************************************************************************)
(* Goroutines that can run do run, and every race returns (Race.Quiesces). *)
(* No client has to arrive, and none has to lose patience.                 *)
(***************************************************************************)
Fairness == WF_vars(Fly) /\ \A c \in Callers : WF_vars(Get(c))

FairSpec == Spec /\ Fairness

-----------------------------------------------------------------------------
(* Properties *)

Inside == {c \in Callers : pc[c] # "idle"}

\* The tracker counts exactly the callers between enter and release, however
\* they leave (singleflight.go:36-60): InflightKeys never leaks a key.
WaitersExact == waiters = Cardinality(Inside)

\* A race that nobody waits for any more is not left running for its full
\* timeout (TestDedupCancelsWhenAllWaitersLeave), also when the last waiter
\* left before the flight had registered its cancel (registerCancel, 62-71).
NoOrphan == flight = "racing" /\ waiters = 0 => ctx # "live"

\* The cancel in the tracker is always that of the flight in the group: no
\* caller can cancel a race other than the one it shares, and no flight
\* clears the cancel of another (singleflight.go:73-77).
CancelIsOwn ==
  /\ cancels # "stale"
  /\ cancels = "own" => flight \in {"racing", "raced"}

\* A race is cancelled only in a step after which nobody waits for it
\* (TestDedupKeepsFlightWhileWaiterRemains).
CancelledOnlyWhenAlone ==
  [][ctx = "live" /\ ctx' = "canceled" /\ flight' = "racing"
       => waiters' = 0 /\ Inside' = {}]_vars

\* "scrape was cancelled while a waiter remained" (limiter_test.go:119) is
\* what must not be: nobody waits for a race that has been cancelled.  It does
\* not hold: see the README, section 5.
NoWaiterOfCancelledRace ==
  flight = "racing" /\ ctx = "canceled" =>
    \A c \in Callers : pc[c] = "waiting" => got[c] # "none"

\* Where SharedFetch sees the callers and the search.
Place == [c \in Callers |-> CASE pc[c] = "idle" -> "out"
                              [] pc[c] = "entered" -> "asking"
                              [] OTHER -> "sharing"]

UnderWay == CASE ctx = "live" -> "running"
              [] ctx = "canceled" -> "abandoned"
              [] OTHER -> "expired"

Search == CASE flight = "none" -> "none"
            [] flight \in {"spawned", "racing"} -> UnderWay
            [] OTHER -> value

Shared == INSTANCE SharedFetch WITH
            place <- Place, answer <- got, search <- Search

\* The tracker and the flight together keep the promise of SharedFetch: one
\* search at a time, one answer for all who share it, and no search given up
\* while somebody waits for it (singleflight.go:86-129).
ImplementsShared == Shared!Spec

\* Every request is answered: none waits for a result that never comes.
EveryGetReturns == \A c \in Callers : pc[c] = "entered" ~> pc[c] = "idle"
=============================================================================
