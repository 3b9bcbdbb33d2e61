-------------------------------- MODULE Race --------------------------------
(***************************************************************************)
(* One race for the lyrics of one song (internal/orchestrator/race.go,     *)
(* Racer.Race and the goroutines it starts).                               *)
(*                                                                         *)
(* Lap 1 runs the first two sources of the order.  When it brings nothing  *)
(* better than line-synced lyrics, lap 2 runs the rest: all of them        *)
(* (runPhase), or, to upgrade line-synced lyrics, those that may have      *)
(* word-synced ones (raceForPriority).  Each lap has its own context, a    *)
(* goroutine per launched source, a monitor goroutine that watches the     *)
(* caller's context, and the collector, which is the calling goroutine.    *)
(* Sources the collector no longer waits for go on in the background: for  *)
(* the grace period after a winner, so that their results can be saved.    *)
(*                                                                         *)
(* What a provider answers, what the breaker and the limiter say, when     *)
(* timers fire and when the caller goes away are left open.                *)
(***************************************************************************)
EXTENDS Integers, Sequences, FiniteSets, SequencesExt

CONSTANTS
  First,    \* the first two sources of SourceOrder, if the Racer has them
  Rest,     \* the other sources of the order
  LineOnly  \* "musixmatch" and "spotify", which lap 2 skips for an upgrade

ASSUME RaceAssumption ==
  /\ First \cap Rest = {}
  /\ LineOnly \subseteq Rest

Source == First \cup Rest
Lap == {1, 2}

\* Grade of an answer (grade.go): the lyrics' synchronisation, 0 for none.
Word == 3
Line == 2
Unsync == 1
None == 0

\* What FetchLyrics brings back: lyrics of some grade, an answer without any,
\* an error that speaks against the provider, or "stray": the cancellation of
\* another race, in whose token flight this one took part
\* (providers/spotify.go:346, 457: the flight runs under its leader's context).
Answers == {"word", "line", "unsync", "miss", "sick", "stray"}

Grade(a) == CASE a = "word" -> Word
              [] a = "line" -> Line
              [] a = "unsync" -> Unsync
              [] OTHER -> None

VARIABLES
  lap,      \* the lap the collector is in
  pc,       \* the collector: "launch", "collect", "choose", "done"
  mode,     \* how lap 2 was entered: "all" or "upgrade"
  task,     \* the goroutine of each source
  answer,   \* what the provider of each source answered
  member,   \* the sources launched in each lap
  status,   \* raceSession.status[s].Status, "none" before the first record
  degraded, \* raceSession.status[s].Degraded
  report,   \* what the breaker was told about each source
  permit,   \* sources that hold a limiter permit
  channel,  \* ch of each lap: the outcomes sent and not yet received
  received, \* the outcomes the collector has taken in each lap
  ctx,      \* the lap's phaseCtx: "live", "canceled" or "expired"
  stopped,  \* cancelOnce of each lap is used up
  grace,    \* the grace timer of each lap is armed
  gone,     \* the caller's context is done
  best,     \* p1: the grade of lap 1's result, and its source
  result,   \* what Race returns
  snapshot, \* Result.SourcesStatus, as finalize copied it
  saved     \* sources whose lyrics were handed to the saver

lapVars == <<lap, pc, mode, best, result, snapshot>>
ctxVars == <<ctx, stopped, grace>>
taskVars == <<task, answer, status, degraded, report, permit, saved>>
chanVars == <<member, channel, received>>
vars == <<lapVars, ctxVars, taskVars, chanVars, gone>>

NoResult == [source |-> "none", grade |-> None]
Result == [source : Source \cup {"none"}, grade : None..Word]
StatusSet == {"none", "SKIP", "WAIT", "OK", "CANCEL", "RTO", "BAD"}
Entry == [status : StatusSet, degraded : BOOLEAN]

TypeOK ==
  /\ lap \in Lap
  /\ pc \in {"launch", "collect", "choose", "done"}
  /\ mode \in {"all", "upgrade"}
  /\ task \in [Source -> {"off", "start", "fetch", "judge", "sent", "end"}]
  /\ answer \in [Source -> Answers \cup {"none"}]
  /\ member \in [Lap -> SUBSET Source]
  /\ status \in [Source -> StatusSet]
  /\ degraded \in [Source -> BOOLEAN]
  /\ report \in [Source -> {"none", "ok", "fail", "neutral"}]
  /\ permit \subseteq Source
  /\ channel \in [Lap -> Seq(Source)]
  /\ received \in [Lap -> SUBSET Source]
  /\ ctx \in [Lap -> {"live", "canceled", "expired"}]
  /\ stopped \in [Lap -> BOOLEAN]
  /\ grace \in [Lap -> BOOLEAN]
  /\ gone \in BOOLEAN
  /\ best \in Result
  /\ result \in Result
  /\ snapshot \in [Source -> Entry]
  /\ saved \subseteq Source

Init ==
  /\ lap = 1
  /\ pc = "launch"
  /\ mode = "all"
  /\ task = [s \in Source |-> "off"]
  /\ answer = [s \in Source |-> "none"]
  /\ member = [l \in Lap |-> {}]
  /\ status = [s \in Source |-> "none"]
  /\ degraded = [s \in Source |-> FALSE]
  /\ report = [s \in Source |-> "none"]
  /\ permit = {}
  /\ channel = [l \in Lap |-> <<>>]
  /\ received = [l \in Lap |-> {}]
  /\ ctx = [l \in Lap |-> "live"]
  /\ stopped = [l \in Lap |-> FALSE]
  /\ grace = [l \in Lap |-> FALSE]
  /\ gone = FALSE
  /\ best = NoResult
  /\ result = NoResult
  /\ snapshot = [s \in Source |-> [status |-> "none", degraded |-> FALSE]]
  /\ saved = {}

-----------------------------------------------------------------------------
(* The lap's context *)

HasLyrics(s) == Grade(answer[s]) > None

\* The goroutines of a lap that have not yet counted themselves out.
Active(l) == {s \in member[l] : task[s] # "end"}

Cancel(l) == ctx' = [ctx EXCEPT ![l] = IF @ = "live" THEN "canceled" ELSE @]

\* Mutant: no grace period.
StopWithoutGrace(l) ==
  /\ stopped' = [stopped EXCEPT ![l] = TRUE]
  /\ IF stopped[l] THEN UNCHANGED ctx ELSE Cancel(l)
  /\ UNCHANGED grace

\* stopPhaseAfter: only the first call of a lap has an effect.
StopAfterGrace(l) ==
  /\ stopped' = [stopped EXCEPT ![l] = TRUE]
  /\ IF stopped[l] THEN UNCHANGED <<ctx, grace>>
     ELSE IF Active(l) = {} THEN Cancel(l) /\ UNCHANGED grace
     ELSE grace' = [grace EXCEPT ![l] = TRUE] /\ UNCHANGED ctx

StopNow(l) ==
  /\ stopped' = [stopped EXCEPT ![l] = TRUE]
  /\ IF stopped[l] THEN UNCHANGED ctx ELSE Cancel(l)
  /\ UNCHANGED grace

\* The lap's time limit is up, or its grace timer fires.
Expire(l) ==
  /\ member[l] # {}
  /\ ctx[l] = "live"
  /\ \/ ctx' = [ctx EXCEPT ![l] = "expired"]
     \/ grace[l] /\ Cancel(l)
  /\ UNCHANGED <<lapVars, stopped, grace, taskVars, chanVars, gone>>

\* The caller's context ends: every waiter left, or the fetch timed out.
CallerGone ==
  /\ ~gone
  /\ pc # "done"
  /\ gone' = TRUE
  /\ UNCHANGED <<lapVars, ctxVars, taskVars, chanVars>>

\* The monitor goroutine of the current lap sees the caller go.  Once the
\* lap has a winner, or the collector has returned, cancelOnce is used up or
\* the context is cancelled, and the monitor ends without an effect.
MonitorCaller ==
  /\ pc = "collect"
  /\ gone
  /\ ~stopped[lap]
  /\ StopNow(lap)
  /\ UNCHANGED <<lapVars, taskVars, chanVars, gone>>

-----------------------------------------------------------------------------
(* The goroutine of a source: tryFetch with the permit already taken *)

LapOf(s) == CHOOSE l \in Lap : s \in member[l]

\* record: an OK is never overwritten.
Record(s, st) ==
  status' = [status EXCEPT ![s] = IF @ = "OK" THEN @ ELSE st]

Start(s) ==
  /\ task[s] = "start"
  /\ task' = [task EXCEPT ![s] = "fetch"]
  /\ Record(s, "WAIT")
  /\ UNCHANGED <<lapVars, ctxVars, answer, degraded, report, permit, saved, chanVars, gone>>

\* How an answer is filed.  Lyrics count however late; a cancellation is one
\* whoever's it was; any other answer is blamed on the context first, then on
\* the provider.
Filed(a, c) ==
  IF Grade(a) > None THEN {"OK"}
  ELSE IF a = "stray" \/ c = "canceled" THEN {"CANCEL"}
  ELSE IF c = "expired" THEN {"RTO"}
  ELSE IF a = "sick" THEN {"BAD", "RTO"} ELSE {"BAD"}

\* FetchLyrics returns and the outcome is recorded (race.go:201-220).  Under
\* a dead context a sick provider is filed as one without lyrics is.
Answer(s) ==
  /\ task[s] = "fetch"
  /\ task' = [task EXCEPT ![s] = "judge"]
  /\ \E a \in IF ctx[LapOf(s)] = "live" THEN Answers ELSE Answers \ {"sick"} :
       /\ answer' = [answer EXCEPT ![s] = a]
       /\ \E st \in Filed(a, ctx[LapOf(s)]) : Record(s, st)
  /\ UNCHANGED <<lapVars, ctxVars, degraded, report, permit, saved, chanVars, gone>>

\* Mutant: IsHealthFailure is not asked.
OnlyTimeoutIsUnhealthy(s) == status[s] = "RTO"

Unhealthy(s) == status[s] = "RTO" \/ (status[s] = "BAD" /\ answer[s] = "sick")

\* The verdict: degraded flag, breaker, permit, then the outcome is sent
\* (race.go:221-234 and the deferred release, 426).
Judge(s) ==
  /\ task[s] = "judge"
  /\ task' = [task EXCEPT ![s] = "sent"]
  /\ degraded' = [degraded EXCEPT ![s] = @ \/ Unhealthy(s)]
  /\ report' = [report EXCEPT ![s] =
       CASE status[s] = "CANCEL" -> "neutral"
         [] Unhealthy(s) -> "fail"
         [] OTHER -> "ok"]
  /\ permit' = permit \ {s}
  /\ channel' = [channel EXCEPT ![LapOf(s)] = Append(@, s)]
  /\ UNCHANGED <<lapVars, ctxVars, answer, status, saved, member, received, gone>>

\* Mutant: lyrics that come after the collector has returned are dropped.
FinishDropsLate(s) ==
  /\ task[s] = "sent"
  /\ task' = [task EXCEPT ![s] = "end"]
  /\ saved' = IF HasLyrics(s) /\ pc # "done" THEN saved \cup {s} ELSE saved
  /\ IF Active(LapOf(s)) = {s} THEN Cancel(LapOf(s)) ELSE UNCHANGED ctx
  /\ UNCHANGED <<lapVars, stopped, grace, answer, status, degraded, report, permit, chanVars, gone>>

\* Lyrics are saved whether or not the collector still waits for them; the
\* last goroutine of the lap cancels its context.
Finish(s) ==
  /\ task[s] = "sent"
  /\ task' = [task EXCEPT ![s] = "end"]
  /\ saved' = IF HasLyrics(s) THEN saved \cup {s} ELSE saved
  /\ IF Active(LapOf(s)) = {s} THEN Cancel(LapOf(s)) ELSE UNCHANGED ctx
  /\ UNCHANGED <<lapVars, stopped, grace, answer, status, degraded, report, permit, chanVars, gone>>

-----------------------------------------------------------------------------
(* The collector: Race, runPhase and raceForPriority *)

\* Mutant: lap 2 leaves the line-only sources out in both modes.
NamesWithoutLineOnly == IF lap = 1 THEN First ELSE Rest \ LineOnly

Names == IF lap = 1 THEN First
         ELSE IF mode = "upgrade" THEN Rest \ LineOnly ELSE Rest

\* Sources are admitted one after the other; each that is not is skipped.
\* "open" is the breaker's refusal, "full" the limiter's: the latter gives
\* back, with Neutral, what the breaker may have reserved.
Launch ==
  /\ pc = "launch"
  /\ \E verdict \in [Names -> {"go", "unset", "open", "full"}] :
       LET go == {s \in Names : verdict[s] = "go"}
           refused == {s \in Names : verdict[s] \in {"open", "full"}}
       IN  /\ member' = [member EXCEPT ![lap] = go]
           /\ task' = [s \in Source |-> IF s \in go THEN "start" ELSE task[s]]
           /\ permit' = permit \cup go
           /\ status' = [s \in Source |->
                IF s \in Names \ go THEN "SKIP" ELSE status[s]]
           /\ degraded' = [s \in Source |-> degraded[s] \/ s \in refused]
           /\ report' = [s \in Source |->
                IF s \in Names /\ verdict[s] = "full" THEN "neutral" ELSE report[s]]
           /\ pc' = IF go = {} THEN "choose" ELSE "collect"
  /\ UNCHANGED <<lap, mode, best, result, snapshot, ctxVars, answer, saved,
                 channel, received, gone>>

\* What runPhase returns goes to p1 in lap 1, to p2 or p3 in lap 2.
Return(r) ==
  /\ pc' = "choose"
  /\ IF lap = 1 THEN best' = r /\ UNCHANGED result
                ELSE result' = r /\ UNCHANGED best
  /\ UNCHANGED <<lap, mode, snapshot>>

AsResult(s) == [source |-> s, grade |-> Grade(answer[s])]

\* pickWinner: a best-graded result.  Equal grades are decided by the order
\* of the names, which is left open here.
PickWinner(R) ==
  LET graded == {s \in R : HasLyrics(s)}
      top == {s \in graded : \A t \in graded : Grade(answer[t]) <= Grade(answer[s])}
  IN  IF top = {} THEN {NoResult} ELSE {AsResult(s) : s \in top}

\* An outcome arrives.  Word-synced lyrics end the lap at once; the last
\* outcome ends it with the best of all, or, for an upgrade, with none.
Receive ==
  /\ pc = "collect"
  /\ channel[lap] # <<>>
  /\ LET s == Head(channel[lap])
         all == received[lap] \cup {s}
         won == Grade(answer[s]) >= Word
     IN  /\ channel' = [channel EXCEPT ![lap] = Tail(@)]
         /\ received' = [received EXCEPT ![lap] = all]
         /\ \/ /\ won
               /\ StopAfterGrace(lap)
               /\ Return(AsResult(s))
            \/ /\ ~won
               /\ all # member[lap]
               /\ UNCHANGED <<lapVars, ctxVars>>
            \/ /\ ~won
               /\ all = member[lap]
               /\ \E r \in IF mode = "all" THEN PickWinner(all) ELSE {NoResult} :
                    /\ Return(r)
                    /\ IF r # NoResult THEN StopAfterGrace(lap)
                       ELSE Cancel(lap) /\ UNCHANGED <<stopped, grace>>
  /\ UNCHANGED <<taskVars, member, gone>>

\* The caller's context is done: whatever came in so far is the result.
Abandon ==
  /\ pc = "collect"
  /\ gone
  /\ StopNow(lap)
  /\ \E r \in IF mode = "all" THEN PickWinner(received[lap]) ELSE {NoResult} :
       Return(r)
  /\ UNCHANGED <<taskVars, chanVars, gone>>

Finalize(r) ==
  /\ pc' = "done"
  /\ result' = r
  /\ snapshot' = [s \in Source |-> [status |-> status[s], degraded |-> degraded[s]]]
  /\ UNCHANGED <<lap, mode, best>>

\* Race after lap 1: done, or on to lap 2 in one of its two modes.
ChooseFirst ==
  /\ pc = "choose"
  /\ lap = 1
  /\ IF \/ best.grade >= Word
        \/ Rest = {} \/ gone
        \/ best.grade = Line /\ Rest \subseteq LineOnly
       THEN Finalize(best)
       ELSE /\ lap' = 2
            /\ mode' = IF best.grade = Line THEN "upgrade" ELSE "all"
            /\ pc' = "launch"
            /\ UNCHANGED <<best, result, snapshot>>
  /\ UNCHANGED <<ctxVars, taskVars, chanVars, gone>>

\* Mutant: what lap 1 found is forgotten.
ChooseSecondOnly ==
  /\ pc = "choose"
  /\ lap = 2
  /\ Finalize(result)
  /\ UNCHANGED <<ctxVars, taskVars, chanVars, gone>>

\* Race after lap 2: the better result, lap 1's when they are equal.
ChooseSecond ==
  /\ pc = "choose"
  /\ lap = 2
  /\ Finalize(IF result.grade > best.grade THEN result ELSE best)
  /\ UNCHANGED <<ctxVars, taskVars, chanVars, gone>>

-----------------------------------------------------------------------------
Collector == Launch \/ Receive \/ Abandon \/ ChooseFirst \/ ChooseSecond

Fetch(s) == Start(s) \/ Answer(s) \/ Judge(s) \/ Finish(s)

Next ==
  \/ Collector
  \/ \E s \in Source : Fetch(s)
  \/ \E l \in Lap : Expire(l)
  \/ MonitorCaller
  \/ CallerGone

Spec == Init /\ [][Next]_vars

(***************************************************************************)
(* Goroutines that can run do run, and a provider call returns once its    *)
(* context ends (at the latest after Provider.Timeout).  The caller need   *)
(* not go away.                                                            *)
(***************************************************************************)
Fairness ==
  /\ WF_vars(Collector)
  /\ \A s \in Source : WF_vars(Fetch(s))
  /\ \A l \in Lap : WF_vars(Expire(l))

FairSpec == Spec /\ Fairness

-----------------------------------------------------------------------------
(* Properties *)

\* A race whose caller waits for it comes back empty-handed only when every
\* source of the order was skipped or has answered without lyrics: no lap
\* is cut short and no outcome is dropped on the way (race.go:280-310).  The
\* race cancels none of its own fetches before that; a source filed as
\* cancelled is one that passed on another race's cancellation.
NoEarlyMiss ==
  pc = "done" /\ result = NoResult /\ ~gone =>
    \A s \in Source :
      /\ ~HasLyrics(s)
      /\ status[s] \in {"SKIP", "BAD", "RTO"} \/ (status[s] = "CANCEL" /\ answer[s] = "stray")

\* What Race returns is an answer that came in, and none that the collector
\* received in either lap is better: an upgrade never loses lap 1's lyrics.
ResultIsBest ==
  pc = "done" =>
    /\ result # NoResult => result = AsResult(result.source)
    /\ \A l \in Lap : \A s \in received[l] : Grade(answer[s]) <= result.grade

\* service.go, shouldCacheNegativeResult: the statuses from which a miss is
\* remembered for NegativeTTL.
CachesNegative ==
  /\ \A s \in Source : /\ ~snapshot[s].degraded
                        /\ snapshot[s].status \notin {"RTO", "CANCEL", "WAIT"}
  /\ \E s \in Source : snapshot[s].status = "BAD"

\* "flagged Degraded (so the miss is not negative-cached)"
\* (race_breaker_test.go:26-27): a remembered miss never rests on the answer
\* of a provider that was failing.  It does not hold: see the README, section 5.
NegativeIsHonest ==
  pc = "done" /\ result = NoResult /\ CachesNegative =>
    \A s \in Source : snapshot[s].status = "BAD" => answer[s] = "miss"

\* The same, and every source was asked that could be, for as long as the
\* caller's context is alive.
NegativeIsHonestUnlessGone ==
  pc = "done" /\ result = NoResult /\ CachesNegative /\ ~gone =>
    \A s \in Source : snapshot[s].status = "SKIP" \/ answer[s] = "miss"

\* A running fetch is cancelled only by the grace timer or because the
\* caller went away before the lap had a result: after a winner the siblings
\* get the chance to be saved (race.go:377-410).
SiblingsGetGrace ==
  [][\A l \in Lap :
       /\ ctx[l] = "live" /\ ctx'[l] = "canceled"
       /\ \E s \in member[l] : task'[s] \in {"start", "fetch"}
       => grace[l] \/ (gone /\ lap = l /\ pc = "collect")]_vars

\* Every race ends, and in the end it has left nothing behind: no permit and
\* no live context, and all lyrics that came in are saved, also those of
\* sources nobody waited for any more (race.go:420-430).
Quiesces ==
  <>[](/\ pc = "done"
       /\ permit = {}
       /\ \A l \in Lap : member[l] # {} => ctx[l] # "live"
       /\ saved = {s \in Source : HasLyrics(s)})
=============================================================================
