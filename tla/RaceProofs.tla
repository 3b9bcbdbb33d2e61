----------------------------- MODULE RaceProofs -----------------------------
(***************************************************************************)
(* Proofs about the race, for any sources: what it returns, when it may    *)
(* return nothing, what may be remembered of that, and who is cancelled.   *)
(***************************************************************************)
EXTENDS Race, SequenceTheorems, TLAPS

\* The sources a lap may run, and those it does run or skip.
SourcesOf(l) == IF l = 1 THEN First ELSE Rest
NamesOf(l) == IF l = 2 /\ mode = "upgrade" THEN Rest \ LineOnly ELSE SourcesOf(l)

Launched(l) == l < lap \/ (l = lap /\ pc # "launch")
Over(l) == l < lap \/ (l = lap /\ pc \in {"choose", "done"})

\* A lap ends early only for word-synced lyrics.
Won(l) == IF l = 1 THEN best.grade = Word ELSE result.grade = Word

Done(s) == task[s] \in {"sent", "end"}

-----------------------------------------------------------------------------
(* The inductive invariant *)

\* A source has a goroutine exactly in the lap that launched it.
Belongs ==
  /\ member[1] \subseteq First /\ member[2] \subseteq Rest
  /\ \A s \in Source : task[s] = "off" <=> s \notin member[1] \cup member[2]

\* Nothing of a lap is there before it is launched.
Untouched ==
  \A l \in Lap : ~Launched(l) =>
    /\ member[l] = {} /\ received[l] = {} /\ channel[l] = <<>>
    /\ ctx[l] = "live" /\ ~grace[l]
    /\ \A s \in SourcesOf(l) : status[s] = "none"

\* What is recorded of a source at each place of its goroutine.
Recorded ==
  \A s \in Source :
    /\ task[s] = "start" => status[s] = "none"
    /\ task[s] = "fetch" => status[s] = "WAIT"
    /\ task[s] \in {"off", "start", "fetch"} => answer[s] = "none"
    /\ task[s] \in {"judge", "sent", "end"} =>
         /\ answer[s] \in Answers
         /\ status[s] \in IF HasLyrics(s) THEN {"OK"} ELSE {"CANCEL", "RTO", "BAD"}
         /\ answer[s] = "stray" => status[s] = "CANCEL"
    /\ Done(s) /\ Unhealthy(s) => degraded[s]

\* A source that was not launched with its lap is recorded as skipped.
Skipped ==
  \A l \in Lap : Launched(l) => \A s \in NamesOf(l) \ member[l] : status[s] = "SKIP"

\* Only outcomes of the lap's sources arrive, after the verdict.
Arrived ==
  \A l \in Lap :
    /\ \A s \in received[l] : s \in member[l] /\ Done(s)
    /\ \A i \in 1..Len(channel[l]) : channel[l][i] \in member[l] /\ Done(channel[l][i])

\* Lap 2 upgrades line-synced lyrics, or runs everything.
Modes ==
  /\ lap = 1 => mode = "all"
  /\ lap = 2 => best.grade < Word /\ (mode = "upgrade" <=> best.grade = Line)

\* A result is an answer that came in.
Came(r) == r = NoResult \/ (r.source \in Source /\ HasLyrics(r.source) /\ r = AsResult(r.source))
Real == Came(best) /\ Came(result)

\* No outcome received in a lap is better than what the lap ended with.
Lowest(l, n) == \A s \in received[l] : Grade(answer[s]) <= n
KeptBest ==
  /\ pc = "collect" => Lowest(lap, Line)
  /\ Over(1) => Lowest(1, best.grade)
  /\ pc = "choose" /\ lap = 2 => Lowest(2, result.grade) \/ Lowest(2, best.grade)
  /\ pc = "done" => \A l \in Lap : Lowest(l, result.grade)
  /\ pc = "done" => best.grade <= result.grade

\* While the caller is there a lap ends with word-synced lyrics or when all of
\* it was received,
FullyReceived ==
  ~gone => \A l \in Lap : Over(l) => Won(l) \/ received[l] = member[l]

\* the grace timer is armed only when it has ended,
GraceAfterLap == \A l \in Lap : grace[l] => Over(l)

\* and nobody whose answer is still wanted is cancelled by this race.
Uncancelled ==
  ~gone => \A l \in Lap : Launched(l) /\ ~(Over(l) /\ Won(l)) =>
    \A s \in member[l] : /\ status[s] = "CANCEL" => answer[s] = "stray"
                         /\ task[s] \in {"start", "fetch"} => ctx[l] # "canceled"

\* A race that comes back empty-handed to a caller who waits has asked
\* everybody, and what it copied stays true.
Emptyhanded ==
  pc = "done" /\ result = NoResult /\ ~gone =>
    /\ lap = 1 => Rest = {}
    /\ \A s \in Source : snapshot[s] = [status |-> status[s], degraded |-> degraded[s]]

RaceInv ==
  /\ TypeOK
  /\ Belongs /\ Untouched /\ Recorded /\ Skipped /\ Arrived
  /\ Modes /\ Real /\ KeptBest
  /\ FullyReceived /\ GraceAfterLap /\ Uncancelled /\ Emptyhanded

-----------------------------------------------------------------------------
(* The grades, the laps and the winners *)

LEMMA GradeRange ==
  /\ \A a : Grade(a) \in None..Word
  /\ None = 0 /\ Unsync = 1 /\ Line = 2 /\ Word = 3
  BY DEF Grade, None, Unsync, Line, Word

LEMMA LapOfMember ==
  ASSUME Belongs, NEW l \in Lap, NEW s \in member[l]
  PROVE  LapOf(s) = l
<1>1. \A k \in Lap : s \in member[k] => k = l
  BY RaceAssumption DEF Belongs, Lap
<1> QED
  BY <1>1 DEF LapOf, Lap

\* A goroutine that was started belongs to one lap, whose context it has.
LEMMA HasLap ==
  ASSUME TypeOK, Belongs, Untouched, NEW s \in Source, task[s] # "off"
  PROVE  /\ LapOf(s) \in Lap /\ s \in member[LapOf(s)] /\ Launched(LapOf(s))
         /\ \A l \in Lap : s \in member[l] => l = LapOf(s)
<1>1. PICK l \in Lap : s \in member[l]
  BY DEF Belongs, Lap
<1>2. LapOf(s) = l
  BY <1>1, LapOfMember
<1>3. Launched(l)
  BY <1>1 DEF Untouched
<1> QED
  BY <1>1, <1>2, <1>3, LapOfMember

\* A lap is stopped by cancelling its context and no other.
LEMMA Cancels ==
  ASSUME TypeOK, NEW l \in Lap, Cancel(l)
  PROVE  /\ ctx' \in [Lap -> {"live", "canceled", "expired"}]
         /\ \A k \in Lap \ {l} : ctx'[k] = ctx[k]
<1>1. ctx \in [Lap -> {"live", "canceled", "expired"}]
  BY DEF TypeOK
<1> QED
  BY <1>1 DEF Cancel

LEMMA Stops ==
  ASSUME TypeOK, NEW l \in Lap, StopNow(l)
  PROVE  /\ ctx' \in [Lap -> {"live", "canceled", "expired"}] /\ stopped' \in [Lap -> BOOLEAN]
         /\ grace' = grace
         /\ \A k \in Lap \ {l} : ctx'[k] = ctx[k]
<1>1. stopped' \in [Lap -> BOOLEAN] /\ grace' = grace
  BY DEF TypeOK, StopNow
<1>2. CASE stopped[l]
  BY <1>1, <1>2 DEF TypeOK, StopNow
<1>3. CASE ~stopped[l]
  BY <1>1, <1>3, Cancels DEF StopNow
<1> QED
  BY <1>2, <1>3

\* pickWinner returns the lyrics of a source that answered, and no answer is
\* better.
LEMMA WinnerIsBest ==
  ASSUME NEW R \in SUBSET Source, NEW r \in PickWinner(R)
  PROVE  /\ r \in Result /\ Came(r)
         /\ \A s \in R : Grade(answer[s]) <= r.grade
<1> USE GradeRange
<1> DEFINE graded == {s \in R : HasLyrics(s)}
           top == {s \in graded : \A t \in graded : Grade(answer[t]) <= Grade(answer[s])}
<1>1. CASE top = {}
  <2>1. graded = {}
    <3>1. \A s \in graded : Grade(answer[s]) # 3
      BY <1>1
    <3>2. \A s \in graded : Grade(answer[s]) # 2
      BY <1>1, <3>1
    <3>3. \A s \in graded : Grade(answer[s]) # 1
      BY <1>1, <3>1, <3>2
    <3> QED
      BY <3>1, <3>2, <3>3 DEF HasLyrics
  <2>2. r = NoResult
    BY <1>1 DEF PickWinner
  <2>3. \A s \in R : Grade(answer[s]) = 0
    BY <2>1 DEF HasLyrics
  <2> QED
    BY <2>2, <2>3 DEF NoResult, Result, Came
<1>2. CASE top # {}
  <2>1. PICK s \in top : r = AsResult(s)
    BY <1>2 DEF PickWinner
  <2>2. r.source = s /\ r.grade = Grade(answer[s]) /\ r \in Result
    BY <2>1 DEF AsResult, Result
  <2>3. \A t \in R : Grade(answer[t]) <= r.grade
    BY <2>1, <2>2 DEF HasLyrics
  <2> QED
    BY <2>1, <2>2, <2>3 DEF Came
<1> QED
  BY <1>1, <1>2

\* When a race comes back empty-handed to a caller who waits, every goroutine
\* has been heard.
LEMMA Settled ==
  ASSUME RaceInv, pc = "done", result = NoResult, ~gone
  PROVE  /\ best.grade = None /\ ~Won(1) /\ ~Won(2)
         /\ \A l \in Lap : Over(l) => received[l] = member[l]
         /\ \A s \in Source : task[s] = "off" \/ Done(s)
<1> USE GradeRange
<1>1. best.grade = None /\ ~Won(1) /\ ~Won(2)
  BY DEF RaceInv, TypeOK, Result, KeptBest, NoResult, Won
<1>2. \A l \in Lap : Over(l) => received[l] = member[l]
  BY <1>1 DEF RaceInv, FullyReceived, Lap
<1>3. ASSUME NEW s \in Source, task[s] # "off" PROVE Done(s)
  <2>1. LapOf(s) \in Lap /\ s \in member[LapOf(s)] /\ Launched(LapOf(s))
    BY <1>3, HasLap DEF RaceInv
  <2>2. Over(LapOf(s))
    BY <2>1 DEF Launched, Over
  <2> QED
    BY <1>2, <2>1, <2>2 DEF RaceInv, Arrived
<1> QED
  BY <1>1, <1>2, <1>3

LEMMA InitRace == Init => RaceInv
<1> SUFFICES ASSUME Init PROVE RaceInv
  OBVIOUS
<1> USE GradeRange
<1>1. TypeOK
  <2>1. NoResult \in Result
    BY DEF NoResult, Result
  <2>2. [status |-> "none", degraded |-> FALSE] \in Entry
    BY DEF Entry, StatusSet
  <2>3. channel \in [Lap -> Seq(Source)]
    BY DEF Init
  <2> QED
    BY <2>1, <2>2, <2>3 DEF Init, TypeOK, StatusSet, Lap
<1>2. Belongs /\ Untouched /\ Skipped
  BY DEF Init, Belongs, Untouched, Skipped, Lap, Launched, SourcesOf, NamesOf, Source
<1>3. Recorded /\ Arrived /\ Modes /\ Real /\ GraceAfterLap
  BY DEF Init, Recorded, Done, Unhealthy, Arrived, Modes, Real, Came, GraceAfterLap, Lap
<1>4. KeptBest /\ FullyReceived /\ Uncancelled /\ Emptyhanded
  BY DEF Init, KeptBest, FullyReceived, Uncancelled, Emptyhanded, Lowest, Lap, Over, Launched
<1> QED
  BY <1>1, <1>2, <1>3, <1>4 DEF RaceInv

-----------------------------------------------------------------------------
(* The goroutine of a source *)

LEMMA StartKeeps == ASSUME RaceInv, NEW s \in Source, Start(s) PROVE RaceInv'
<1> USE GradeRange DEF lapVars, ctxVars, chanVars
<1>1. /\ task[s] = "start" /\ status[s] = "none"
      /\ task' = [task EXCEPT ![s] = "fetch"] /\ status' = [status EXCEPT ![s] = "WAIT"]
  BY DEF RaceInv, Recorded, Start, Record
<1>2. UNCHANGED <<lapVars, ctxVars, answer, degraded, report, permit, saved, chanVars, gone>>
  BY DEF Start
<1>3. TypeOK'
  BY <1>1, <1>2 DEF RaceInv, TypeOK, StatusSet
<1>4. Belongs'
  BY <1>1, <1>2 DEF RaceInv, TypeOK, Belongs
<1>5. s \in member[LapOf(s)] /\ Launched(LapOf(s)) /\ LapOf(s) \in Lap
  BY <1>1, HasLap DEF RaceInv
<1>6. Untouched'
  <2>1. ASSUME NEW l \in Lap, ~Launched(l) PROVE s \notin SourcesOf(l)
    BY <1>5, <2>1, RaceAssumption DEF RaceInv, Belongs, SourcesOf, Lap
  <2> QED
    BY <1>1, <1>2, <2>1 DEF RaceInv, TypeOK, Untouched, Launched, SourcesOf, Source, Lap
<1>7. Recorded'
  BY <1>1, <1>2 DEF RaceInv, TypeOK, Recorded, HasLyrics, Unhealthy, Done
<1>8. Skipped'
  BY <1>1, <1>2 DEF RaceInv, TypeOK, Skipped, Launched, NamesOf, SourcesOf
<1>9. Arrived'
  BY <1>1, <1>2 DEF RaceInv, TypeOK, Arrived, Done
<1>10. Modes' /\ Real' /\ KeptBest' /\ FullyReceived' /\ GraceAfterLap'
  BY <1>2 DEF RaceInv, Modes, Real, Came, AsResult, HasLyrics, KeptBest, Lowest, Over, FullyReceived, Won, GraceAfterLap
<1>11. Uncancelled'
  BY <1>1, <1>2 DEF RaceInv, TypeOK, Uncancelled, Launched, Over, Won
<1>12. Emptyhanded'
  BY <1>1, <1>2, Settled DEF Emptyhanded, Done
<1> QED
  BY <1>3, <1>4, <1>6, <1>7, <1>8, <1>9, <1>10, <1>11, <1>12 DEF RaceInv

LEMMA AnswerKeeps == ASSUME RaceInv, NEW s \in Source, Answer(s) PROVE RaceInv'
<1> USE GradeRange DEF lapVars, ctxVars, chanVars
<1>1. /\ task[s] = "fetch" /\ status[s] = "WAIT" /\ answer[s] = "none"
      /\ task' = [task EXCEPT ![s] = "judge"]
      /\ UNCHANGED <<lapVars, ctxVars, degraded, report, permit, saved, chanVars, gone>>
  BY DEF RaceInv, Recorded, Answer
<1>2. /\ LapOf(s) \in Lap /\ s \in member[LapOf(s)] /\ Launched(LapOf(s))
      /\ \A l \in Lap : s \in member[l] => l = LapOf(s)
  BY <1>1, HasLap DEF RaceInv
<1>3. PICK a \in Answers, st \in {"OK", "CANCEL", "RTO", "BAD"} :
        /\ answer' = [answer EXCEPT ![s] = a] /\ status' = [status EXCEPT ![s] = st]
        /\ st = "OK" <=> Grade(a) > None
        /\ a = "stray" => st = "CANCEL"
        /\ st = "CANCEL" => a = "stray" \/ ctx[LapOf(s)] = "canceled"
  <2>1. PICK a \in Answers : /\ answer' = [answer EXCEPT ![s] = a]
                             /\ \E st \in Filed(a, ctx[LapOf(s)]) : Record(s, st)
    BY DEF Answer
  <2>2. PICK st \in Filed(a, ctx[LapOf(s)]) : Record(s, st)
    BY <2>1
  <2>3. status' = [status EXCEPT ![s] = st]
    BY <1>1, <2>2 DEF Record, RaceInv, TypeOK
  <2>4. CASE Grade(a) > None
    <3>1. st = "OK" /\ a # "stray"
      BY <2>4 DEF Filed, Grade
    <3> QED
      BY <2>1, <2>3, <2>4, <3>1
  <2>5. CASE ~(Grade(a) > None)
    <3>1. /\ st \in {"CANCEL", "RTO", "BAD"}
          /\ a = "stray" => st = "CANCEL"
          /\ st = "CANCEL" => a = "stray" \/ ctx[LapOf(s)] = "canceled"
      BY <1>2, <2>2, <2>5 DEF Filed, RaceInv, TypeOK
    <3> QED
      BY <2>1, <2>3, <2>5, <3>1
  <2> QED
    BY <2>4, <2>5
<1>4. TypeOK'
  BY <1>1, <1>3 DEF RaceInv, TypeOK, StatusSet
<1>5. Belongs'
  BY <1>1 DEF RaceInv, TypeOK, Belongs
<1>6. Untouched'
  <2>1. ASSUME NEW l \in Lap, ~Launched(l) PROVE s \notin SourcesOf(l)
    BY <1>2, <2>1, RaceAssumption DEF RaceInv, Belongs, SourcesOf, Lap
  <2> QED
    BY <1>1, <1>3, <2>1 DEF RaceInv, TypeOK, Untouched, Launched, SourcesOf, Source, Lap
<1>7. Recorded'
  BY <1>1, <1>3 DEF RaceInv, TypeOK, Recorded, HasLyrics, Unhealthy, Done
<1>8. Skipped'
  BY <1>1, <1>2, <1>3 DEF RaceInv, TypeOK, Skipped, Launched, NamesOf, SourcesOf
<1>9. Arrived'
  BY <1>1 DEF RaceInv, TypeOK, Arrived, Done
<1>10. Modes' /\ GraceAfterLap' /\ FullyReceived'
  BY <1>1 DEF RaceInv, Modes, Over, FullyReceived, Won, GraceAfterLap
<1>11. Real'
  <2>1. ~HasLyrics(s)
    BY <1>1 DEF HasLyrics, Grade
  <2>2. ASSUME NEW r, Came(r) PROVE Came(r)'
    <3>1. CASE r # NoResult
      <4>1. r.source \in Source /\ r.source # s /\ answer'[r.source] = answer[r.source]
        BY <1>3, <2>1, <2>2, <3>1 DEF Came, RaceInv, TypeOK
      <4> QED
        BY <2>2, <3>1, <4>1 DEF Came, HasLyrics, AsResult
    <3> QED
      BY <3>1 DEF Came
  <2> QED
    BY <1>1, <2>2 DEF RaceInv, Real, Came, AsResult, HasLyrics
<1>12. KeptBest'
  <2>1. \A l \in Lap : s \notin received[l]
    BY <1>1 DEF RaceInv, Arrived, Done
  <2>2. \A l \in Lap : \A n : Lowest(l, n) => \A t \in received'[l] : Grade(answer'[t]) <= n
    BY <1>1, <1>3, <2>1 DEF RaceInv, TypeOK, Lowest
  <2>3. 1 \in Lap /\ 2 \in Lap /\ lap \in Lap
    BY DEF RaceInv, TypeOK, Lap
  <2> QED
    BY <1>1, <2>2, <2>3 DEF RaceInv, KeptBest, Lowest, Over
<1>13. Uncancelled'
  BY <1>1, <1>2, <1>3 DEF RaceInv, TypeOK, Uncancelled, Launched, Over, Won
<1>14. Emptyhanded'
  BY <1>1, Settled DEF Emptyhanded, Done
<1> QED
  BY <1>4, <1>5, <1>6, <1>7, <1>8, <1>9, <1>10, <1>11, <1>12, <1>13, <1>14 DEF RaceInv

LEMMA JudgeKeeps == ASSUME RaceInv, NEW s \in Source, Judge(s) PROVE RaceInv'
<1> USE GradeRange DEF lapVars, ctxVars
<1>1. /\ task[s] = "judge" /\ task' = [task EXCEPT ![s] = "sent"]
      /\ degraded' = [degraded EXCEPT ![s] = @ \/ Unhealthy(s)]
      /\ channel' = [channel EXCEPT ![LapOf(s)] = Append(@, s)]
      /\ UNCHANGED <<lapVars, ctxVars, answer, status, saved, member, received, gone>>
  BY DEF Judge
<1>2. /\ LapOf(s) \in Lap /\ s \in member[LapOf(s)] /\ Launched(LapOf(s))
  BY <1>1, HasLap DEF RaceInv
<1>3. TypeOK'
  <2>1. degraded' \in [Source -> BOOLEAN]
    BY <1>1 DEF RaceInv, TypeOK, Unhealthy
  <2>2. channel' \in [Lap -> Seq(Source)]
    BY <1>1, <1>2 DEF RaceInv, TypeOK
  <2>3. report' \in [Source -> {"none", "ok", "fail", "neutral"}] /\ permit' \subseteq Source
    BY DEF RaceInv, TypeOK, Judge
  <2> QED
    BY <1>1, <2>1, <2>2, <2>3 DEF RaceInv, TypeOK
<1>4. Belongs'
  BY <1>1 DEF RaceInv, TypeOK, Belongs
<1>5. Untouched'
  BY <1>1, <1>2 DEF RaceInv, TypeOK, Untouched, Launched, SourcesOf
<1>6. Recorded'
  <2>1. degraded'[s] = (degraded[s] \/ Unhealthy(s)) /\ \A t \in Source \ {s} : degraded'[t] = degraded[t]
    BY <1>1 DEF RaceInv, TypeOK
  <2>2. task'[s] = "sent" /\ \A t \in Source \ {s} : task'[t] = task[t]
    BY <1>1 DEF RaceInv, TypeOK
  <2>3. UNCHANGED <<answer, status>> /\ task[s] = "judge"
    BY <1>1
  <2>4. ASSUME NEW t \in Source, t # s
        PROVE  /\ task'[t] = "start" => status'[t] = "none"
               /\ task'[t] = "fetch" => status'[t] = "WAIT"
               /\ task'[t] \in {"off", "start", "fetch"} => answer'[t] = "none"
               /\ task'[t] \in {"judge", "sent", "end"} =>
                    /\ answer'[t] \in Answers
                    /\ status'[t] \in IF HasLyrics(t)' THEN {"OK"} ELSE {"CANCEL", "RTO", "BAD"}
                    /\ answer'[t] = "stray" => status'[t] = "CANCEL"
               /\ Done(t)' /\ Unhealthy(t)' => degraded'[t]
    BY <2>1, <2>2, <2>3, <2>4 DEF RaceInv, Recorded, HasLyrics, Unhealthy, Done
  <2>5. /\ answer'[s] \in Answers
        /\ status'[s] \in IF HasLyrics(s)' THEN {"OK"} ELSE {"CANCEL", "RTO", "BAD"}
        /\ answer'[s] = "stray" => status'[s] = "CANCEL"
        /\ Unhealthy(s)' => degraded'[s]
    BY <2>1, <2>3 DEF RaceInv, Recorded, HasLyrics, Unhealthy
  <2> QED
    BY <2>2, <2>4, <2>5 DEF Recorded
<1>7. Arrived'
  <2>1. \A t \in Source : Done(t) => Done(t)'
    BY <1>1 DEF RaceInv, TypeOK, Done
  <2>2. Done(s)'
    BY <1>1 DEF RaceInv, TypeOK, Done
  <2>3. ASSUME NEW l \in Lap, NEW i \in 1..Len(channel'[l])
        PROVE  \/ channel'[l][i] = s /\ l = LapOf(s)
               \/ i \in 1..Len(channel[l]) /\ channel'[l][i] = channel[l][i]
    <3>1. channel[l] \in Seq(Source)
      BY DEF RaceInv, TypeOK
    <3>2. CASE l = LapOf(s)
      <4>1. channel'[l] = Append(channel[l], s)
        BY <1>1, <3>2 DEF RaceInv, TypeOK
      <4> QED
        BY <2>3, <3>1, <3>2, <4>1
    <3>3. CASE l # LapOf(s)
      BY <1>1, <2>3, <3>3 DEF RaceInv, TypeOK
    <3> QED
      BY <3>2, <3>3
  <2> QED
    BY <1>1, <1>2, <2>1, <2>2, <2>3 DEF RaceInv, TypeOK, Arrived
<1>8. Skipped' /\ Modes' /\ Real' /\ KeptBest' /\ FullyReceived' /\ GraceAfterLap'
  BY <1>1 DEF RaceInv, Skipped, Launched, NamesOf, SourcesOf, Modes, Real, Came, AsResult, HasLyrics,
              KeptBest, Lowest, Over, FullyReceived, Won, GraceAfterLap
<1>9. Uncancelled'
  BY <1>1 DEF RaceInv, TypeOK, Uncancelled, Launched, Over, Won
<1>10. Emptyhanded'
  BY <1>1, Settled DEF Emptyhanded, Done
<1> QED
  BY <1>3, <1>4, <1>5, <1>6, <1>7, <1>8, <1>9, <1>10 DEF RaceInv

\* The last one of a lap cancels its context, when nobody is left to notice.
LEMMA FinishKeeps ==
  ASSUME RaceInv, NEW s \in Source, Finish(s)
  PROVE  /\ RaceInv'
         /\ \A l \in Lap : ctx'[l] = ctx[l] \/ \A t \in member[l] : task'[t] \notin {"start", "fetch"}
<1> USE GradeRange DEF lapVars, chanVars
<1>1. /\ task[s] = "sent" /\ task' = [task EXCEPT ![s] = "end"]
      /\ UNCHANGED <<lapVars, stopped, grace, answer, status, degraded, report, permit, chanVars, gone>>
  BY DEF Finish
<1>2. /\ LapOf(s) \in Lap /\ s \in member[LapOf(s)] /\ Launched(LapOf(s))
  BY <1>1, HasLap DEF RaceInv
<1>3. /\ ctx' \in [Lap -> {"live", "canceled", "expired"}]
      /\ \A l \in Lap : ctx'[l] = ctx[l] \/ (l = LapOf(s) /\ Active(l) = {s})
  <2>1. ctx \in [Lap -> {"live", "canceled", "expired"}]
    BY DEF RaceInv, TypeOK
  <2>2. CASE Active(LapOf(s)) = {s}
    <3>1. Cancel(LapOf(s))
      BY <2>2 DEF Finish
    <3> QED
      BY <1>2, <2>1, <2>2, <3>1 DEF Cancel
  <2>3. CASE Active(LapOf(s)) # {s}
    BY <2>1, <2>3 DEF Finish
  <2> QED
    BY <2>2, <2>3
<1>4. TypeOK'
  BY <1>1, <1>3 DEF RaceInv, TypeOK, Finish
<1>5. Belongs'
  BY <1>1 DEF RaceInv, TypeOK, Belongs
<1>6. Untouched'
  BY <1>1, <1>2, <1>3 DEF RaceInv, TypeOK, Untouched, Launched, SourcesOf
<1>7. Recorded' /\ Arrived'
  BY <1>1 DEF RaceInv, TypeOK, Recorded, HasLyrics, Unhealthy, Done, Arrived
<1>8. Skipped' /\ Modes' /\ Real' /\ KeptBest' /\ FullyReceived' /\ GraceAfterLap'
  BY <1>1 DEF RaceInv, Skipped, Launched, NamesOf, SourcesOf, Modes, Real, Came, AsResult, HasLyrics,
              KeptBest, Lowest, Over, FullyReceived, Won, GraceAfterLap
<1>9. \A l \in Lap : ctx'[l] = ctx[l] \/ \A t \in member[l] : task'[t] \notin {"start", "fetch"}
  BY <1>1, <1>3 DEF RaceInv, TypeOK, Active
<1>10. Uncancelled' /\ Emptyhanded'
  BY <1>1, <1>9 DEF RaceInv, TypeOK, Uncancelled, Launched, Over, Won, Emptyhanded
<1> QED
  BY <1>4, <1>5, <1>6, <1>7, <1>8, <1>9, <1>10 DEF RaceInv

-----------------------------------------------------------------------------
(* The collector *)

LEMMA LaunchKeeps == ASSUME RaceInv, Launch PROVE RaceInv'
<1> USE GradeRange DEF ctxVars
<1>1. /\ pc = "launch" /\ lap \in Lap /\ ~Launched(lap) /\ Names = NamesOf(lap)
      /\ Names \subseteq SourcesOf(lap) /\ Names \subseteq Source
  BY DEF RaceInv, TypeOK, Launch, Launched, Lap, Names, NamesOf, SourcesOf, Source, Modes
<1>2. /\ member[lap] = {} /\ received[lap] = {} /\ channel[lap] = <<>>
      /\ ctx[lap] = "live" /\ ~grace[lap]
  BY <1>1 DEF RaceInv, Untouched
<1>3. \A s \in Names : /\ task[s] = "off" /\ status[s] = "none" /\ answer[s] = "none"
                       /\ \A l \in Lap : s \notin member[l]
  <2>1. \A s \in Names, l \in Lap : s \notin member[l]
    BY <1>1, <1>2, RaceAssumption DEF RaceInv, Belongs, Lap, SourcesOf
  <2>2. \A s \in Names : task[s] = "off" /\ status[s] = "none"
    BY <1>1, <2>1 DEF RaceInv, Belongs, Untouched, Lap
  <2> QED
    BY <1>1, <2>1, <2>2 DEF RaceInv, Recorded
<1>4. PICK go \in SUBSET Names :
        /\ member' = [member EXCEPT ![lap] = go]
        /\ task' = [s \in Source |-> IF s \in go THEN "start" ELSE task[s]]
        /\ permit' = permit \cup go
        /\ status' = [s \in Source |-> IF s \in Names \ go THEN "SKIP" ELSE status[s]]
        /\ \E R \in SUBSET (Names \ go) : degraded' = [s \in Source |-> degraded[s] \/ s \in R]
        /\ \E N \in SUBSET Names : report' = [s \in Source |-> IF s \in N THEN "neutral" ELSE report[s]]
        /\ pc' = IF go = {} THEN "choose" ELSE "collect"
  <2>1. PICK verdict \in [Names -> {"go", "unset", "open", "full"}] :
          LET go == {s \in Names : verdict[s] = "go"}
              refused == {s \in Names : verdict[s] \in {"open", "full"}}
          IN  /\ member' = [member EXCEPT ![lap] = go]
              /\ task' = [s \in Source |-> IF s \in go THEN "start" ELSE task[s]]
              /\ permit' = permit \cup go
              /\ status' = [s \in Source |-> IF s \in Names \ go THEN "SKIP" ELSE status[s]]
              /\ degraded' = [s \in Source |-> degraded[s] \/ s \in refused]
              /\ report' = [s \in Source |->
                   IF s \in Names /\ verdict[s] = "full" THEN "neutral" ELSE report[s]]
              /\ pc' = IF go = {} THEN "choose" ELSE "collect"
    BY DEF Launch
  <2> DEFINE go == {s \in Names : verdict[s] = "go"}
             refused == {s \in Names : verdict[s] \in {"open", "full"}}
             neutral == {s \in Names : verdict[s] = "full"}
  <2>2. go \in SUBSET Names /\ refused \in SUBSET (Names \ go) /\ neutral \in SUBSET Names
    OBVIOUS
  <2>3. report' = [s \in Source |-> IF s \in neutral THEN "neutral" ELSE report[s]]
    BY <2>1
  <2>4. degraded' = [s \in Source |-> degraded[s] \/ s \in refused]
    BY <2>1
  <2> HIDE DEF go, refused, neutral
  <2>5. /\ member' = [member EXCEPT ![lap] = go]
        /\ task' = [s \in Source |-> IF s \in go THEN "start" ELSE task[s]]
        /\ permit' = permit \cup go
        /\ status' = [s \in Source |-> IF s \in Names \ go THEN "SKIP" ELSE status[s]]
        /\ pc' = IF go = {} THEN "choose" ELSE "collect"
    BY <2>1 DEF go
  <2> QED
    BY <2>2, <2>3, <2>4, <2>5
<1>5. UNCHANGED <<lap, mode, best, result, snapshot, ctxVars, answer, saved, channel, received, gone>>
  BY DEF Launch
<1>6. /\ member'[lap] = go
      /\ \A l \in Lap \ {lap} : member'[l] = member[l]
      /\ \A s \in Source \ Names : task'[s] = task[s] /\ status'[s] = status[s]
      /\ \A s \in go : task'[s] = "start" /\ status'[s] = "none"
      /\ \A s \in Names \ go : task'[s] = "off" /\ status'[s] = "SKIP"
      /\ \A s \in Source : degraded[s] => degraded'[s]
  BY <1>1, <1>3, <1>4 DEF RaceInv, TypeOK
<1>7. TypeOK'
  <2>1. member' \in [Lap -> SUBSET Source] /\ permit' \subseteq Source
    BY <1>1, <1>4 DEF RaceInv, TypeOK
  <2>2. /\ task' \in [Source -> {"off", "start", "fetch", "judge", "sent", "end"}]
        /\ status' \in [Source -> StatusSet]
    BY <1>4 DEF RaceInv, TypeOK, StatusSet
  <2>3. degraded' \in [Source -> BOOLEAN] /\ report' \in [Source -> {"none", "ok", "fail", "neutral"}]
    BY <1>4 DEF RaceInv, TypeOK
  <2> QED
    BY <1>4, <1>5, <2>1, <2>2, <2>3 DEF RaceInv, TypeOK
<1>8. Belongs'
  <2>1. member'[1] \subseteq First /\ member'[2] \subseteq Rest
    BY <1>1, <1>6 DEF RaceInv, Belongs, SourcesOf, Lap
  <2>2. member'[1] \cup member'[2] = member[1] \cup member[2] \cup go
    BY <1>1, <1>2, <1>6 DEF Lap
  <2> QED
    BY <1>3, <1>6, <2>1, <2>2 DEF RaceInv, Belongs
<1>9. \A l \in Lap : ~Launched(l)' => l # lap /\ ~Launched(l)
  BY <1>1, <1>4, <1>5 DEF Launched, Lap
<1>10. Untouched'
  <2>1. \A l \in Lap \ {lap} : \A s \in SourcesOf(l) : s \in Source \ Names
    BY <1>1, RaceAssumption DEF Lap, SourcesOf, Source
  <2> QED
    BY <1>5, <1>6, <1>9, <2>1 DEF RaceInv, Untouched, SourcesOf
<1>11. Recorded'
  <2>1. ASSUME NEW s \in Source \ Names PROVE task'[s] = task[s] /\ status'[s] = status[s]
    BY <1>6, <2>1
  <2> QED
    BY <1>3, <1>5, <1>6, <2>1 DEF RaceInv, Recorded, HasLyrics, Unhealthy, Done
<1>12. Skipped'
  <2>1. \A l \in Lap : NamesOf(l)' = NamesOf(l) /\ NamesOf(l) \subseteq Source
    BY <1>5 DEF NamesOf, SourcesOf, Source
  <2>2. \A l \in Lap \ {lap} : Launched(l)' => Launched(l)
    BY <1>1, <1>5 DEF Launched, Lap
  <2> QED
    BY <1>1, <1>3, <1>6, <2>1, <2>2 DEF RaceInv, Skipped
<1>13. Arrived'
  <2>1. \A s \in Source : Done(s) => Done(s)'
    BY <1>3, <1>6 DEF Done
  <2>2. \A l \in Lap \ {lap} : member'[l] = member[l] /\ member[l] \subseteq Source
    BY <1>6 DEF RaceInv, TypeOK
  <2>3. ASSUME NEW l \in Lap
        PROVE /\ \A s \in received'[l] : s \in member'[l] /\ Done(s)'
              /\ \A i \in 1..Len(channel'[l]) : channel'[l][i] \in member'[l] /\ Done(channel[l][i])'
    <3>1. CASE l = lap
      BY <1>2, <1>5, <3>1
    <3>2. CASE l # lap
      BY <1>5, <2>1, <2>2, <3>2 DEF RaceInv, Arrived
    <3> QED
      BY <3>1, <3>2
  <2> QED
    BY <1>5, <2>3 DEF Arrived, Done
<1>14. Modes' /\ Real'
  BY <1>5 DEF RaceInv, Modes, Real, Came, AsResult, HasLyrics
<1>15. KeptBest'
  BY <1>1, <1>2, <1>4, <1>5 DEF RaceInv, KeptBest, Lowest, Over, Lap
<1>16. FullyReceived'
  <2>1. \A l \in Lap \ {lap} : Over(l)' => Over(l)
    BY <1>1, <1>5 DEF Over
  <2>2. Over(lap)' => received'[lap] = member'[lap]
    <3>1. lap' = lap /\ received'[lap] = {} /\ member'[lap] = go /\ (pc' = "choose" => go = {})
      BY <1>2, <1>4, <1>5, <1>6
    <3>2. Over(lap)' => pc' = "choose"
      BY <1>1, <1>4, <3>1 DEF Over, Lap
    <3> QED
      BY <3>1, <3>2
  <2> QED
    BY <1>5, <1>6, <2>1, <2>2 DEF RaceInv, FullyReceived, Won
<1>17. GraceAfterLap'
  BY <1>2, <1>5 DEF RaceInv, GraceAfterLap, Over
<1>18. Uncancelled'
  <2>1. ASSUME NEW l \in Lap, l # lap, NEW s \in member[l]
        PROVE  task'[s] = task[s] /\ status'[s] = status[s]
    BY <1>3, <1>6, <2>1 DEF RaceInv, TypeOK
  <2>2. \A l \in Lap \ {lap} : Launched(l)' => Launched(l) /\ Over(l)'
    BY <1>1, <1>5 DEF Launched, Over, Lap
  <2>3. \A l \in Lap \ {lap} : Over(l) /\ Won(l) /\ Launched(l)' => Over(l)' /\ Won(l)'
    BY <1>5, <2>2 DEF Won
  <2> QED
    BY <1>2, <1>5, <1>6, <2>1, <2>2, <2>3 DEF RaceInv, Uncancelled
<1>19. Emptyhanded'
  BY <1>4 DEF Emptyhanded
<1> QED
  BY <1>7, <1>8, <1>10, <1>11, <1>12, <1>13, <1>14, <1>15, <1>16, <1>17, <1>18, <1>19 DEF RaceInv

\* When the collector cancels a lap, all of its goroutines have an answer.
LEMMA ReceiveKeeps ==
  ASSUME RaceInv, Receive
  PROVE  /\ RaceInv'
         /\ \A l \in Lap : ctx'[l] = ctx[l] \/ \A t \in member[l] : Done(t)
<1> USE GradeRange DEF taskVars
<1> DEFINE s == Head(channel[lap])
           all == received[lap] \cup {s}
<1>1. /\ pc = "collect" /\ channel[lap] # <<>> /\ lap \in Lap
      /\ channel' = [channel EXCEPT ![lap] = Tail(@)]
      /\ received' = [received EXCEPT ![lap] = all]
      /\ UNCHANGED <<taskVars, member, gone>>
  BY DEF Receive, RaceInv, TypeOK
<1>2. /\ channel[lap] \in Seq(Source) /\ Len(channel[lap]) >= 1 /\ s = channel[lap][1]
      /\ s \in member[lap] /\ Done(s) /\ s \in Source
  <2>1. channel[lap] \in Seq(Source)
    BY <1>1 DEF RaceInv, TypeOK
  <2>2. Len(channel[lap]) >= 1 /\ s = channel[lap][1]
    BY <1>1, <2>1
  <2> QED
    BY <1>1, <2>1, <2>2 DEF RaceInv, TypeOK, Arrived
<1>3. received'[lap] = all /\ \A l \in Lap \ {lap} : received'[l] = received[l]
  BY <1>1 DEF RaceInv, TypeOK
<1>4. \/ UNCHANGED <<lapVars, ctxVars>> /\ Grade(answer[s]) < Word
      \/ \E r \in Result :
           /\ Came(r) /\ Return(r)
           /\ r.grade = Word \/ (all = member[lap] /\ Grade(answer[s]) < Word)
           /\ mode = "all" => \A t \in all : Grade(answer[t]) <= r.grade
           /\ StopAfterGrace(lap) \/ (all = member[lap] /\ Cancel(lap) /\ UNCHANGED <<stopped, grace>>)
  <2>1. CASE Grade(answer[s]) >= Word
    <3>1. Return(AsResult(s)) /\ StopAfterGrace(lap)
      BY <2>1 DEF Receive
    <3>2. AsResult(s) \in Result /\ Came(AsResult(s)) /\ AsResult(s).grade = Word
      BY <1>2, <2>1 DEF AsResult, Result, Came, HasLyrics
    <3> QED
      BY <3>1, <3>2
  <2>2. CASE Grade(answer[s]) < Word /\ all # member[lap]
    BY <2>2 DEF Receive
  <2>3. CASE Grade(answer[s]) < Word /\ all = member[lap]
    <3>1. PICK r \in IF mode = "all" THEN PickWinner(all) ELSE {NoResult} :
            /\ Return(r)
            /\ StopAfterGrace(lap) \/ (Cancel(lap) /\ UNCHANGED <<stopped, grace>>)
      <4>1. ~(Grade(answer[s]) >= Word)
        BY <2>3
      <4>2. \E r \in IF mode = "all" THEN PickWinner(all) ELSE {NoResult} :
              /\ Return(r)
              /\ IF r # NoResult THEN StopAfterGrace(lap)
                 ELSE Cancel(lap) /\ UNCHANGED <<stopped, grace>>
        BY <2>3, <4>1, Zenon DEF Receive
      <4> QED
        BY <4>2, Zenon
    <3>2. all \in SUBSET Source
      BY <1>1, <1>2 DEF RaceInv, TypeOK
    <3>3. NoResult \in Result /\ Came(NoResult)
      BY DEF NoResult, Result, Came
    <3>4. r \in Result /\ Came(r) /\ (mode = "all" => \A t \in all : Grade(answer[t]) <= r.grade)
      BY <3>1, <3>2, <3>3, WinnerIsBest
    <3> QED
      BY <2>3, <3>1, <3>4
  <2>4. Grade(answer[s]) \in None..Word
    OBVIOUS
  <2> QED
    BY <2>1, <2>2, <2>3, <2>4
<1>5. \A t \in all : Done(t) /\ t \in member[lap]
  BY <1>1, <1>2 DEF RaceInv, Arrived
<1>6. /\ ctx' \in [Lap -> {"live", "canceled", "expired"}]
      /\ stopped' \in [Lap -> BOOLEAN] /\ grace' \in [Lap -> BOOLEAN]
      /\ \A l \in Lap : ctx'[l] = ctx[l] \/ (l = lap /\ \A t \in member[l] : Done(t))
      /\ \A l \in Lap : grace'[l] => grace[l] \/ (l = lap /\ pc' = "choose")
  <2>1. CASE UNCHANGED <<lapVars, ctxVars>>
    BY <2>1 DEF RaceInv, TypeOK, ctxVars
  <2>2. ASSUME pc' = "choose", StopAfterGrace(lap) PROVE <1>6
    <3>1. Active(lap) = {} => \A t \in member[lap] : Done(t)
      BY DEF Active, Done
    <3>2. stopped' \in [Lap -> BOOLEAN] /\ TypeOK
      BY <1>1, <2>2 DEF RaceInv, TypeOK, StopAfterGrace
    <3>3. CASE ~stopped[lap] /\ Active(lap) = {}
      <4>1. Cancel(lap) /\ grace' = grace
        BY <2>2, <3>3 DEF StopAfterGrace
      <4> QED
        BY <1>1, <3>1, <3>2, <3>3, <4>1, Cancels DEF TypeOK
    <3>4. CASE stopped[lap] \/ Active(lap) # {}
      <4>1. ctx' = ctx /\ grace' \in {grace, [grace EXCEPT ![lap] = TRUE]}
        BY <2>2, <3>4 DEF StopAfterGrace
      <4> QED
        BY <1>1, <2>2, <3>2, <4>1 DEF TypeOK
    <3> QED
      BY <3>3, <3>4
  <2>3. ASSUME pc' = "choose", all = member[lap], Cancel(lap), UNCHANGED <<stopped, grace>> PROVE <1>6
    BY <1>1, <1>5, <2>3, Cancels DEF RaceInv, TypeOK
  <2> QED
    BY <1>4, <2>1, <2>2, <2>3 DEF Return
<1>7. /\ UNCHANGED <<lap, mode, snapshot>> /\ pc' \in {"collect", "choose"}
      /\ lap = 2 => best' = best
      /\ lap = 1 => result' = result
      /\ pc' = "collect" => UNCHANGED lapVars
      /\ best' \in Result /\ result' \in Result
      /\ pc' = "choose" =>
           LET r == IF lap = 1 THEN best' ELSE result'
           IN  /\ Came(r)
               /\ r.grade = Word \/ (all = member[lap] /\ Grade(answer[s]) < Word)
               /\ mode = "all" => \A t \in all : Grade(answer[t]) <= r.grade
  <2>1. CASE UNCHANGED lapVars
    BY <1>1, <2>1 DEF RaceInv, TypeOK, lapVars
  <2>2. ASSUME NEW r \in Result, Came(r), Return(r),
               r.grade = Word \/ (all = member[lap] /\ Grade(answer[s]) < Word),
               mode = "all" => \A t \in all : Grade(answer[t]) <= r.grade
        PROVE  <1>7
    BY <1>1, <2>2 DEF RaceInv, TypeOK, Return, Lap
  <2> QED
    BY <1>4, <2>1, <2>2
<1>8. TypeOK'
  <2>1. channel' \in [Lap -> Seq(Source)] /\ received' \in [Lap -> SUBSET Source]
    BY <1>1, <1>2 DEF RaceInv, TypeOK
  <2> QED
    BY <1>1, <1>6, <1>7, <2>1 DEF RaceInv, TypeOK
<1>9. Belongs' /\ Recorded'
  BY <1>1 DEF RaceInv, Belongs, Recorded, HasLyrics, Unhealthy, Done
<1>10. \A l \in Lap : /\ Launched(l)' <=> Launched(l)
                      /\ NamesOf(l)' = NamesOf(l)
                      /\ l # lap => (Over(l)' <=> Over(l)) /\ (Over(l) => (Won(l)' <=> Won(l)))
                      /\ Over(l) => l # lap
  BY <1>1, <1>7 DEF Launched, NamesOf, SourcesOf, Over, Won, Lap
<1>11. Untouched' /\ Skipped'
  <2>1. Launched(lap)
    BY <1>1 DEF Launched
  <2> QED
    BY <1>1, <1>3, <1>6, <1>10, <2>1 DEF RaceInv, TypeOK, Untouched, Skipped, SourcesOf
<1>12. Arrived'
  <2>1. ASSUME NEW i \in 1..Len(channel'[lap])
        PROVE  channel'[lap][i] = channel[lap][i + 1] /\ i + 1 \in 1..Len(channel[lap])
    <3>1. channel'[lap] = Tail(channel[lap])
      BY <1>1 DEF RaceInv, TypeOK
    <3>2. ASSUME NEW q \in Seq(Source), q # <<>>, NEW j \in 1..Len(Tail(q))
          PROVE  Tail(q)[j] = q[j + 1] /\ j + 1 \in 1..Len(q)
      BY <3>2
    <3> QED
      BY <1>1, <1>2, <2>1, <3>1, <3>2
  <2>2. \A l \in Lap \ {lap} : channel'[l] = channel[l]
    BY <1>1 DEF RaceInv, TypeOK
  <2>3. UNCHANGED <<member, task>>
    BY <1>1
  <2>4. ASSUME NEW l \in Lap, NEW i \in 1..Len(channel'[l])
        PROVE  channel'[l][i] \in member[l] /\ Done(channel'[l][i])
    <3>1. CASE l = lap
      BY <2>1, <2>4, <3>1 DEF RaceInv, Arrived
    <3>2. CASE l # lap
      BY <2>2, <2>4, <3>2 DEF RaceInv, Arrived
    <3> QED
      BY <3>1, <3>2
  <2>5. \A l \in Lap : \A t \in received'[l] : t \in member[l] /\ Done(t)
    BY <1>3, <1>5 DEF RaceInv, Arrived
  <2> QED
    BY <2>3, <2>4, <2>5 DEF Arrived, Done
<1>13. Modes'
  BY <1>1, <1>7 DEF RaceInv, Modes, Lap
<1>14. Real'
  <2>1. \A r : Came(r) => Came(r)'
    BY <1>1 DEF Came, AsResult, HasLyrics
  <2>2. Came(best') /\ Came(result')
    BY <1>1, <1>7 DEF RaceInv, Real, lapVars, Lap
  <2> QED
    BY <1>1, <2>2 DEF Real, Came, AsResult, HasLyrics
<1>15. KeptBest'
  <2>1. UNCHANGED answer
    BY <1>1
  <2>2. CASE pc' = "collect"
    <3>1. Lowest(lap, Line) /\ Grade(answer[s]) <= Line
      BY <1>1, <1>4, <2>2 DEF RaceInv, KeptBest, Return
    <3>2. \A t \in received'[lap] : Grade(answer[t]) <= Line
      BY <1>3, <3>1 DEF Lowest
    <3>3. Over(1)' => lap # 1 /\ Over(1)
      BY <1>7, <2>2 DEF Over
    <3>4. Over(1)' => Lowest(1, best.grade)'
      BY <1>3, <1>7, <2>1, <2>2, <3>3 DEF RaceInv, KeptBest, Lowest, lapVars, Lap
    <3> QED
      BY <1>7, <2>1, <2>2, <3>2, <3>4 DEF KeptBest, Lowest
  <2>3. CASE pc' = "choose" /\ lap = 1
    <3>1. mode = "all"
      BY <2>3 DEF RaceInv, Modes
    <3> QED
      BY <1>3, <1>7, <2>1, <2>3, <3>1 DEF KeptBest, Lowest, Over
  <2>4. CASE pc' = "choose" /\ lap = 2
    <3>1. Lowest(1, best.grade)'
      BY <1>3, <1>7, <2>1, <2>4 DEF RaceInv, KeptBest, Lowest, Over, Lap
    <3>2. CASE mode = "all"
      BY <1>3, <1>7, <2>1, <2>4, <3>1, <3>2 DEF KeptBest, Lowest
    <3>3. CASE result'.grade = Word
      BY <1>3, <1>7, <2>1, <2>4, <3>1, <3>3 DEF KeptBest, Lowest
    <3>4. CASE mode # "all" /\ result'.grade # Word
      <4>1. best.grade = Line /\ Lowest(2, Line) /\ Grade(answer[s]) <= Line
        <5>1. mode = "upgrade" /\ best.grade = Line
          BY <2>4, <3>4 DEF RaceInv, TypeOK, Modes
        <5>2. Lowest(2, Line)
          BY <1>1, <2>4 DEF RaceInv, KeptBest
        <5>3. Grade(answer[s]) < Word
          BY <1>7, <2>4, <3>4
        <5>4. Grade(answer[s]) \in None..Word
          OBVIOUS
        <5> QED
          BY <5>1, <5>2, <5>3, <5>4
      <4> QED
        BY <1>3, <1>7, <2>1, <2>4, <3>1, <4>1 DEF KeptBest, Lowest
    <3> QED
      BY <3>2, <3>3, <3>4
  <2> QED
    BY <1>1, <1>7, <2>2, <2>3, <2>4 DEF Lap
<1>16. FullyReceived'
  <2>1. ASSUME NEW l \in Lap, l = lap, Over(l)' PROVE Won(l)' \/ received'[l] = member[l]
    <3>1. pc' = "choose"
      BY <1>1, <1>7, <2>1 DEF Over, Lap
    <3>2. (IF lap = 1 THEN best' ELSE result').grade = Word \/ all = member[lap]
      BY <1>7, <3>1
    <3> QED
      BY <1>1, <1>3, <2>1, <3>2 DEF Won, Lap
  <2>2. \A l \in Lap \ {lap} : Over(l)' /\ ~gone => Won(l)' \/ received[l] = member[l]
    BY <1>10 DEF RaceInv, FullyReceived
  <2>3. UNCHANGED <<member, gone>>
    BY <1>1
  <2>4. ASSUME ~gone', NEW l \in Lap, Over(l)' PROVE Won(l)' \/ received'[l] = member'[l]
    <3>1. CASE l = lap
      BY <2>1, <2>3, <2>4, <3>1
    <3>2. CASE l # lap
      BY <1>3, <2>2, <2>3, <2>4, <3>2
    <3> QED
      BY <3>1, <3>2
  <2> QED
    BY <2>4 DEF FullyReceived, Over, Won
<1>17. GraceAfterLap'
  BY <1>6, <1>7, <1>10 DEF RaceInv, GraceAfterLap, Over
<1>18. Uncancelled'
  <2>1. \A l \in Lap : \A t \in member[l] : ctx'[l] = ctx[l] \/ task[t] \notin {"start", "fetch"}
    BY <1>6 DEF Done
  <2>2. \A l \in Lap : ~(Over(l)' /\ Won(l)') => ~(Over(l) /\ Won(l))
    BY <1>10
  <2> QED
    BY <1>1, <1>10, <2>1, <2>2 DEF RaceInv, Uncancelled
<1>19. Emptyhanded'
  BY <1>7 DEF Emptyhanded
<1> QED
  BY <1>6, <1>8, <1>9, <1>11, <1>12, <1>13, <1>14, <1>15, <1>16, <1>17, <1>18, <1>19 DEF RaceInv

LEMMA AbandonKeeps == ASSUME RaceInv, Abandon PROVE RaceInv'
<1> USE GradeRange DEF taskVars, chanVars
<1>1. /\ pc = "collect" /\ gone /\ lap \in Lap /\ pc' = "choose" /\ StopNow(lap)
      /\ UNCHANGED <<taskVars, chanVars, gone, lap, mode, snapshot>>
  BY DEF Abandon, Return, RaceInv, TypeOK
<1>2. PICK r \in Result :
        /\ Came(r)
        /\ mode = "all" => Lowest(lap, r.grade)
        /\ IF lap = 1 THEN best' = r /\ UNCHANGED result ELSE result' = r /\ UNCHANGED best
  <2>1. PICK r \in IF mode = "all" THEN PickWinner(received[lap]) ELSE {NoResult} : Return(r)
    BY DEF Abandon
  <2>2. received[lap] \in SUBSET Source
    BY <1>1 DEF RaceInv, TypeOK
  <2>3. NoResult \in Result /\ Came(NoResult)
    BY DEF NoResult, Result, Came
  <2>4. r \in Result /\ Came(r) /\ (mode = "all" => Lowest(lap, r.grade))
    BY <2>1, <2>2, <2>3, WinnerIsBest DEF Lowest
  <2> QED
    BY <2>1, <2>4 DEF Return
<1>3. /\ ctx' \in [Lap -> {"live", "canceled", "expired"}] /\ stopped' \in [Lap -> BOOLEAN]
      /\ grace' = grace
      /\ \A l \in Lap \ {lap} : ctx'[l] = ctx[l]
  BY <1>1, Stops DEF RaceInv
<1>4. TypeOK'
  BY <1>1, <1>2, <1>3 DEF RaceInv, TypeOK
<1>5. Belongs' /\ Recorded' /\ Arrived'
  BY <1>1 DEF RaceInv, Belongs, Recorded, Arrived, HasLyrics, Unhealthy, Done
<1>6. Untouched' /\ Skipped'
  BY <1>1, <1>3 DEF RaceInv, Untouched, Skipped, Launched, NamesOf, SourcesOf
<1>7. Modes'
  BY <1>1, <1>2 DEF RaceInv, Modes, Lap
<1>8. Real'
  BY <1>1, <1>2 DEF RaceInv, Real, Came, AsResult, HasLyrics
<1>9. KeptBest'
  <2>1. UNCHANGED <<answer, received>>
    BY <1>1
  <2>2. CASE lap = 1
    BY <1>1, <1>2, <2>1, <2>2 DEF RaceInv, Modes, KeptBest, Lowest, Over
  <2>3. CASE lap = 2
    <3>1. Over(1) /\ Lowest(1, best.grade)
      BY <2>3 DEF RaceInv, KeptBest, Over
    <3>2. Lowest(2, result'.grade) \/ Lowest(2, best.grade)
      BY <1>1, <1>2, <2>3 DEF RaceInv, TypeOK, Modes, KeptBest
    <3> QED
      BY <1>1, <1>2, <2>1, <2>3, <3>1, <3>2 DEF KeptBest, Lowest
  <2> QED
    BY <1>1, <2>2, <2>3 DEF Lap
<1>10. FullyReceived' /\ Uncancelled' /\ Emptyhanded'
  BY <1>1 DEF FullyReceived, Uncancelled, Emptyhanded
<1>11. GraceAfterLap'
  BY <1>1, <1>3 DEF RaceInv, GraceAfterLap, Over
<1> QED
  BY <1>4, <1>5, <1>6, <1>7, <1>8, <1>9, <1>10, <1>11 DEF RaceInv

LEMMA ChooseFirstKeeps == ASSUME RaceInv, ChooseFirst PROVE RaceInv'
<1> USE GradeRange DEF ctxVars, taskVars, chanVars
<1>1. /\ pc = "choose" /\ lap = 1 /\ best' = best
      /\ UNCHANGED <<ctxVars, taskVars, chanVars, gone>>
      /\ mode = "all" /\ ~Launched(2) /\ Over(1) /\ best \in Result
  BY DEF ChooseFirst, Finalize, RaceInv, TypeOK, Modes, Launched, Over
<1>2. \/ /\ Finalize(best)
         /\ best.grade >= Word \/ Rest = {} \/ gone \/ best.grade = Line
      \/ /\ lap' = 2 /\ pc' = "launch" /\ best.grade < Word
         /\ mode' = IF best.grade = Line THEN "upgrade" ELSE "all"
         /\ UNCHANGED <<result, snapshot>>
  <2>1. best.grade \in None..Word
    BY <1>1 DEF Result
  <2> QED
    BY <2>1 DEF ChooseFirst
<1>3. /\ lap' \in Lap /\ mode' \in {"all", "upgrade"} /\ pc' \in {"launch", "done"}
      /\ result' \in Result /\ snapshot' \in [Source -> Entry]
      /\ pc' = "launch" => lap' = 2 /\ result' = result
      /\ pc' = "done" => lap' = 1 /\ mode' = "all" /\ result' = best
  <2>1. CASE Finalize(best)
    BY <1>1, <2>1 DEF RaceInv, TypeOK, Finalize, Entry, StatusSet
  <2>2. CASE lap' = 2
    BY <1>1, <1>2, <2>2 DEF RaceInv, TypeOK, Finalize, Lap
  <2> QED
    BY <1>2, <2>1, <2>2
<1>4. TypeOK'
  BY <1>1, <1>3 DEF RaceInv, TypeOK
<1>5. Belongs' /\ Recorded' /\ Arrived'
  BY <1>1 DEF RaceInv, Belongs, Recorded, Arrived, HasLyrics, Unhealthy, Done
<1>6. \A l \in Lap : /\ Launched(l)' <=> l = 1
                     /\ Over(l)' <=> l = 1
                     /\ Launched(l) <=> l = 1
                     /\ Over(l) <=> l = 1
                     /\ l = 1 => NamesOf(l)' = NamesOf(l) /\ Won(l)' = Won(l)
  BY <1>1, <1>3 DEF Launched, Over, NamesOf, SourcesOf, Won, Lap
<1>7. Untouched' /\ Skipped'
  BY <1>1, <1>6 DEF RaceInv, Untouched, Skipped, SourcesOf
<1>8. Modes'
  BY <1>1, <1>2, <1>3 DEF Modes, Finalize
<1>9. Real'
  BY <1>1, <1>3 DEF RaceInv, Real, Came, AsResult, HasLyrics
<1>10. KeptBest'
  <2>1. Lowest(1, best.grade) /\ received[2] = {}
    BY <1>1 DEF RaceInv, KeptBest, Untouched, Lap
  <2>2. best.grade \in Int
    BY <1>1 DEF Result
  <2> QED
    BY <1>1, <1>3, <2>1, <2>2 DEF KeptBest, Lowest, Lap
<1>11. FullyReceived' /\ GraceAfterLap' /\ Uncancelled'
  <2>1. FullyReceived'
    BY <1>1, <1>6 DEF RaceInv, FullyReceived
  <2>2. GraceAfterLap'
    BY <1>1, <1>6 DEF RaceInv, GraceAfterLap
  <2>3. Uncancelled'
    BY <1>1, <1>6 DEF RaceInv, Uncancelled
  <2> QED
    BY <2>1, <2>2, <2>3
<1>12. Emptyhanded'
  <2>1. ASSUME pc' = "done", result' = NoResult, ~gone'
        PROVE  /\ Rest = {}
               /\ snapshot' = [s \in Source |-> [status |-> status[s], degraded |-> degraded[s]]]
    <3>1. best.grade = None /\ Finalize(best)
      BY <1>2, <1>3, <2>1 DEF NoResult
    <3> QED
      BY <1>1, <1>2, <2>1, <3>1 DEF Finalize
  <2> QED
    BY <1>1, <2>1 DEF Emptyhanded
<1> QED
  BY <1>4, <1>5, <1>7, <1>8, <1>9, <1>10, <1>11, <1>12 DEF RaceInv

LEMMA ChooseSecondKeeps == ASSUME RaceInv, ChooseSecond PROVE RaceInv'
<1> USE GradeRange DEF ctxVars, taskVars, chanVars
<1>1. /\ pc = "choose" /\ lap = 2 /\ pc' = "done" /\ UNCHANGED <<lap, mode, best>>
      /\ result' = IF result.grade > best.grade THEN result ELSE best
      /\ snapshot' = [s \in Source |-> [status |-> status[s], degraded |-> degraded[s]]]
      /\ UNCHANGED <<ctxVars, taskVars, chanVars, gone>>
      /\ best \in Result /\ result \in Result
  BY DEF ChooseSecond, Finalize, RaceInv, TypeOK
<1>2. /\ best.grade \in 0..3 /\ result.grade \in 0..3
      /\ result'.grade >= best.grade /\ result'.grade >= result.grade
      /\ result' \in {result, best}
  BY <1>1 DEF Result
<1>3. TypeOK'
  BY <1>1 DEF RaceInv, TypeOK, Entry, StatusSet
<1>4. Belongs' /\ Recorded' /\ Arrived' /\ Modes'
  BY <1>1 DEF RaceInv, Belongs, Recorded, Arrived, HasLyrics, Unhealthy, Done, Modes
<1>5. \A l \in Lap : /\ Launched(l)' <=> Launched(l)
                     /\ Over(l)' <=> Over(l)
                     /\ NamesOf(l)' = NamesOf(l)
                     /\ Won(l) => Won(l)'
  BY <1>1, <1>2 DEF Launched, Over, NamesOf, SourcesOf, Won, Lap
<1>6. Untouched' /\ Skipped'
  BY <1>1, <1>5 DEF RaceInv, Untouched, Skipped, SourcesOf
<1>7. Real'
  BY <1>1, <1>2 DEF RaceInv, Real, Came, AsResult, HasLyrics
<1>8. KeptBest'
  <2>1. Lowest(1, best.grade) /\ (Lowest(2, result.grade) \/ Lowest(2, best.grade))
    BY <1>1 DEF RaceInv, KeptBest, Over
  <2>2. \A l \in Lap : \A s \in received[l] : Grade(answer[s]) <= result'.grade
    BY <1>2, <2>1 DEF Lowest, Lap
  <2>3. Lowest(1, best.grade)'
    BY <1>1, <2>1 DEF Lowest
  <2> QED
    BY <1>1, <1>2, <2>2, <2>3 DEF KeptBest, Lowest
<1>9. FullyReceived' /\ GraceAfterLap' /\ Uncancelled'
  <2>1. FullyReceived'
    BY <1>1, <1>5 DEF RaceInv, FullyReceived
  <2>2. GraceAfterLap'
    BY <1>1, <1>5 DEF RaceInv, GraceAfterLap
  <2>3. Uncancelled'
    BY <1>1, <1>5 DEF RaceInv, Uncancelled
  <2> QED
    BY <2>1, <2>2, <2>3
<1>10. Emptyhanded'
  BY <1>1 DEF Emptyhanded
<1> QED
  BY <1>3, <1>4, <1>6, <1>7, <1>8, <1>9, <1>10 DEF RaceInv

-----------------------------------------------------------------------------
(* Timers, and the caller *)

LEMMA ExpireKeeps == ASSUME RaceInv, NEW l \in Lap, Expire(l) PROVE RaceInv'
<1> USE GradeRange DEF lapVars, taskVars, chanVars
<1>1. /\ member[l] # {} /\ ctx[l] = "live" /\ UNCHANGED <<lapVars, stopped, grace, taskVars, chanVars, gone>>
      /\ ctx' \in [Lap -> {"live", "canceled", "expired"}]
      /\ \A k \in Lap \ {l} : ctx'[k] = ctx[k]
      /\ ctx'[l] = "canceled" => grace[l]
  BY DEF Expire, Cancel, RaceInv, TypeOK
<1>2. Launched(l)
  BY <1>1 DEF RaceInv, Untouched
<1>3. TypeOK'
  BY <1>1 DEF RaceInv, TypeOK
<1>4. Belongs' /\ Recorded' /\ Arrived' /\ Skipped' /\ Modes' /\ Real'
  BY <1>1 DEF RaceInv, Belongs, Recorded, Arrived, HasLyrics, Unhealthy, Done, Skipped, Launched,
              NamesOf, SourcesOf, Modes, Real, Came, AsResult
<1>5. Untouched'
  BY <1>1, <1>2 DEF RaceInv, Untouched, Launched, SourcesOf
<1>6. KeptBest' /\ FullyReceived' /\ GraceAfterLap' /\ Emptyhanded'
  BY <1>1 DEF RaceInv, KeptBest, Lowest, HasLyrics, FullyReceived, Over, Won, GraceAfterLap, Emptyhanded
<1>7. Uncancelled'
  <2>1. ASSUME ~gone, ~(Over(l) /\ Won(l)), ctx'[l] = "canceled", NEW s \in member[l]
        PROVE  task[s] \notin {"start", "fetch"}
    <3>1. Over(l) /\ received[l] = member[l]
      BY <1>1, <2>1 DEF RaceInv, GraceAfterLap, FullyReceived
    <3> QED
      BY <3>1 DEF RaceInv, Arrived, Done
  <2> QED
    BY <1>1, <2>1 DEF RaceInv, Uncancelled, Launched, Over, Won
<1> QED
  BY <1>3, <1>4, <1>5, <1>6, <1>7 DEF RaceInv

LEMMA MonitorKeeps == ASSUME RaceInv, MonitorCaller PROVE RaceInv'
<1> USE DEF lapVars, taskVars, chanVars
<1>1. /\ pc = "collect" /\ gone /\ UNCHANGED <<lapVars, grace, taskVars, chanVars, gone>>
      /\ ctx' \in [Lap -> {"live", "canceled", "expired"}] /\ stopped' \in [Lap -> BOOLEAN]
      /\ \A l \in Lap \ {lap} : ctx'[l] = ctx[l]
  <2>1. lap \in Lap /\ TypeOK
    BY DEF RaceInv, TypeOK
  <2>2. /\ StopNow(lap) /\ pc = "collect" /\ gone
        /\ UNCHANGED <<lapVars, taskVars, chanVars, gone>>
    BY DEF MonitorCaller
  <2> QED
    BY <2>1, <2>2, Stops
<1>2. TypeOK'
  BY <1>1 DEF RaceInv, TypeOK
<1>3. Belongs' /\ Recorded' /\ Arrived' /\ Skipped' /\ Modes' /\ Real'
  BY <1>1 DEF RaceInv, Belongs, Recorded, Arrived, HasLyrics, Unhealthy, Done, Skipped, Launched,
              NamesOf, SourcesOf, Modes, Real, Came, AsResult
<1>4. Untouched'
  BY <1>1 DEF RaceInv, Untouched, Launched, SourcesOf
<1>5. KeptBest' /\ GraceAfterLap'
  BY <1>1 DEF RaceInv, KeptBest, Lowest, Over, GraceAfterLap
<1>6. FullyReceived' /\ Uncancelled' /\ Emptyhanded'
  BY <1>1 DEF FullyReceived, Uncancelled, Emptyhanded
<1> QED
  BY <1>2, <1>3, <1>4, <1>5, <1>6 DEF RaceInv

LEMMA CallerGoneKeeps == ASSUME RaceInv, CallerGone \/ UNCHANGED vars PROVE RaceInv'
<1> USE DEF lapVars, ctxVars, taskVars, chanVars
<1>1. gone' \in BOOLEAN /\ (gone => gone') /\ UNCHANGED <<lapVars, ctxVars, taskVars, chanVars>>
  BY DEF CallerGone, vars, RaceInv, TypeOK
<1>2. TypeOK' /\ Belongs' /\ Recorded' /\ Arrived' /\ Skipped' /\ Modes' /\ Real' /\ Untouched'
  BY <1>1 DEF RaceInv, TypeOK, Belongs, Recorded, Arrived, HasLyrics, Unhealthy, Done, Skipped, Launched,
              NamesOf, SourcesOf, Modes, Real, Came, AsResult, Untouched
<1>3. KeptBest' /\ FullyReceived' /\ GraceAfterLap' /\ Uncancelled' /\ Emptyhanded'
  BY <1>1 DEF RaceInv, KeptBest, Lowest, FullyReceived, Launched, Over, Won, GraceAfterLap, Uncancelled, Emptyhanded
<1> QED
  BY <1>2, <1>3 DEF RaceInv

LEMMA StepKeeps == RaceInv /\ [Next]_vars => RaceInv'
<1> SUFFICES ASSUME RaceInv, [Next]_vars PROVE RaceInv'
  OBVIOUS
<1>1. CASE Collector
  BY <1>1, LaunchKeeps, ReceiveKeeps, AbandonKeeps, ChooseFirstKeeps, ChooseSecondKeeps DEF Collector
<1>2. ASSUME NEW s \in Source, Fetch(s) PROVE RaceInv'
  BY <1>2, StartKeeps, AnswerKeeps, JudgeKeeps, FinishKeeps DEF Fetch
<1>3. ASSUME NEW l \in Lap, Expire(l) PROVE RaceInv'
  BY <1>3, ExpireKeeps
<1> QED
  BY <1>1, <1>2, <1>3, MonitorKeeps, CallerGoneKeeps DEF Next
-----------------------------------------------------------------------------
(* The theorems *)

\* For any sources, whatever they answer and whenever timers fire.
THEOREM RaceInvariant == Spec => []RaceInv
  BY InitRace, StepKeeps, PTL DEF Spec

THEOREM TypeCorrect == Spec => []TypeOK
<1>1. RaceInv => TypeOK
  BY DEF RaceInv
<1> QED
  BY <1>1, RaceInvariant, PTL

\* A race that comes back empty-handed to a caller who waits has heard of every
\* source: the invariant implies it, because such a race ended no lap early.
LEMMA EverybodyWasHeard == RaceInv => NoEarlyMiss
<1> SUFFICES ASSUME RaceInv, pc = "done", result = NoResult, ~gone, NEW s \in Source
             PROVE  /\ ~HasLyrics(s)
                    /\ \/ status[s] \in {"SKIP", "BAD", "RTO"}
                       \/ status[s] = "CANCEL" /\ answer[s] = "stray"
  BY DEF NoEarlyMiss
<1> USE GradeRange
<1>1. /\ best.grade = None /\ ~Won(1) /\ ~Won(2)
      /\ \A l \in Lap : Over(l) => received[l] = member[l]
      /\ task[s] = "off" \/ Done(s)
  BY Settled
<1>2. lap = 1 => Rest = {}
  BY DEF RaceInv, Emptyhanded
<1>3. CASE task[s] = "off"
  <2>1. ~HasLyrics(s)
    BY <1>3 DEF RaceInv, Recorded, HasLyrics, Grade
  <2>2. mode = "all"
    BY <1>1 DEF RaceInv, TypeOK, Modes, Lap
  <2>3. PICK l \in Lap : Launched(l) /\ s \in NamesOf(l)
    <3>1. CASE lap = 1
      BY <1>2, <3>1 DEF Lap, Launched, NamesOf, SourcesOf, Source
    <3>2. CASE lap = 2
      BY <2>2, <3>2 DEF Lap, Launched, NamesOf, SourcesOf, Source
    <3> QED
      BY <3>1, <3>2 DEF RaceInv, TypeOK, Lap
  <2>4. s \notin member[l]
    BY <1>3 DEF RaceInv, Belongs, Lap
  <2> QED
    BY <2>1, <2>3, <2>4 DEF RaceInv, Skipped
<1>4. CASE Done(s)
  <2>1. PICK l \in Lap : s \in member[l] /\ Launched(l)
    BY <1>4, HasLap DEF RaceInv, Done
  <2>2. s \in received[l] /\ ~Won(l)
    BY <1>1, <2>1 DEF Launched, Over, Lap
  <2>3. ~HasLyrics(s)
    BY <2>2 DEF RaceInv, KeptBest, Lowest, NoResult, HasLyrics
  <2>4. status[s] \in {"CANCEL", "RTO", "BAD"}
    BY <1>4, <2>3 DEF RaceInv, Recorded, Done
  <2>5. status[s] = "CANCEL" => answer[s] = "stray"
    BY <2>1, <2>2 DEF RaceInv, Uncancelled
  <2> QED
    BY <2>3, <2>4, <2>5
<1> QED
  BY <1>1, <1>3, <1>4

\* A miss that is reported to a caller who waits means that every source was
\* skipped or has answered without lyrics, or passed on a cancellation that
\* was another race's: this race cut nobody off and dropped no outcome.
THEOREM MissIsComplete == Spec => []NoEarlyMiss
  BY EverybodyWasHeard, RaceInvariant, PTL

\* What Race returns came from a source, and no outcome that the collector
\* received in either lap is better.
THEOREM BestIsReturned == Spec => []ResultIsBest
<1>1. RaceInv => ResultIsBest
  BY DEF RaceInv, Real, Came, KeptBest, Lowest, ResultIsBest
<1> QED
  BY <1>1, RaceInvariant, PTL

\* A miss that may be remembered rests on sources that have nothing, and on no
\* provider that was failing, while the caller is there.
THEOREM MissIsHonest == Spec => []NegativeIsHonestUnlessGone
<1>1. RaceInv => NegativeIsHonestUnlessGone
  <2> SUFFICES ASSUME RaceInv, pc = "done", result = NoResult, CachesNegative, ~gone, NEW s \in Source
               PROVE  snapshot[s].status = "SKIP" \/ answer[s] = "miss"
    BY DEF NegativeIsHonestUnlessGone
  <2>1. ~HasLyrics(s) /\ status[s] \in {"SKIP", "BAD", "RTO", "CANCEL"}
    BY EverybodyWasHeard DEF NoEarlyMiss
  <2>2. snapshot[s].status = status[s] /\ snapshot[s].degraded = degraded[s]
    <3>1. snapshot[s] = [status |-> status[s], degraded |-> degraded[s]]
      BY DEF RaceInv, Emptyhanded
    <3> QED
      BY <3>1
  <2>3. ~degraded[s] /\ status[s] \notin {"RTO", "CANCEL"}
    BY <2>2 DEF CachesNegative
  <2>4. CASE status[s] = "BAD"
    <3>1. ~Unhealthy(s) \/ task[s] = "off"
      BY <2>3, Settled DEF RaceInv, Recorded
    <3>2. task[s] # "off"
      <4>1. ASSUME task[s] = "off" PROVE FALSE
        <5>1. PICK l \in Lap : Launched(l) /\ s \in NamesOf(l)
          <6>1. mode = "all" /\ (lap = 1 => Rest = {}) /\ lap \in Lap
            BY Settled, GradeRange DEF RaceInv, TypeOK, Modes, Emptyhanded, Lap
          <6> QED
            BY <6>1 DEF Lap, Launched, NamesOf, SourcesOf, Source
        <5>2. s \notin member[l]
          BY <4>1 DEF RaceInv, Belongs, Lap
        <5> QED
          BY <2>4, <5>1, <5>2 DEF RaceInv, Skipped
      <4> QED
        BY <4>1
    <3>3. answer[s] \in Answers \ {"sick", "stray"}
      BY <2>4, <3>1, <3>2, Settled DEF RaceInv, Recorded, Done, Unhealthy
    <3> QED
      BY <2>1, <3>3, GradeRange DEF Answers, HasLyrics, Grade
  <2> QED
    BY <2>1, <2>2, <2>3, <2>4
<1> QED
  BY <1>1, RaceInvariant, PTL

\* A running fetch is cancelled by the grace timer, or because the caller went
\* before the lap had a result.
THEOREM SiblingsAreSpared == Spec => SiblingsGetGrace
<1> DEFINE Spared ==
      \A l \in Lap :
        /\ ctx[l] = "live" /\ ctx'[l] = "canceled"
        /\ \E s \in member[l] : task'[s] \in {"start", "fetch"}
        => grace[l] \/ (gone /\ lap = l /\ pc = "collect")
<1>1. ASSUME RaceInv, Next PROVE Spared
  <2>1. UNCHANGED ctx => Spared
    OBVIOUS
  <2>2. Receive => Spared
    BY <1>1, ReceiveKeeps DEF Receive, taskVars, Done
  <2>3. Abandon \/ MonitorCaller => Spared
    BY <1>1 DEF Abandon, MonitorCaller, StopNow, Cancel, RaceInv, TypeOK
  <2>4. ASSUME NEW l \in Lap, Expire(l) PROVE Spared
    BY <1>1, <2>4 DEF Expire, Cancel, RaceInv, TypeOK
  <2>5. ASSUME NEW s \in Source, Finish(s) PROVE Spared
    BY <1>1, <2>5, FinishKeeps
  <2>6. ASSUME NEW s \in Source, Fetch(s) PROVE Spared
    BY <2>1, <2>5, <2>6 DEF Fetch, Start, Answer, Judge, ctxVars
  <2>7. Launch \/ ChooseFirst \/ ChooseSecond \/ CallerGone => UNCHANGED ctx
    BY DEF Launch, ChooseFirst, ChooseSecond, CallerGone, ctxVars
  <2> HIDE DEF Spared
  <2> QED
    BY <1>1, <2>1, <2>2, <2>3, <2>4, <2>6, <2>7 DEF Next, Collector
<1> QED
  BY <1>1, RaceInvariant, PTL DEF Spec, SiblingsGetGrace

\* A permit is held exactly from the launch to the verdict, and lyrics are
\* saved exactly when their goroutine ends, whatever became of the collector.
Accounted ==
  /\ permit = {s \in Source : task[s] \in {"start", "fetch", "judge"}}
  /\ saved = {s \in Source : task[s] = "end" /\ HasLyrics(s)}

THEOREM NothingIsLeftBehind == Spec => []Accounted
<1>1. Init => Accounted
  BY DEF Init, Accounted
<1>2. ASSUME RaceInv, Accounted, [Next]_vars PROVE Accounted'
  <2> USE <1>2 DEF RaceInv, TypeOK
  <2>1. CASE UNCHANGED <<task, answer, permit, saved>>
    BY <2>1 DEF Accounted, HasLyrics
  <2>2. CASE Launch
    <3>1. PICK go \in SUBSET Names : /\ task' = [s \in Source |-> IF s \in go THEN "start" ELSE task[s]]
                                     /\ permit' = permit \cup go
      BY <2>2 DEF Launch
    <3>2. Names \subseteq Source /\ \A s \in Names : task[s] = "off"
      BY <2>2, RaceAssumption DEF Launch, Launched, Names, SourcesOf, Source, Lap, Untouched, Belongs, Modes
    <3>3. answer' = answer /\ saved' = saved
      BY <2>2 DEF Launch
    <3> QED
      BY <3>1, <3>2, <3>3 DEF Accounted, HasLyrics
  <2>3. ASSUME NEW s \in Source, Start(s) PROVE Accounted'
    BY <2>3 DEF Start, Accounted, HasLyrics
  <2>4. ASSUME NEW s \in Source, Answer(s) PROVE Accounted'
    <3>1. /\ task[s] = "fetch" /\ task' = [task EXCEPT ![s] = "judge"] /\ permit' = permit /\ saved' = saved
          /\ \A t \in Source \ {s} : answer'[t] = answer[t]
      BY <2>4 DEF Answer
    <3> QED
      BY <3>1 DEF Accounted, HasLyrics
  <2>5. ASSUME NEW s \in Source, Judge(s) PROVE Accounted'
    BY <2>5 DEF Judge, Accounted, HasLyrics
  <2>6. ASSUME NEW s \in Source, Finish(s) PROVE Accounted'
    BY <2>6 DEF Finish, Accounted, HasLyrics
  <2>7. ASSUME NEW s \in Source, Fetch(s) PROVE Accounted'
    BY <2>3, <2>4, <2>5, <2>6, <2>7 DEF Fetch
  <2>8. Receive \/ Abandon \/ ChooseFirst \/ ChooseSecond \/ MonitorCaller \/ CallerGone \/ UNCHANGED vars
        => UNCHANGED <<task, answer, permit, saved>>
    BY DEF Receive, Abandon, ChooseFirst, ChooseSecond, MonitorCaller, CallerGone, vars, taskVars
  <2>9. ASSUME NEW l \in Lap, Expire(l) PROVE UNCHANGED <<task, answer, permit, saved>>
    BY <2>9 DEF Expire, taskVars
  <2> QED
    BY <2>1, <2>2, <2>7, <2>8, <2>9 DEF Next, Collector
<1> QED
  BY <1>1, <1>2, RaceInvariant, PTL DEF Spec
=============================================================================
