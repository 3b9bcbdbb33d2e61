----------------------------- MODULE DedupProofs -----------------------------
(***************************************************************************)
(* Proofs about Dedup, for every finite set of callers.                    *)
(*                                                                         *)
(* FlightInv is the inductive invariant.  Besides the properties it says   *)
(* that a live race always has its cancel in the tracker, which is what    *)
(* lets the last waiter stop it.                                           *)
(***************************************************************************)
EXTENDS Dedup, FiniteSetTheorems, TLAPS

Armed == flight = "racing" /\ ctx = "live" => cancels = "own"

\* A race that returned has an answer.
Decided == flight \in {"raced", "cleared"} => value \in Outcome

\* Who leaves has its answer.
Told == \A c \in Callers : pc[c] = "leaving" => got[c] # "none"

FlightInv ==
  /\ TypeOK
  /\ WaitersExact
  /\ Armed
  /\ NoOrphan
  /\ CancelIsOwn
  /\ Decided
  /\ Told

-----------------------------------------------------------------------------
\* Type correctness of the tracker and the flight (singleflight.go:22-34).
THEOREM TypeCorrect == Spec => []TypeOK
<1>1. Init => TypeOK
  BY DEF Init, TypeOK
<1>2. TypeOK /\ [Next]_vars => TypeOK'
  <2> SUFFICES ASSUME TypeOK, [Next]_vars
               PROVE  TypeOK'
    OBVIOUS
  <2> USE DEF TypeOK, Outcome
  <2>1. ASSUME NEW c \in Callers, Enter(c) \/ Take(c) \/ Desert(c)
        PROVE  TypeOK'
    BY <2>1 DEF Enter, Take, Desert
  <2>2. ASSUME NEW c \in Callers, Join(c)
        PROVE  TypeOK'
    BY <2>2 DEF Join
  <2>3. ASSUME NEW c \in Callers, Leave(c)
        PROVE  TypeOK'
    BY <2>3 DEF Leave, Cancel
  <2>4. CASE Register
    BY <2>4 DEF Register, Cancel
  <2>5. CASE RaceReturns \/ Expire
    BY <2>5 DEF RaceReturns, Expire
  <2>6. CASE ClearCancel
    BY <2>6 DEF ClearCancel, Cancel
  <2>7. CASE Publish
    BY <2>7 DEF Publish
  <2>8. CASE UNCHANGED vars
    BY <2>8 DEF vars
  <2>9. QED
    BY <2>1, <2>2, <2>3, <2>4, <2>5, <2>6, <2>7, <2>8 DEF Next, Get, Fly
<1>3. QED
  BY <1>1, <1>2, PTL DEF Spec

\* The callers inside are finitely many, so that they can be counted.
LEMMA InsideFinite == IsFiniteSet(Inside)
BY CallersAssumption, FS_Subset DEF CallersAssumption, Inside

LEMMA InsideNextFinite == IsFiniteSet(Inside')
BY CallersAssumption, FS_Subset DEF CallersAssumption, Inside

-----------------------------------------------------------------------------
(* The tracker's count *)

\* enter adds the caller to those inside.
LEMMA EnterCounts ==
  ASSUME TypeOK, WaitersExact, NEW c \in Callers, Enter(c)
  PROVE  WaitersExact'
<1>1. Inside' = Inside \cup {c}
  BY DEF Enter, Inside, TypeOK
<1>2. c \notin Inside
  BY DEF Enter, Inside
<1>3. Cardinality(Inside') = Cardinality(Inside) + 1
  BY <1>1, <1>2, InsideFinite, FS_AddElement
<1>4. QED
  BY <1>3 DEF WaitersExact, Enter

\* leave removes it, and the count cannot go below zero while it is inside.
LEMMA LeaveCounts ==
  ASSUME TypeOK, WaitersExact, NEW c \in Callers, Leave(c)
  PROVE  WaitersExact'
<1>1. Inside' = Inside \ {c}
  BY DEF Leave, Inside, TypeOK
<1>2. c \in Inside
  BY DEF Leave, Inside
<1>3. Cardinality(Inside') = Cardinality(Inside) - 1
  BY <1>1, <1>2, InsideFinite, FS_RemoveElement
<1>4. Cardinality(Inside') \in Nat /\ Cardinality(Inside) \in Nat
  BY InsideFinite, InsideNextFinite, FS_CardinalityType
<1>5. waiters' = waiters - 1
  BY <1>3, <1>4 DEF WaitersExact, Leave
<1>6. QED
  BY <1>3, <1>5 DEF WaitersExact

\* Nothing else moves a caller in or out.
LEMMA OthersKeepCount ==
  ASSUME TypeOK, WaitersExact,
         \/ \E c \in Callers : Join(c) \/ Take(c) \/ Desert(c)
         \/ Fly \/ Expire
         \/ UNCHANGED vars
  PROVE  WaitersExact'
<1>1. Inside' = Inside /\ waiters' = waiters
  <2>1. ASSUME NEW c \in Callers, Join(c) \/ Take(c) \/ Desert(c)
        PROVE  Inside' = Inside /\ waiters' = waiters
    BY <2>1 DEF Join, Take, Desert, Inside, TypeOK
  <2>2. CASE Fly \/ Expire \/ UNCHANGED vars
    BY <2>2 DEF Fly, Register, RaceReturns, ClearCancel, Publish, Expire,
                vars, Inside
  <2>3. QED
    BY <2>1, <2>2
<1>2. QED
  BY <1>1 DEF WaitersExact

-----------------------------------------------------------------------------
LEMMA FlightInvInit == Init => FlightInv
<1> SUFFICES ASSUME Init
             PROVE  FlightInv
  OBVIOUS
<1>1. TypeOK
  BY DEF Init, TypeOK
<1>2. WaitersExact
  <2>1. Inside = {}
    BY DEF Init, Inside
  <2>2. QED
    BY <2>1, FS_EmptySet DEF Init, WaitersExact
<1>3. QED
  BY <1>1, <1>2 DEF Init, FlightInv, Armed, NoOrphan, CancelIsOwn, Decided,
                             Told

LEMMA FlightInvStep ==
  ASSUME FlightInv, [Next]_vars, TypeOK'
  PROVE  FlightInv'
<1> USE DEF FlightInv, TypeOK, Armed, NoOrphan, CancelIsOwn, Decided,
                             Told
<1>1. WaitersExact'
  BY EnterCounts, LeaveCounts, OthersKeepCount DEF Next, Get
<1>2. ASSUME NEW c \in Callers, Enter(c) \/ Take(c) \/ Desert(c)
      PROVE  FlightInv'
  BY <1>1, <1>2 DEF Enter, Take, Desert
<1>3. ASSUME NEW c \in Callers, Join(c)
      PROVE  FlightInv'
  BY <1>1, <1>3 DEF Join
<1>4. ASSUME NEW c \in Callers, Leave(c)
      PROVE  FlightInv'
  BY <1>1, <1>4 DEF Leave, Cancel
<1>5. CASE Register
  BY <1>1, <1>5 DEF Register, Cancel
<1>6. CASE RaceReturns \/ Expire
  BY <1>1, <1>6 DEF RaceReturns, Expire, Outcome
<1>7. CASE ClearCancel
  BY <1>1, <1>7 DEF ClearCancel, Cancel
<1>8. CASE Publish
  BY <1>1, <1>8 DEF Publish, Outcome
<1>9. CASE UNCHANGED vars
  BY <1>1, <1>9 DEF vars
<1>10. QED
  BY <1>2, <1>3, <1>4, <1>5, <1>6, <1>7, <1>8, <1>9 DEF Next, Get, Fly

THEOREM FlightInvariant == Spec => []FlightInv
<1>1. Init => FlightInv
  BY FlightInvInit
<1>2. FlightInv /\ [Next]_vars /\ TypeOK' => FlightInv'
  BY FlightInvStep
<1>3. QED
  BY <1>1, <1>2, TypeCorrect, PTL DEF Spec

-----------------------------------------------------------------------------
(* The properties *)

\* The tracker's count is exact, whatever the order of arrivals and
\* departures (singleflight.go:36-60).
THEOREM CountIsExact == Spec => []WaitersExact
BY FlightInvariant, PTL DEF FlightInv

\* An abandoned race is never left running (singleflight.go:47-71).
THEOREM AbandonedRaceStops == Spec => []NoOrphan
BY FlightInvariant, PTL DEF FlightInv

\* The cancel in the tracker is that of the flight in the group
\* (singleflight.go:62-77).
THEOREM CancelIsCurrent == Spec => []CancelIsOwn
BY FlightInvariant, PTL DEF FlightInv

\* A race is cancelled only in a step that leaves nobody waiting
\* (singleflight.go:47-71).
THEOREM CancelNeedsNobody == Spec => CancelledOnlyWhenAlone
<1>1. FlightInv /\ FlightInv' /\ [Next]_vars
        => [ctx = "live" /\ ctx' = "canceled" /\ flight' = "racing"
              => waiters' = 0 /\ Inside' = {}]_vars
  <2> SUFFICES ASSUME FlightInv, FlightInv', Next,
                      ctx = "live", ctx' = "canceled", flight' = "racing"
               PROVE  waiters' = 0 /\ Inside' = {}
    BY DEF vars
  <2>1. waiters' = 0
    <3>1. (\E c \in Callers : Leave(c)) \/ Register
      BY DEF Next, Get, Fly, Enter, Join, Take, Desert, RaceReturns,
             ClearCancel, Publish, Expire
    <3>2. QED
      BY <3>1 DEF Leave, Register, Cancel, FlightInv, TypeOK
  <2>2. Cardinality(Inside') = 0
    BY <2>1 DEF FlightInv, WaitersExact
  <2>3. QED
    BY <2>1, <2>2, InsideNextFinite, FS_EmptySet
<1>2. QED
  BY <1>1, FlightInvariant, PTL DEF Spec, CancelledOnlyWhenAlone

-----------------------------------------------------------------------------
(* The refinement *)

\* Where SharedFetch sees a caller, and the search.
LEMMA MappedInit == Init => Shared!Init
BY DEF Init, Shared!Init, Place, Search

\* When the tracker counts nobody, nobody is inside.
LEMMA NobodyInside ==
  ASSUME TypeOK', WaitersExact', waiters' = 0
  PROVE  \A d \in Callers : pc'[d] = "idle"
<1>1. Inside' = {}
  BY InsideNextFinite, FS_EmptySet DEF WaitersExact
<1>2. QED
  BY <1>1 DEF Inside

\* A caller's step is a step of SharedFetch; taking the answer is a stutter.
LEMMA CallerStepMaps ==
  ASSUME FlightInv, FlightInv', NEW c \in Callers,
         Enter(c) \/ Join(c) \/ Take(c) \/ Desert(c)
  PROVE  [Shared!Next]_(Shared!sharedVars)
<1> USE DEF FlightInv, TypeOK, Decided, Told, Place, Search, UnderWay
<1>1. CASE Enter(c)
  <2>1. Shared!Ask(c)
    BY <1>1 DEF Enter, Shared!Ask
  <2>2. QED
    BY <2>1 DEF Shared!Next
<1>2. CASE Join(c)
  <2>1. Shared!Share(c)
    BY <1>2 DEF Join, Shared!Share, Outcome
  <2>2. QED
    BY <2>1 DEF Shared!Next
<1>3. CASE Take(c)
  BY <1>3 DEF Take, Shared!sharedVars
<1>4. CASE Desert(c)
  <2>1. Shared!GiveUp(c)
    BY <1>4 DEF Desert, Shared!GiveUp
  <2>2. QED
    BY <2>1 DEF Shared!Next
<1>5. QED
  BY <1>1, <1>2, <1>3, <1>4

\* The flight's steps: only the one that finds nobody waiting gives it up.
LEMMA FlightStepMaps ==
  ASSUME FlightInv, FlightInv', Fly \/ Expire
  PROVE  [Shared!Next]_(Shared!sharedVars)
<1> USE DEF FlightInv, TypeOK, Decided, Told, Place, Search, UnderWay
<1>1. CASE Register
  <2>1. CASE waiters > 0
    BY <1>1, <2>1 DEF Register, Shared!sharedVars
  <2>2. CASE ~(waiters > 0)
    <3>1. waiters' = 0
      BY <1>1, <2>2 DEF Register
    <3>2. \A d \in Callers : pc[d] = "idle"
      BY <1>1, <3>1, NobodyInside DEF Register
    <3>3. CASE ctx = "live"
      <4>1. Shared!Abandon
        BY <1>1, <2>2, <3>2, <3>3 DEF Register, Cancel, Shared!Abandon
      <4>2. QED
        BY <4>1 DEF Shared!Next
    <3>4. CASE ctx # "live"
      BY <1>1, <2>2, <3>4 DEF Register, Cancel, Shared!sharedVars
    <3>5. QED
      BY <3>3, <3>4
  <2>3. QED
    BY <2>1, <2>2
<1>2. CASE RaceReturns
  <2>1. Shared!Decide
    BY <1>2 DEF RaceReturns, Outcome, Shared!Decide, Shared!Answers
  <2>2. QED
    BY <2>1 DEF Shared!Next
<1>3. CASE ClearCancel
  BY <1>3 DEF ClearCancel, Shared!sharedVars
<1>4. CASE Publish
  <2>1. Search \in Shared!Answers /\ Search = value
    BY <1>4 DEF Publish, Outcome, Shared!Answers
  <2>2. Search' = "none" /\ UNCHANGED Place
    BY <1>4 DEF Publish
  <2>3. \A c \in Callers : Place[c] = "sharing" /\ got[c] = "none"
                            <=> pc[c] = "waiting" /\ got[c] = "none"
    OBVIOUS
  <2>4. got' = [c \in Callers |->
          IF Place[c] = "sharing" /\ got[c] = "none" THEN Search ELSE got[c]]
    BY <1>4, <2>1, <2>3, Zenon DEF Publish
  <2>5. Shared!Deliver
    BY <2>1, <2>2, <2>4 DEF Shared!Deliver
  <2>6. QED
    BY <2>5 DEF Shared!Next
<1>5. CASE Expire
  <2>1. Shared!Expire
    BY <1>5 DEF Expire, Shared!Expire
  <2>2. QED
    BY <2>1 DEF Shared!Next
<1>6. QED
  BY <1>1, <1>2, <1>3, <1>4, <1>5 DEF Fly

\* The last to leave may stop the search, and nobody else may.
LEMMA LeaveMaps ==
  ASSUME FlightInv, FlightInv', NEW c \in Callers, Leave(c)
  PROVE  Shared!Return(c)
<1> USE DEF FlightInv, TypeOK, Told, Place, Search, UnderWay
<1>1. /\ Place[c] = "sharing"
      /\ got[c] # "none"
      /\ Place' = [Place EXCEPT ![c] = "out"]
      /\ UNCHANGED got
  BY DEF Leave
<1>2. CASE waiters' = 0
  <2>1. \A d \in Callers : Place'[d] = "out"
    BY <1>2, NobodyInside
  <2>2. Search' \in IF Search = "running" THEN {"running", "abandoned"}
                                          ELSE {Search}
    BY <1>2 DEF Leave, Cancel, CancelIsOwn
  <2>3. QED
    BY <1>1, <2>1, <2>2 DEF Shared!Return, Shared!Unwatched
<1>3. CASE waiters' # 0
  <2>1. PICK d \in Callers : pc'[d] # "idle"
    <3>1. Inside' # {}
      BY <1>3, FS_EmptySet DEF WaitersExact
    <3>2. QED
      BY <3>1 DEF Inside
  <2>2. Place'[d] # "out"
    BY <2>1
  <2>3. UNCHANGED Search
    BY <1>3 DEF Leave
  <2>4. QED
    BY <1>1, <2>2, <2>3 DEF Shared!Return
<1>4. QED
  BY <1>2, <1>3

\* Dedup implements SharedFetch: what the tracker and the flight do, seen from
\* outside, is one search shared by all who ask, which nobody can stop while
\* another still waits for it (singleflight.go:36-129).
THEOREM DedupImplementsShared == Spec => ImplementsShared
<1>1. FlightInv /\ FlightInv' /\ [Next]_vars => [Shared!Next]_(Shared!sharedVars)
  <2> SUFFICES ASSUME FlightInv, FlightInv', [Next]_vars
               PROVE  [Shared!Next]_(Shared!sharedVars)
    OBVIOUS
  <2>1. ASSUME NEW c \in Callers, Leave(c)
        PROVE  [Shared!Next]_(Shared!sharedVars)
    <3>1. Shared!Return(c)
      BY <2>1, LeaveMaps
    <3>2. QED
      BY <3>1 DEF Shared!Next
  <2>2. CASE UNCHANGED vars
    BY <2>2 DEF vars, Shared!sharedVars, Place, Search, UnderWay
  <2>3. QED
    BY <2>1, <2>2, CallerStepMaps, FlightStepMaps DEF Next, Get
<1>2. QED
  BY <1>1, MappedInit, FlightInvariant, PTL
     DEF Spec, ImplementsShared, Shared!Spec
=============================================================================
