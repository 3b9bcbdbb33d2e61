---------------------------- MODULE BreakerProofs ----------------------------
(***************************************************************************)
(* Proofs about Breaker, for every set of callers and every setting.       *)
(*                                                                         *)
(* SlotInv is the inductive invariant behind the probe properties.  Its    *)
(* heart is the last conjunct: a call admitted before the trip and still   *)
(* in flight is younger than the cooldown it runs in, so that with Timely  *)
(* the cooldown cannot be over before the call is.                         *)
(***************************************************************************)
EXTENDS Breaker, TLAPS

SlotInv ==
  /\ TypeOK
  /\ SlotTracksProbe
  /\ SingleProbe
  /\ \A c \in Probes : open /\ cool = 0 /\ age[c] = probeAge
  /\ open => \A c \in Callers :
               call[c] = "fetch" => age[c] + cool >= BaseCooldown

-----------------------------------------------------------------------------
\* Breaker.cooldown (breaker.go:81-90) stays between its two settings.
LEMMA CooldownRange ==
  ASSUME NEW n \in Int
  PROVE  Cooldown(n) \in BaseCooldown..MaxCooldown
<1> DEFINE d == BaseCooldown * 2^(n - 1)
<1>1. MaxCooldown \in BaseCooldown..MaxCooldown
  BY BreakerAssumption DEF BreakerAssumption
<1>2. CASE d \in BaseCooldown..MaxCooldown
  BY <1>2 DEF Cooldown
<1>3. CASE d \notin BaseCooldown..MaxCooldown
  BY <1>1, <1>3 DEF Cooldown
<1>4. QED
  BY <1>2, <1>3

LEMMA SaturateRange ==
  ASSUME NEW top \in Nat, NEW n \in 0..top
  PROVE  Saturate(n, top) \in 0..top
BY DEF Saturate

\* A call that lands is the only one whose state changes.
LEMMA LandTypes ==
  ASSUME TypeOK, NEW c \in Callers, Land(c)
  PROVE  /\ call' \in [Callers -> CallState]
         /\ age' \in [Callers -> 0..MaxFlight]
BY DEF TypeOK, Land, CallState

LEMMA TypeCorrectInit == Init => TypeOK
<1>1. Init => open \in BOOLEAN /\ probing \in BOOLEAN
  BY DEF Init
<1>2. QED
  BY <1>1, BreakerAssumption DEF BreakerAssumption, Init, TypeOK, CallState

-----------------------------------------------------------------------------
\* Type correctness: the timers never leave their range (breaker.go:36-43).
THEOREM TypeCorrect == Spec => []TypeOK
<1>1. Init => TypeOK
  BY TypeCorrectInit
<1>2. TypeOK /\ [Next]_vars => TypeOK'
  <2> SUFFICES ASSUME TypeOK, [Next]_vars
               PROVE  TypeOK'
    OBVIOUS
  <2> USE BreakerAssumption DEF BreakerAssumption
  <2>1. CASE Tick
    <3>1. cool' \in 0..MaxCooldown
      BY <2>1 DEF Tick, TypeOK
    <3>2. probeAge' \in 0..ProbeTimeout
      BY <2>1, SaturateRange DEF Tick, TypeOK
    <3>3. age' \in [Callers -> 0..MaxFlight]
      <4> SUFFICES ASSUME NEW c \in Callers
                   PROVE  (IF Flying(c) THEN age[c] + 1 ELSE age[c])
                            \in 0..MaxFlight
        BY <2>1 DEF Tick
      <4>1. Flying(c) => age[c] < MaxFlight
        BY <2>1 DEF Tick
      <4>2. QED
        BY <4>1 DEF TypeOK
    <3>4. QED
      BY <2>1, <3>1, <3>2, <3>3 DEF Tick, TypeOK
  <2>2. ASSUME NEW c \in Callers, Allow(c) \/ GiveUp(c)
        PROVE  TypeOK'
    <3>1. probing' \in BOOLEAN
      BY <2>2 DEF Allow, AllowClosed, AllowProbe, Refuse, GiveUp, TypeOK
    <3>2. QED
      BY <2>2, <3>1 DEF Allow, AllowClosed, AllowProbe, Refuse, GiveUp,
                        TypeOK, CallState
  <2>3. ASSUME NEW c \in Callers, ReportOk(c)
        PROVE  TypeOK'
    <3>1. open' \in BOOLEAN /\ probing' \in BOOLEAN
      BY <2>3 DEF ReportOk
    <3>2. QED
      BY <2>3, <3>1, LandTypes DEF ReportOk, TypeOK
  <2>4. ASSUME NEW c \in Callers, ReportFailClosed(c)
        PROVE  TypeOK'
    <3>1. failures' \in 0..Threshold
      BY <2>4, SaturateRange DEF ReportFailClosed, TypeOK
    <3>2. Cooldown(1) \in 0..MaxCooldown
      BY CooldownRange
    <3>3. open' \in BOOLEAN /\ probing' \in BOOLEAN
      BY <2>4, Zenon DEF ReportFailClosed, TypeOK
    <3>4. QED
      BY <2>4, <3>1, <3>2, <3>3, LandTypes DEF ReportFailClosed, TypeOK
  <2>5. ASSUME NEW c \in Callers, ReportFailOpen(c)
        PROVE  TypeOK'
    <3>1. failures' \in 0..Threshold
      BY <2>5, SaturateRange DEF ReportFailOpen, TypeOK
    <3>2. trips' \in 0..MaxTrips
      BY <2>5, SaturateRange DEF ReportFailOpen, TypeOK
    <3>3. Cooldown(trips') \in 0..MaxCooldown
      BY <3>2, CooldownRange
    <3>4. QED
      BY <2>5, <3>1, <3>2, <3>3, LandTypes DEF ReportFailOpen, TypeOK
  <2>6. ASSUME NEW c \in Callers, Neutral(c)
        PROVE  TypeOK'
    BY <2>6, LandTypes DEF Neutral, TypeOK
  <2>7. CASE UNCHANGED vars
    BY <2>7 DEF vars, TypeOK
  <2>8. QED
    BY <2>1, <2>2, <2>3, <2>4, <2>5, <2>6, <2>7 DEF Next, Report
<1>3. QED
  BY <1>1, <1>2, PTL DEF Spec

\* A breaker is never left closed at or above the threshold
\* (breaker.go:118-149), whatever late reports arrive.
THEOREM StaysClosedBelowThreshold == Spec => []ClosedBelowThreshold
<1>1. Init => ClosedBelowThreshold
  BY BreakerAssumption DEF BreakerAssumption, Init, ClosedBelowThreshold
<1>2. TypeOK /\ ClosedBelowThreshold /\ [Next]_vars => ClosedBelowThreshold'
  <2> SUFFICES ASSUME TypeOK, ClosedBelowThreshold, [Next]_vars
               PROVE  ClosedBelowThreshold'
    OBVIOUS
  <2> USE BreakerAssumption DEF BreakerAssumption, ClosedBelowThreshold
  <2>1. CASE Tick \/ UNCHANGED vars
    BY <2>1 DEF Tick, vars
  <2>2. ASSUME NEW c \in Callers,
               Allow(c) \/ GiveUp(c) \/ Neutral(c)
        PROVE  ClosedBelowThreshold'
    BY <2>2 DEF Allow, AllowClosed, AllowProbe, Refuse, GiveUp, Neutral
  <2>3. ASSUME NEW c \in Callers, ReportOk(c)
        PROVE  ClosedBelowThreshold'
    BY <2>3 DEF ReportOk
  <2>4. ASSUME NEW c \in Callers, ReportFailClosed(c)
        PROVE  ClosedBelowThreshold'
    <3>1. failures' \in 0..Threshold
      BY <2>4, SaturateRange DEF ReportFailClosed, TypeOK
    <3>2. QED
      BY <2>4, <3>1 DEF ReportFailClosed
  <2>5. ASSUME NEW c \in Callers, ReportFailOpen(c)
        PROVE  ClosedBelowThreshold'
    BY <2>5 DEF ReportFailOpen
  <2>6. QED
    BY <2>1, <2>2, <2>3, <2>4, <2>5 DEF Next, Report
<1>3. QED
  BY <1>1, <1>2, TypeCorrect, PTL DEF Spec

-----------------------------------------------------------------------------
LEMMA SlotInvInit == Init => SlotInv
<1>1. Init => TypeOK
  BY TypeCorrectInit
<1>2. QED
  BY <1>1 DEF Init, SlotInv, SlotTracksProbe, SingleProbe, Probes

LEMMA SlotInvStep ==
  ASSUME Timely, SlotInv, TypeOK', [Next]_vars
  PROVE  SlotInv'
<1> USE BreakerAssumption DEF BreakerAssumption, SlotInv, SlotTracksProbe, SingleProbe, Probes
<1>1. CASE Tick
  <2>1. \A c \in Callers : call[c] = "probe" => probeAge' = age'[c]
    BY <1>1 DEF Tick, Flying, Saturate, TypeOK, Timely
  <2>2. ASSUME open, NEW c \in Callers, call[c] = "fetch"
        PROVE  age'[c] + cool' >= BaseCooldown
    <3>1. age[c] < MaxFlight /\ age'[c] = age[c] + 1
      BY <1>1, <2>2 DEF Tick, Flying, TypeOK
    <3>2. cool > 0
      BY <2>2, <3>1 DEF TypeOK, Timely
    <3>3. QED
      BY <1>1, <2>2, <3>1, <3>2 DEF Tick, TypeOK
  <2>3. QED
    BY <1>1, <2>1, <2>2 DEF Tick, TypeOK
<1>2. ASSUME NEW c \in Callers, AllowClosed(c)
      PROVE  SlotInv'
  BY <1>2 DEF AllowClosed, TypeOK
<1>3. ASSUME NEW c \in Callers, AllowProbe(c)
      PROVE  SlotInv'
  <2>1. Probes = {}
    BY <1>3 DEF AllowProbe, SlotFree, TypeOK, Timely
  <2>2. \A d \in Callers : call[d] # "fetch"
    BY <1>3 DEF AllowProbe, TypeOK, Timely
  <2>3. QED
    BY <1>3, <2>1, <2>2 DEF AllowProbe, TypeOK
<1>4. ASSUME NEW c \in Callers, Refuse(c) \/ GiveUp(c)
      PROVE  SlotInv'
  BY <1>4 DEF Refuse, GiveUp, TypeOK
<1>5. ASSUME NEW c \in Callers, Land(c), call[c] = "fetch", open
      PROVE  Probes = {} /\ Probes' = {}
  BY <1>5 DEF Land, TypeOK, Timely
<1>6. ASSUME NEW c \in Callers, Land(c), call[c] = "probe"
      PROVE  Probes' = {}
  BY <1>6 DEF Land, TypeOK
<1>7. ASSUME NEW c \in Callers, Land(c)
      PROVE  Probes' = {}
  <2>1. CASE open
    BY <1>5, <1>6, <1>7, <2>1 DEF Land, Flying
  <2>2. CASE ~open
    BY <1>7, <2>2 DEF Land, TypeOK
  <2>3. QED
    BY <2>1, <2>2
<1>8. ASSUME NEW c \in Callers, Land(c)
      PROVE  \A d \in Callers : call'[d] = "fetch" =>
               call[d] = "fetch" /\ age'[d] = age[d]
  BY <1>8 DEF Land, TypeOK
<1>9. ASSUME NEW c \in Callers, ReportOk(c)
      PROVE  SlotInv'
  BY <1>7, <1>9 DEF ReportOk
<1>10. ASSUME NEW c \in Callers, ReportFailClosed(c)
       PROVE  SlotInv'
  <2>1. Probes' = {} /\ ~probing'
    BY <1>7, <1>10 DEF ReportFailClosed, TypeOK
  <2>2. ASSUME open'
        PROVE  \A d \in Callers :
                 call'[d] = "fetch" => age'[d] + cool' >= BaseCooldown
    <3>1. cool' = Cooldown(1)
      BY <1>10, <2>2 DEF ReportFailClosed
    <3>2. cool' \in BaseCooldown..MaxCooldown
      BY <3>1, CooldownRange
    <3>3. QED
      BY <3>2 DEF TypeOK
  <2>3. QED
    BY <2>1, <2>2
<1>11. ASSUME NEW c \in Callers, ReportFailOpen(c)
       PROVE  SlotInv'
  <2>1. Probes' = {}
    BY <1>7, <1>11 DEF ReportFailOpen
  <2>2. CASE probing
    <3>1. \A d \in Callers : call[d] # "fetch"
      BY <1>11, <2>2 DEF ReportFailOpen, TypeOK, Timely
    <3>2. \A d \in Callers : call'[d] # "fetch"
      BY <1>8, <1>11, <3>1 DEF ReportFailOpen
    <3>3. QED
      BY <1>11, <2>1, <2>2, <3>2 DEF ReportFailOpen
  <2>3. CASE ~probing
    BY <1>8, <1>11, <2>1, <2>3 DEF ReportFailOpen
  <2>4. QED
    BY <2>2, <2>3
<1>12. ASSUME NEW c \in Callers, Neutral(c)
       PROVE  SlotInv'
  BY <1>7, <1>8, <1>12 DEF Neutral
<1>13. CASE UNCHANGED vars
  BY <1>13 DEF vars, TypeOK
<1>14. QED
  BY <1>1, <1>2, <1>3, <1>4, <1>9, <1>10, <1>11, <1>12, <1>13
     DEF Next, Allow, Report

LEMMA SlotInvariant == ASSUME Timely PROVE Spec => []SlotInv
<1>1. Init => SlotInv
  BY SlotInvInit
<1>2. SlotInv /\ TypeOK' /\ [Next]_vars => SlotInv'
  BY SlotInvStep, Timely
<1>3. QED
  BY <1>1, <1>2, TypeCorrect, PTL DEF Spec

-----------------------------------------------------------------------------
\* With the deployed timing at most one probe is in flight: "let a single
\* probe through" (breaker.go:108) holds although the code frees the probe
\* slot without knowing who reports.
THEOREM AtMostOneProbe == ASSUME Timely PROVE Spec => []SingleProbe
<1>1. SlotInv => SingleProbe
  BY DEF SlotInv
<1>2. QED
  BY <1>1, SlotInvariant, PTL

\* With the deployed timing the slot is taken exactly while the probe is in
\* flight: it never leaks and is never freed early (breaker.go:109-113,
\* 129, 139, 160).
THEOREM SlotIsExact == ASSUME Timely PROVE Spec => []SlotTracksProbe
<1>1. SlotInv => SlotTracksProbe
  BY DEF SlotInv
<1>2. QED
  BY <1>1, SlotInvariant, PTL

\* With the deployed timing no straggler is left when the cooldown is over.
THEOREM NoStragglers == ASSUME Timely PROVE Spec => []NoStragglersWhenHalfOpen
<1>1. SlotInv => NoStragglersWhenHalfOpen
  BY BreakerAssumption, Timely
     DEF BreakerAssumption, SlotInv, NoStragglersWhenHalfOpen, TypeOK, Timely
<1>2. QED
  BY <1>1, SlotInvariant, PTL

\* With the deployed timing "only a failed probe extends the cooldown"
\* (breaker.go:134): the comment is true of the shipped settings.
THEOREM StragglersAreIgnored == ASSUME Timely PROVE Spec => OnlyProbesExtend
<1>1. SlotInv /\ [Next]_vars =>
        [open /\ open' /\ cool' > cool
           => \E c \in Probes : call'[c] = "idle"]_vars
  <2> SUFFICES ASSUME SlotInv, Next, open, open', cool' > cool
               PROVE  \E c \in Probes : call'[c] = "idle"
    OBVIOUS
  <2> USE BreakerAssumption DEF BreakerAssumption, SlotInv
  <2>1. PICK c \in Callers : ReportFailOpen(c)
    BY DEF Next, Allow, AllowClosed, AllowProbe, Refuse, GiveUp, Report,
           ReportOk, ReportFailClosed, Neutral, Tick, TypeOK
  <2>2. probing
    BY <2>1 DEF ReportFailOpen, TypeOK
  <2>3. call[c] # "fetch"
    BY <2>2 DEF SlotTracksProbe, TypeOK, Timely, Probes
  <2>4. c \in Probes /\ call'[c] = "idle"
    BY <2>1, <2>3 DEF ReportFailOpen, Land, Flying, Probes, TypeOK
  <2>5. QED
    BY <2>4
<1>2. QED
  BY <1>1, SlotInvariant, PTL DEF Spec, OnlyProbesExtend
=============================================================================
