------------------------------- MODULE Breaker -------------------------------
(***************************************************************************)
(* The circuit breaker of one lyrics provider                              *)
(* (internal/orchestrator/breaker.go).  Provider names are independent     *)
(* keys of Breaker.st, and every method runs under Breaker.mu, so one      *)
(* provider's breakerState and one action per method call are enough.      *)
(*                                                                         *)
(* Its callers are the fetches of the race (race.go, tryFetch) and the     *)
(* guarded line sources of qaple (providers/provider.go): each asks Allow, *)
(* and every admitted call ends with exactly one Report or Neutral.        *)
(*                                                                         *)
(* Time is kept as timers instead of instants, so that no clock has to be  *)
(* bounded: cool is openUntil - now, floored at 0, and probeAge is         *)
(* now - probeAt, capped at ProbeTimeout, past which no decision of the    *)
(* code depends on it.                                                     *)
(***************************************************************************)
EXTENDS Integers, FiniteSets

CONSTANTS
  Callers,       \* goroutines that may call the provider
  Threshold,     \* BreakerConfig.Threshold
  BaseCooldown,  \* BreakerConfig.BaseCooldown, in ticks
  MaxCooldown,   \* BreakerConfig.MaxCooldown, in ticks
  ProbeTimeout,  \* BreakerConfig.ProbeTimeout, in ticks
  MaxFlight,     \* a call's context ends it after this many ticks
  MaxTrips       \* trips past which the cooldown no longer grows

(***************************************************************************)
(* NewBreaker replaces every non-positive setting by a default and raises  *)
(* MaxCooldown to BaseCooldown.                                            *)
(***************************************************************************)
ASSUME BreakerAssumption ==
  /\ Threshold \in Nat \ {0}
  /\ BaseCooldown \in Nat \ {0}
  /\ MaxCooldown \in Nat
  /\ MaxCooldown >= BaseCooldown
  /\ ProbeTimeout \in Nat \ {0}
  /\ MaxFlight \in Nat \ {0}
  /\ MaxTrips \in Nat \ {0}

\* The bound on trips hides nothing: at MaxTrips the cooldown is the maximum.
ASSUME MaxTripsAssumption == BaseCooldown * 2^(MaxTrips - 1) >= MaxCooldown

VARIABLES
  failures,  \* consecutive failures, saturating at Threshold
  trips,     \* consecutive trips, saturating at MaxTrips
  open,      \* breakerState.open
  cool,      \* ticks left until openUntil
  probing,   \* breakerState.probing: the probe slot is taken
  probeAge,  \* ticks since probeAt
  call,      \* what each caller is doing
  age        \* ticks since the caller was admitted

vars == <<failures, trips, open, cool, probing, probeAge, call, age>>

(***************************************************************************)
(* "fetch" is a call admitted while the breaker was closed, "probe" one    *)
(* admitted by the half-open breaker, "skip" a refused one.  The code does *)
(* not tell fetch from probe: that is what the properties are about.       *)
(***************************************************************************)
CallState == {"idle", "fetch", "probe", "skip"}

TypeOK ==
  /\ failures \in 0..Threshold
  /\ trips \in 0..MaxTrips
  /\ open \in BOOLEAN
  /\ cool \in 0..MaxCooldown
  /\ probing \in BOOLEAN
  /\ probeAge \in 0..ProbeTimeout
  /\ call \in [Callers -> CallState]
  /\ age \in [Callers -> 0..MaxFlight]

-----------------------------------------------------------------------------
(***************************************************************************)
(* The loop of Breaker.cooldown in closed form: the base doubled once per  *)
(* trip after the first, clamped to the maximum.                           *)
(***************************************************************************)
Cooldown(n) ==
  LET d == BaseCooldown * 2^(n - 1)
  IN  IF d \in BaseCooldown..MaxCooldown THEN d ELSE MaxCooldown

Flying(c) == call[c] \in {"fetch", "probe"}

\* Mutant: the slot is not looked at.
SlotIgnored == cool = 0

\* The probe slot is free: nobody holds it, or its holder is overdue.
SlotFree == ~probing \/ probeAge >= ProbeTimeout

Saturate(n, top) == IF n < top THEN n + 1 ELSE top

Init ==
  /\ failures = 0
  /\ trips = 0
  /\ open = FALSE
  /\ cool = 0
  /\ probing = FALSE
  /\ probeAge = 0
  /\ call = [c \in Callers |-> "idle"]
  /\ age = [c \in Callers |-> 0]

-----------------------------------------------------------------------------
(* Allow *)

\* A closed breaker admits everybody.
AllowClosed(c) ==
  /\ call[c] = "idle"
  /\ ~open
  /\ call' = [call EXCEPT ![c] = "fetch"]
  /\ age' = [age EXCEPT ![c] = 0]
  /\ UNCHANGED <<failures, trips, open, cool, probing, probeAge>>

\* Past the cooldown the caller that finds the slot free takes it.
AllowProbe(c) ==
  /\ call[c] = "idle"
  /\ open
  /\ cool = 0
  /\ SlotFree
  /\ probing' = TRUE
  /\ probeAge' = 0
  /\ call' = [call EXCEPT ![c] = "probe"]
  /\ age' = [age EXCEPT ![c] = 0]
  /\ UNCHANGED <<failures, trips, open, cool>>

\* Allow returns false; the race records the source as a degraded SKIP.
Refuse(c) ==
  /\ call[c] = "idle"
  /\ open
  /\ cool > 0 \/ ~SlotFree
  /\ call' = [call EXCEPT ![c] = "skip"]
  /\ UNCHANGED <<failures, trips, open, cool, probing, probeAge, age>>

\* The refused caller goes on with its other sources and may come back.
GiveUp(c) ==
  /\ call[c] = "skip"
  /\ call' = [call EXCEPT ![c] = "idle"]
  /\ UNCHANGED <<failures, trips, open, cool, probing, probeAge, age>>

-----------------------------------------------------------------------------
(* Report and Neutral *)

Land(c) ==
  /\ Flying(c)
  /\ call' = [call EXCEPT ![c] = "idle"]
  /\ UNCHANGED age

\* Mutant: a success while open does not close the breaker.
ReportOkStaysOpen(c) ==
  /\ Land(c)
  /\ failures' = 0
  /\ trips' = 0
  /\ probing' = FALSE
  /\ UNCHANGED <<open, cool, probeAge>>

\* Lyrics, or a clean miss: both say that the provider is healthy.
ReportOk(c) ==
  /\ Land(c)
  /\ failures' = 0
  /\ trips' = 0
  /\ open' = FALSE
  /\ probing' = FALSE
  /\ UNCHANGED <<cool, probeAge>>

\* A failure while closed counts, and the last one allowed trips the breaker.
ReportFailClosed(c) ==
  /\ Land(c)
  /\ ~open
  /\ failures' = Saturate(failures, Threshold)
  /\ IF failures' >= Threshold
       THEN /\ open' = TRUE
            /\ trips' = 1
            /\ cool' = Cooldown(1)
            /\ probing' = FALSE
       ELSE UNCHANGED <<open, trips, cool, probing>>
  /\ UNCHANGED probeAge

\* Mutant: every failure while open extends the cooldown.
StragglerExtends(c) ==
  /\ Land(c)
  /\ open
  /\ failures' = Saturate(failures, Threshold)
  /\ trips' = Saturate(trips, MaxTrips)
  /\ cool' = Cooldown(trips')
  /\ probing' = FALSE
  /\ UNCHANGED <<open, probeAge>>

\* A failure while open extends the cooldown when the slot is taken,
\* whoever it is that failed.
ReportFailOpen(c) ==
  /\ Land(c)
  /\ open
  /\ failures' = Saturate(failures, Threshold)
  /\ IF probing
       THEN /\ trips' = Saturate(trips, MaxTrips)
            /\ cool' = Cooldown(trips')
            /\ probing' = FALSE
       ELSE UNCHANGED <<trips, cool, probing>>
  /\ UNCHANGED <<open, probeAge>>

\* A cancelled or overloaded call says nothing about health: the slot is
\* freed, again whoever holds it.
Neutral(c) ==
  /\ Land(c)
  /\ probing' = FALSE
  /\ UNCHANGED <<failures, trips, open, cool, probeAge>>

-----------------------------------------------------------------------------
(* Time *)

\* One tick passes.  A call never outlives its context, so time waits for
\* the calls that are due.
Tick ==
  /\ \A c \in Callers : Flying(c) => age[c] < MaxFlight
  /\ cool' = IF cool > 0 THEN cool - 1 ELSE 0
  /\ probeAge' = Saturate(probeAge, ProbeTimeout)
  /\ age' = [c \in Callers |-> IF Flying(c) THEN age[c] + 1 ELSE age[c]]
  /\ UNCHANGED <<failures, trips, open, probing, call>>

-----------------------------------------------------------------------------
Allow(c) == AllowClosed(c) \/ AllowProbe(c) \/ Refuse(c)

Report(c) == ReportOk(c) \/ ReportFailClosed(c) \/ ReportFailOpen(c)

Next ==
  \/ Tick
  \/ \E c \in Callers : Allow(c) \/ GiveUp(c) \/ Report(c) \/ Neutral(c)

Spec == Init /\ [][Next]_vars

(***************************************************************************)
(* Time passes, calls end by their deadline, refused callers move on, and  *)
(* requests for this provider keep arriving.  The last one is about the    *)
(* users of the server; the others are what timers and contexts do.        *)
(***************************************************************************)
Fairness ==
  /\ WF_vars(Tick)
  /\ \A c \in Callers :
       /\ WF_vars(Report(c) \/ Neutral(c))
       /\ WF_vars(GiveUp(c))
       /\ WF_vars(Allow(c))

FairSpec == Spec /\ Fairness

-----------------------------------------------------------------------------
(* Properties *)

\* The deployed timing: Provider.Timeout (6s) ends a call before a probe is
\* given up (ProbeTimeout, 12s) and before a cooldown is over (25s or more).
Timely == MaxFlight < ProbeTimeout /\ MaxFlight < BaseCooldown

Probes == {c \in Callers : call[c] = "probe"}

\* "Half-open: let a single probe through" (breaker.go:108): at most one
\* probe is in flight, although Neutral and Report free the slot on behalf
\* of any caller.
SingleProbe == \A c, d \in Probes : c = d

\* The slot is taken exactly while a probe is in flight: it neither leaks,
\* which would block recovery until ProbeTimeout, nor is freed too early.
SlotTracksProbe == probing <=> Probes # {}

\* Once the cooldown is over, no call admitted before the trip is left to
\* report on behalf of the probe.
NoStragglersWhenHalfOpen ==
  open /\ cool = 0 => \A c \in Callers : call[c] # "fetch"

\* The breaker is closed only below the threshold of consecutive failures:
\* no path (late failures, cancelled probes) leaves a failing provider open
\* to traffic.
ClosedBelowThreshold == ~open => failures < Threshold

\* "Only a failed probe extends the cooldown; stragglers that were already
\* in flight when the breaker opened are ignored" (breaker.go:134-135).
OnlyProbesExtend ==
  [][open /\ open' /\ cool' > cool => \E c \in Probes : call'[c] = "idle"]_vars

\* A provider that stops failing (and whose calls are not all cancelled)
\* is eventually served again, and stays so.
RecoversWhenHealthy ==
  <>[][\A c \in Callers : Flying(c) /\ call'[c] = "idle" => ReportOk(c)]_vars
    => <>[](~open)
=============================================================================
