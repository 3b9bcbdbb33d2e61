---------------------------- MODULE ServerProofs ----------------------------
(***************************************************************************)
(* Proofs about the server around the lyrics service: the limiters at the  *)
(* gate, the lockout of the admin routes, the shared credential of an      *)
(* account, the composed source, the fetch from one provider, the life of  *)
(* the process, submissions and the walk over the accounts; for any        *)
(* connections, callers, rules, limits and payloads.                       *)
(***************************************************************************)
EXTENDS Gate, AdminAuth, Submissions, ServerLife, Accounts, Tokens, Fetch, Qaple,
        FiniteSetTheorems, FunctionTheorems, SequenceTheorems, TLAPS

-----------------------------------------------------------------------------
(* Module Gate: the concurrency limiter *)

Spots == {"idle", "screen", "rules", "throttle", "query", "health", "rate", "enter", "busy", "inside"}

Inside == {c \in Conns : at[c] = "inside"}
Busy == {c \in Conns : at[c] = "busy"}

CountInv ==
  /\ at \in [Conns -> Spots]
  /\ inflight = Cardinality(Inside) + Cardinality(Busy)
  /\ MaxConc > 0 => Cardinality(Inside) <= MaxConc

-----------------------------------------------------------------------------
LEMMA CountsAreNat ==
  /\ IsFiniteSet(Inside) /\ Cardinality(Inside) \in Nat
  /\ IsFiniteSet(Busy) /\ Cardinality(Busy) \in Nat
<1>1. Inside \subseteq Conns /\ Busy \subseteq Conns
  BY DEF Inside, Busy
<1>2. IsFiniteSet(Inside) /\ IsFiniteSet(Busy)
  BY <1>1, GateAssumption, FS_Subset
<1> QED
  BY <1>2, FS_CardinalityType

LEMMA InitCount == GateInit => CountInv
<1> SUFFICES ASSUME GateInit PROVE CountInv
  OBVIOUS
<1>1. at \in [Conns -> Spots] /\ Inside = {} /\ Busy = {}
  BY DEF GateInit, Spots, Inside, Busy
<1>2. Cardinality(Inside) = 0 /\ Cardinality(Busy) = 0
  BY <1>1, FS_EmptySet
<1>3. MaxConc \in Int
  BY GateAssumption
<1> QED
  BY <1>1, <1>2, <1>3 DEF GateInit, CountInv

\* A request that moves outside the two ends of the counter.
LEMMA MoveOutside ==
  ASSUME CountInv, NEW c \in Conns, at[c] \notin {"inside", "busy"},
         NEW there \in Spots \ {"inside", "busy"},
         at' = [at EXCEPT ![c] = there], inflight' = inflight
  PROVE  CountInv'
<1>1. Inside' = Inside /\ Busy' = Busy
  BY DEF CountInv, Inside, Busy
<1>2. at' \in [Conns -> Spots]
  BY DEF CountInv
<1>3. /\ inflight' = Cardinality(Inside') + Cardinality(Busy')
      /\ MaxConc > 0 => Cardinality(Inside') <= MaxConc
  BY <1>1 DEF CountInv
<1> QED
  BY <1>2, <1>3 DEF CountInv

\* A request that comes to be counted.
LEMMA ComesIn ==
  ASSUME CountInv, NEW c \in Conns, Enter(c)
  PROVE  CountInv'
<1> USE CountsAreNat
<1>1. MaxConc \in Int /\ inflight \in Int
  BY GateAssumption DEF CountInv
<1>2. c \notin Inside /\ c \notin Busy /\ inflight' = inflight + 1
  BY DEF Enter, Inside, Busy
<1>3. CASE MaxConc > 0 /\ inflight + 1 > MaxConc
  <2>1. at' = [at EXCEPT ![c] = "busy"]
    BY <1>3 DEF Enter, Pass
  <2>2. Inside' = Inside /\ Busy' = Busy \cup {c}
    BY <1>2, <2>1 DEF CountInv, Inside, Busy
  <2>3. Cardinality(Busy \cup {c}) = Cardinality(Busy) + 1
    BY <1>2, FS_AddElement
  <2>4. at' \in [Conns -> Spots]
    BY <2>1 DEF CountInv, Spots
  <2>5. Cardinality(Inside') = Cardinality(Inside) /\ Cardinality(Busy') = Cardinality(Busy) + 1
    BY <2>2, <2>3
  <2> QED
    BY <1>1, <1>2, <2>4, <2>5 DEF CountInv
<1>4. CASE ~(MaxConc > 0 /\ inflight + 1 > MaxConc)
  <2>1. at' = [at EXCEPT ![c] = "inside"]
    BY <1>4 DEF Enter, Pass
  <2>2. Inside' = Inside \cup {c} /\ Busy' = Busy
    BY <1>2, <2>1 DEF CountInv, Inside, Busy
  <2>3. Cardinality(Inside \cup {c}) = Cardinality(Inside) + 1
    BY <1>2, FS_AddElement
  <2>4. at' \in [Conns -> Spots]
    BY <2>1 DEF CountInv, Spots
  <2>5. Cardinality(Inside') = Cardinality(Inside) + 1 /\ Cardinality(Busy') = Cardinality(Busy)
    BY <2>2, <2>3
  <2> QED
    BY <1>1, <1>2, <1>4, <2>4, <2>5 DEF CountInv
<1> QED
  BY <1>3, <1>4

\* A request that was counted and gives its count back.
LEMMA GoesOut ==
  ASSUME CountInv, NEW c \in Conns, at[c] \in {"inside", "busy"},
         at' = [at EXCEPT ![c] = "idle"], inflight' = inflight - 1
  PROVE  CountInv'
<1> USE CountsAreNat
<1>1. MaxConc \in Int /\ inflight \in Int
  BY GateAssumption DEF CountInv
<1>2. at' \in [Conns -> Spots]
  BY DEF CountInv, Spots
<1>3. CASE at[c] = "inside"
  <2>1. Inside' = Inside \ {c} /\ Busy' = Busy /\ c \in Inside
    BY <1>3 DEF CountInv, Inside, Busy
  <2>2. Cardinality(Inside \ {c}) = Cardinality(Inside) - 1
    BY <2>1, FS_RemoveElement
  <2>3. Cardinality(Inside') = Cardinality(Inside) - 1 /\ Cardinality(Busy') = Cardinality(Busy)
    BY <2>1, <2>2
  <2> QED
    BY <1>1, <1>2, <2>3 DEF CountInv
<1>4. CASE at[c] = "busy"
  <2>1. Inside' = Inside /\ Busy' = Busy \ {c} /\ c \in Busy
    BY <1>4 DEF CountInv, Inside, Busy
  <2>2. Cardinality(Busy \ {c}) = Cardinality(Busy) - 1
    BY <2>1, FS_RemoveElement
  <2>3. Cardinality(Inside') = Cardinality(Inside) /\ Cardinality(Busy') = Cardinality(Busy) - 1
    BY <2>1, <2>2
  <2> QED
    BY <1>1, <1>2, <2>3 DEF CountInv
<1> QED
  BY <1>3, <1>4

-----------------------------------------------------------------------------
LEMMA CountStep == CountInv /\ [GateNext]_gateVars => CountInv'
<1> SUFFICES ASSUME CountInv, [GateNext]_gateVars PROVE CountInv'
  OBVIOUS
<1>1. ASSUME NEW c \in Conns, NEW q \in RuleKinds, ArriveAtGate(c, q) PROVE CountInv'
  BY <1>1, MoveOutside DEF ArriveAtGate, Answer, Spots
<1>2. ASSUME NEW c \in Conns, Screen(c) PROVE CountInv'
  <2>1. inflight' = inflight /\ at[c] = "screen"
    BY <1>2 DEF Screen
  <2>2. \E there \in {"idle", "query", "rules"} : at' = [at EXCEPT ![c] = there]
    BY <1>2 DEF Screen, Answer, Pass
  <2> QED
    BY <2>1, <2>2, MoveOutside DEF Spots
<1>3. ASSUME NEW c \in Conns, ApplyRule(c) \/ Throttle(c) PROVE CountInv'
  <2>1. inflight' = inflight /\ at[c] \in {"rules", "throttle"}
    BY <1>3 DEF ApplyRule, Throttle
  <2>2. \E there \in {"idle", "rules", "throttle"} : at' = [at EXCEPT ![c] = there]
    <3>1. CASE ApplyRule(c)
      BY <3>1 DEF ApplyRule, Answer, NextRule, AskLimiter
    <3>2. CASE Throttle(c)
      BY <3>2 DEF Throttle, Answer, NextRule
    <3> QED
      BY <1>3, <3>1, <3>2
  <2> QED
    BY <2>1, <2>2, MoveOutside DEF Spots
<1>4. ASSUME NEW c \in Conns, RulesDone(c) PROVE CountInv'
  BY <1>4, MoveOutside DEF RulesDone, Pass, Spots
<1>5. ASSUME NEW c \in Conns, Query(c) PROVE CountInv'
  <2>1. inflight' = inflight /\ at[c] = "query"
    BY <1>5 DEF Query
  <2>2. \E there \in {"idle", "health", "rate", "enter"} : at' = [at EXCEPT ![c] = there]
    BY <1>5 DEF Query, Answer, Pass, AskLimiter
  <2> QED
    BY <2>1, <2>2, MoveOutside DEF Spots
<1>6. ASSUME NEW c \in Conns, Rate(c) PROVE CountInv'
  <2>1. inflight' = inflight /\ at[c] = "rate"
    BY <1>6 DEF Rate
  <2>2. \E there \in {"idle", "enter"} : at' = [at EXCEPT ![c] = there]
    BY <1>6 DEF Rate, Answer, Pass
  <2> QED
    BY <2>1, <2>2, MoveOutside DEF Spots
<1>7. ASSUME NEW c \in Conns, Enter(c) PROVE CountInv'
  BY <1>7, ComesIn
<1>8. ASSUME NEW c \in Conns, Refuse(c) PROVE CountInv'
  BY <1>8, GoesOut DEF Refuse, Answer
<1>9. ASSUME NEW c \in Conns, \E status \in {200, 500} : Handled(c, status) PROVE CountInv'
  BY <1>9, GoesOut DEF Handled, Answer
<1>10. ASSUME NEW c \in Conns, \E status \in {200, 500} : HealthHandled(c, status) PROVE CountInv'
  <2>1. at' = [at EXCEPT ![c] = "idle"] /\ inflight' = inflight
    BY <1>10 DEF HealthHandled, Answer
  <2>2. at[c] \notin {"inside", "busy"}
    BY <1>10 DEF HealthHandled
  <2>3. "idle" \in Spots \ {"inside", "busy"}
    BY DEF Spots
  <2> QED
    BY <2>1, <2>2, <2>3, MoveOutside
<1>11. CASE GateTick \/ UNCHANGED gateVars
  BY <1>11 DEF GateTick, gateVars, CountInv, Inside, Busy
<1> QED
  BY <1>1, <1>2, <1>3, <1>4, <1>5, <1>6, <1>7, <1>8, <1>9, <1>10, <1>11 DEF GateNext

\* The concurrency limiter's counter is exactly the requests between its
\* addition and its subtraction, and never more than MaxConc of them run a
\* handler, whatever overlaps, is refused or panics (middleware.go:175-199).
THEOREM LimiterCountsExactly == GateSpec => []InflightExact
<1>1. CountInv => InflightExact
  BY DEF CountInv, InflightExact, Inside, Busy
<1> QED
  BY <1>1, InitCount, CountStep, PTL DEF GateSpec

-----------------------------------------------------------------------------
(* Module Gate: the spans of the rate limiters *)

Entry == [start : Int, count : Int, last : Int]

\* The grants of a history H in the window that starts at s, those of them that
\* asked after its start, and the grants in other windows.
OwnGrants(H, s) == {g \in H : g.start = s}
OwnLaterGrants(H, s) == {g \in H : g.start = s /\ g.time > s}
OtherGrants(H, s) == {g \in H : g.start # s}

\* H is a history whose span of W ends at t.
IsSpan(W, t, H) ==
  IsFiniteSet(H) /\ \A g \in H : g.time \in Int /\ t - W < g.time /\ g.time <= t

\* What an entry knows of the grants in the span: all of them were granted in
\* its window or in the one before, whose first has left the span, and none of
\* them asked more than a window after the entry's last use.
KnowsSpan(W, M, e, H) ==
  /\ e.count <= M
  /\ \A g \in H : g.time <= e.last + W /\ g.time < e.start + W
  /\ \A g \in OtherGrants(H, e.start) : g.time < e.start
  /\ Cardinality(OwnGrants(H, e.start)) <= e.count
  /\ Cardinality(OwnLaterGrants(H, e.start)) <= e.count - 1
  /\ Cardinality(OtherGrants(H, e.start)) <= M - 1

FairTo(W, M, t, e, H) ==
  /\ IsSpan(W, t, H)
  /\ IF e = NoEntry THEN H = {} ELSE e.count >= 1 /\ KnowsSpan(W, M, e, H)

SpanInv ==
  /\ clock \in Nat
  /\ came \in [Conns -> Nat]
  /\ \A c \in Conns : came[c] <= clock
  /\ entry \in [Limiters -> [Ips -> Entry]]
  /\ recent = [l \in Limiters |-> [k \in Ips |-> recent[l][k]]]
  /\ ~stalled =>
       \A l \in Limiters, k \in Ips :
         Limit(l) > 0 => FairTo(Window(l), Limit(l), clock, entry[l][k], recent[l][k])

-----------------------------------------------------------------------------
LEMMA GrantPartsFinite ==
  ASSUME NEW H, IsFiniteSet(H), NEW s
  PROVE  /\ IsFiniteSet(OwnGrants(H, s)) /\ IsFiniteSet(OwnLaterGrants(H, s)) /\ IsFiniteSet(OtherGrants(H, s))
         /\ Cardinality(OwnGrants(H, s)) \in Nat /\ Cardinality(OwnLaterGrants(H, s)) \in Nat
         /\ Cardinality(OtherGrants(H, s)) \in Nat
<1>1. OwnGrants(H, s) \subseteq H /\ OwnLaterGrants(H, s) \subseteq H /\ OtherGrants(H, s) \subseteq H
  BY DEF OwnGrants, OwnLaterGrants, OtherGrants
<1>2. IsFiniteSet(OwnGrants(H, s)) /\ IsFiniteSet(OwnLaterGrants(H, s)) /\ IsFiniteSet(OtherGrants(H, s))
  BY <1>1, FS_Subset
<1> QED
  BY <1>2, FS_CardinalityType

\* One more grant makes a part larger by one at most.
LEMMA OneMore ==
  ASSUME NEW S, IsFiniteSet(S), NEW T, NEW x, T \subseteq S \cup {x}
  PROVE  /\ IsFiniteSet(T) /\ Cardinality(T) \in Nat /\ Cardinality(S) \in Nat
         /\ Cardinality(T) <= Cardinality(S) + 1
<1>1. /\ IsFiniteSet(S \cup {x}) /\ Cardinality(S) \in Nat
      /\ Cardinality(S \cup {x}) \in {Cardinality(S), Cardinality(S) + 1}
  BY FS_AddElement, FS_CardinalityType
<1>2. IsFiniteSet(T) /\ Cardinality(T) <= Cardinality(S \cup {x})
  BY <1>1, FS_Subset
<1>3. Cardinality(T) \in Nat
  BY <1>2, FS_CardinalityType
<1> QED
  BY <1>1, <1>2, <1>3

LEMMA Fewer ==
  ASSUME NEW S, IsFiniteSet(S), NEW T, T \subseteq S
  PROVE  /\ IsFiniteSet(T) /\ Cardinality(T) \in Nat /\ Cardinality(S) \in Nat
         /\ Cardinality(T) <= Cardinality(S)
BY FS_Subset, FS_CardinalityType

\* Two parts without a common grant add up.
LEMMA TwoParts ==
  ASSUME NEW S, NEW T, IsFiniteSet(S), IsFiniteSet(T), S \cap T = {}
  PROVE  Cardinality(S \cup T) = Cardinality(S) + Cardinality(T)
<1>1. Cardinality(S \cup T) = Cardinality(S) + Cardinality(T) - Cardinality(S \cap T)
  BY FS_Union
<1>2. Cardinality(S \cap T) = 0 /\ Cardinality(S) \in Nat /\ Cardinality(T) \in Nat
  BY FS_EmptySet, FS_CardinalityType
<1> QED
  BY <1>1, <1>2

\* A grant that opens a window; one that asked before the span is not noted.
LEMMA OpensWindow ==
  ASSUME NEW W \in Int, W > 0, NEW M \in Int, M > 0, NEW t \in Int, NEW e \in Entry, NEW H,
         NEW now \in Int, now <= t, t - now <= W,
         FairTo(W, M, t, e, H), e = NoEntry \/ now - e.start >= W,
         NEW x, x.time = now, x.start = now,
         NEW I, I = H \/ (I = H \cup {x} /\ now > t - W)
  PROVE  FairTo(W, M, t, [start |-> now, count |-> 1, last |-> now], I)
<1> DEFINE new == [start |-> now, count |-> 1, last |-> now]
<1>1. new # NoEntry /\ new.start = now /\ new.count = 1 /\ new.last = now
  BY DEF NoEntry
<1> HIDE DEF new
<1>2. IsFiniteSet(H) /\ \A g \in H : g.time \in Int /\ t - W < g.time /\ g.time <= t
  BY DEF FairTo, IsSpan
<1>3. IsSpan(W, t, I)
  <2>1. IsFiniteSet(I)
    BY <1>2, FS_AddElement
  <2> QED
    BY <1>2, <2>1 DEF IsSpan
<1>4. \A g \in H : g.time < now /\ g.start # now /\ g \in OwnLaterGrants(H, e.start)
  <2>1. CASE e = NoEntry
    BY <2>1 DEF FairTo
  <2>2. CASE e # NoEntry
    <3>1. e.start \in Int /\ now - e.start >= W /\ KnowsSpan(W, M, e, H)
      BY <2>2 DEF FairTo, Entry
    <3>2. \A g \in H : g.time < now /\ g.time > e.start
      BY <1>2, <3>1 DEF KnowsSpan
    <3>3. \A g \in H : g.start = e.start
      BY <1>2, <3>1, <3>2 DEF KnowsSpan, OtherGrants
    <3> QED
      BY <3>1, <3>2, <3>3 DEF OwnLaterGrants
  <2> QED
    BY <2>1, <2>2
<1>5. /\ \A g \in I : g.time <= new.last + W /\ g.time < new.start + W
      /\ \A g \in OtherGrants(I, now) : g.time < now
  BY <1>1, <1>2, <1>4 DEF OtherGrants
<1>6. Cardinality(OwnGrants(I, now)) <= 1
  <2>1. OwnGrants(I, now) \subseteq {} \cup {x}
    BY <1>2, <1>4 DEF OwnGrants
  <2>2. IsFiniteSet({}) /\ Cardinality({}) = 0
    BY FS_EmptySet
  <2>3. Cardinality(OwnGrants(I, now)) <= Cardinality({}) + 1 /\ Cardinality(OwnGrants(I, now)) \in Nat
    BY <2>1, <2>2, OneMore
  <2> QED
    BY <2>2, <2>3
<1>7. Cardinality(OwnLaterGrants(I, now)) <= 0
  <2>1. OwnLaterGrants(I, now) = {}
    BY <1>2, <1>4 DEF OwnLaterGrants
  <2> QED
    BY <2>1, FS_EmptySet
<1>8. Cardinality(OtherGrants(I, now)) <= M - 1
  <2>1. OtherGrants(I, now) = H
    BY <1>2, <1>4 DEF OtherGrants
  <2>2. CASE e = NoEntry
    <3>1. Cardinality(H) = 0
      BY <2>2, FS_EmptySet DEF FairTo
    <3> QED
      BY <2>1, <3>1
  <2>3. CASE e # NoEntry
    <3>1. H = OwnLaterGrants(H, e.start)
      BY <1>4 DEF OwnLaterGrants
    <3>2. Cardinality(OwnLaterGrants(H, e.start)) <= e.count - 1 /\ e.count <= M
      BY <2>3 DEF FairTo, KnowsSpan
    <3>3. Cardinality(H) \in Nat /\ e.count \in Int
      BY <1>2, FS_CardinalityType DEF Entry
    <3> QED
      BY <2>1, <3>1, <3>2, <3>3
  <2> QED
    BY <2>2, <2>3
<1>9. KnowsSpan(W, M, new, I)
  BY <1>1, <1>5, <1>6, <1>7, <1>8 DEF KnowsSpan
<1> QED
  BY <1>1, <1>3, <1>9 DEF FairTo, new

\* A grant within a window that is not used up, for a clock read before or
\* after that window was opened.
LEMMA GoesOn ==
  ASSUME NEW W \in Int, W > 0, NEW M \in Int, NEW t \in Int, NEW e \in Entry, NEW H,
         NEW now \in Int, now <= t, t - now <= W,
         FairTo(W, M, t, e, H), e # NoEntry, now - e.start < W, e.count < M,
         NEW x, x.time = now, x.start = e.start,
         NEW I, I = H \/ (I = H \cup {x} /\ now > t - W),
         NEW new, new.start = e.start, new.count = e.count + 1, new.last = now
  PROVE  FairTo(W, M, t, new, I)
<1> DEFINE s == e.start
<1>1. /\ new.start = s /\ new.count = e.count + 1 /\ new.last = now
      /\ s \in Int /\ e.count \in Int /\ e.count >= 1 /\ x.start = s
  BY DEF Entry, FairTo
<1>2. new # NoEntry
  <2>1. new.count # 0
    BY <1>1
  <2> QED
    BY <2>1 DEF NoEntry
<1>3. IsFiniteSet(H) /\ \A g \in H : g.time \in Int /\ t - W < g.time /\ g.time <= t
  BY DEF FairTo, IsSpan
<1>4. IsSpan(W, t, I)
  <2>1. IsFiniteSet(I)
    BY <1>3, FS_AddElement
  <2> QED
    BY <1>3, <2>1 DEF IsSpan
<1>5. /\ \A g \in H : g.time < s + W
      /\ \A g \in OtherGrants(H, s) : g.time < s
      /\ Cardinality(OwnGrants(H, s)) <= e.count
      /\ Cardinality(OwnLaterGrants(H, s)) <= e.count - 1
      /\ Cardinality(OtherGrants(H, s)) <= M - 1
  BY DEF FairTo, KnowsSpan
<1>6. \A g \in I : g.time <= now + W /\ g.time < s + W
  BY <1>1, <1>3, <1>5
<1>7. /\ OwnGrants(I, s) \subseteq OwnGrants(H, s) \cup {x}
      /\ OwnLaterGrants(I, s) \subseteq OwnLaterGrants(H, s) \cup {x}
      /\ OtherGrants(I, s) = OtherGrants(H, s)
  BY <1>1 DEF OwnGrants, OwnLaterGrants, OtherGrants
<1> HIDE DEF s
<1>8. Cardinality(OwnGrants(I, s)) <= e.count + 1
  <2>1. Cardinality(OwnGrants(I, s)) <= Cardinality(OwnGrants(H, s)) + 1
        /\ Cardinality(OwnGrants(I, s)) \in Nat /\ Cardinality(OwnGrants(H, s)) \in Nat
    BY <1>3, <1>7, GrantPartsFinite, OneMore
  <2> QED
    BY <1>1, <1>5, <2>1
<1>9. Cardinality(OwnLaterGrants(I, s)) <= e.count
  <2>1. Cardinality(OwnLaterGrants(I, s)) <= Cardinality(OwnLaterGrants(H, s)) + 1
        /\ Cardinality(OwnLaterGrants(I, s)) \in Nat /\ Cardinality(OwnLaterGrants(H, s)) \in Nat
    BY <1>3, <1>7, GrantPartsFinite, OneMore
  <2> QED
    BY <1>1, <1>5, <2>1
<1>10. KnowsSpan(W, M, new, I)
  <2>1. e.count + 1 <= M /\ e.count + 1 - 1 = e.count
    BY <1>1
  <2> QED
    BY <1>1, <1>5, <1>6, <1>7, <1>8, <1>9, <2>1 DEF KnowsSpan
<1> QED
  BY <1>1, <1>2, <1>4, <1>10 DEF FairTo

\* A request that is refused only tells the entry its time.
LEMMA IsRefused ==
  ASSUME NEW W \in Int, NEW M \in Int, NEW t \in Int, NEW e \in Entry, NEW H,
         NEW now \in Int, t - now <= W, FairTo(W, M, t, e, H), e # NoEntry
  PROVE  FairTo(W, M, t, [e EXCEPT !.last = now], H)
<1> DEFINE new == [e EXCEPT !.last = now]
<1>1. new.start = e.start /\ new.count = e.count /\ new.last = now
  BY DEF Entry
<1>2. new # NoEntry
  <2>1. new.count # 0
    BY <1>1 DEF FairTo, Entry
  <2> QED
    BY <2>1 DEF NoEntry
<1> HIDE DEF new
<1>3. \A g \in H : g.time <= now + W
  BY DEF FairTo, IsSpan
<1>4. KnowsSpan(W, M, new, H)
  BY <1>1, <1>3 DEF FairTo, KnowsSpan
<1>5. IsSpan(W, t, H) /\ e.count >= 1
  BY DEF FairTo
<1> QED
  BY <1>1, <1>2, <1>4, <1>5 DEF FairTo, new

\* Pruning forgets an entry only when the span holds none of its grants.
LEMMA IsPruned ==
  ASSUME NEW W \in Int, W > 0, NEW M, NEW t \in Int, NEW e \in Entry, NEW H,
         NEW now \in Int, now <= t, FairTo(W, M, t, e, H), e.last < now - 2 * W
  PROVE  FairTo(W, M, t, NoEntry, H)
<1>1. \A g \in H : g.time \in Int /\ t - W < g.time
  BY DEF FairTo, IsSpan
<1>2. e # NoEntry => \A g \in H : g.time <= e.last + W
  BY DEF FairTo, KnowsSpan
<1>3. e.last \in Int
  BY DEF Entry
<1>4. H = {}
  BY <1>1, <1>2, <1>3 DEF FairTo
<1> QED
  BY <1>4 DEF FairTo

\* The span moves on.
LEMMA MovesOn ==
  ASSUME NEW W \in Int, NEW M \in Int, NEW t \in Int, NEW e \in Entry, NEW H, FairTo(W, M, t, e, H)
  PROVE  FairTo(W, M, t + 1, e, {g \in H : g.time > t + 1 - W})
<1> DEFINE I == {g \in H : g.time > t + 1 - W}
           s == e.start
<1>1. IsFiniteSet(H) /\ \A g \in H : g.time \in Int /\ t - W < g.time /\ g.time <= t
  BY DEF FairTo, IsSpan
<1>2. IsSpan(W, t + 1, I)
  <2>1. IsFiniteSet(I)
    BY <1>1, FS_Subset
  <2>2. \A g \in I : g.time \in Int /\ t + 1 - W < g.time /\ g.time <= t + 1
    BY <1>1
  <2> QED
    BY <2>1, <2>2 DEF IsSpan
<1>3. CASE e = NoEntry
  BY <1>2, <1>3 DEF FairTo
<1>4. CASE e # NoEntry
  <2>1. OwnGrants(I, s) \subseteq OwnGrants(H, s) /\ OwnLaterGrants(I, s) \subseteq OwnLaterGrants(H, s)
        /\ OtherGrants(I, s) \subseteq OtherGrants(H, s) /\ I \subseteq H
    BY DEF OwnGrants, OwnLaterGrants, OtherGrants
  <2> HIDE DEF I, s
  <2>2. /\ Cardinality(OwnGrants(I, s)) <= Cardinality(OwnGrants(H, s))
        /\ Cardinality(OwnLaterGrants(I, s)) <= Cardinality(OwnLaterGrants(H, s))
        /\ Cardinality(OtherGrants(I, s)) <= Cardinality(OtherGrants(H, s))
        /\ {Cardinality(OwnGrants(I, s)), Cardinality(OwnLaterGrants(I, s)), Cardinality(OtherGrants(I, s)),
            Cardinality(OwnGrants(H, s)), Cardinality(OwnLaterGrants(H, s)), Cardinality(OtherGrants(H, s))} \subseteq Nat
    BY <1>1, <2>1, GrantPartsFinite, Fewer
  <2>3. KnowsSpan(W, M, e, H) /\ e.count \in Int
    BY <1>4 DEF FairTo, Entry
  <2>4. KnowsSpan(W, M, e, I)
    BY <2>1, <2>2, <2>3 DEF KnowsSpan, s
  <2>5. e.count >= 1
    BY <1>4 DEF FairTo
  <2> QED
    BY <1>2, <1>4, <2>4, <2>5 DEF FairTo, I
<1> QED
  BY <1>3, <1>4

\* The two windows that meet in a span.
LEMMA TwoWindows ==
  ASSUME NEW W \in Int, NEW M \in Int, M > 0, NEW t \in Int, NEW e \in Entry, NEW H,
         FairTo(W, M, t, e, H)
  PROVE  Cardinality(H) <= 2 * M - 1
<1>1. CASE e = NoEntry
  <2>1. Cardinality(H) = 0
    BY <1>1, FS_EmptySet DEF FairTo
  <2> QED
    BY <2>1
<1>2. CASE e # NoEntry
  <2>1. IsFiniteSet(H)
    BY DEF FairTo, IsSpan
  <2> DEFINE B == OtherGrants(H, e.start)  F == OwnGrants(H, e.start)
  <2>2. H = B \cup F /\ B \cap F = {}
    BY DEF OtherGrants, OwnGrants
  <2>3. IsFiniteSet(B) /\ IsFiniteSet(F) /\ Cardinality(B) \in Nat /\ Cardinality(F) \in Nat
    BY <2>1, GrantPartsFinite
  <2>4. Cardinality(B) <= M - 1 /\ Cardinality(F) <= e.count /\ e.count <= M /\ e.count \in Int
    BY <1>2 DEF FairTo, KnowsSpan, Entry
  <2> HIDE DEF B, F
  <2>5. Cardinality(B \cup F) = Cardinality(B) + Cardinality(F)
    BY <2>2, <2>3, TwoParts
  <2> QED
    BY <2>2, <2>3, <2>4, <2>5
<1> QED
  BY <1>1, <1>2

-----------------------------------------------------------------------------
LEMMA LimitsAreInt ==
  ASSUME NEW l \in Limiters
  PROVE  Limit(l) \in Int /\ Window(l) \in Int /\ Window(l) > 0
<1>1. CASE l = 0
  BY <1>1, GateAssumption DEF Limit, Window
<1>2. CASE l # 0
  <2>1. l \in DOMAIN Guard.rules
    BY <1>2 DEF Limiters, Rules
  <2> DEFINE r == Guard.rules[l]
  <2>2. r.max \in Int /\ r.window \in Int
    BY <2>1, GateAssumption
  <2> HIDE DEF r
  <2>3. RuleLimiter(r).max \in Int /\ RuleLimiter(r).window \in Int /\ RuleLimiter(r).window > 0
    BY <2>2 DEF RuleLimiter
  <2>4. Rules[l].limiter = RuleLimiter(r)
    BY <2>1 DEF Rules, Compile, r
  <2> QED
    BY <1>2, <2>3, <2>4 DEF Limit, Window
<1> QED
  BY <1>1, <1>2

LEMMA SpanStarts == GateInit => SpanInv
<1> SUFFICES ASSUME GateInit PROVE SpanInv
  OBVIOUS
<1>1. /\ clock = 0 /\ came = [c \in Conns |-> 0]
      /\ entry = [l \in Limiters |-> [k \in Ips |-> NoEntry]]
      /\ recent = [l \in Limiters |-> [k \in Ips |-> {}]]
  BY DEF GateInit
<1>2. NoEntry \in Entry
  BY DEF NoEntry, Entry
<1>3. entry \in [Limiters -> [Ips -> Entry]]
  BY <1>1, <1>2
<1>4. \A l \in Limiters, k \in Ips : entry[l][k] = NoEntry /\ recent[l][k] = {}
  BY <1>1
<1>5. \A W, M : FairTo(W, M, clock, NoEntry, {})
  BY FS_EmptySet DEF FairTo, IsSpan
<1>6. recent = [l \in Limiters |-> [k \in Ips |-> recent[l][k]]]
  BY <1>1
<1>7. came \in [Conns -> Nat] /\ \A c \in Conns : came[c] <= clock
  BY <1>1
<1> QED
  BY <1>1, <1>3, <1>4, <1>5, <1>6, <1>7 DEF SpanInv

\* What pruning leaves in a table is as fair.
LEMMA PrunedFair ==
  ASSUME SpanInv, NEW l \in Limiters, NEW s, NEW now \in Nat, now <= clock
  PROVE  /\ Prune(l, s, now) \in [Ips -> Entry]
         /\ ~stalled => \A k \in Ips : Limit(l) > 0 =>
              FairTo(Window(l), Limit(l), clock, Prune(l, s, now)[k], recent[l][k])
<1>1. NoEntry \in Entry /\ entry[l] \in [Ips -> Entry]
  BY DEF NoEntry, Entry, SpanInv
<1>2. ASSUME NEW k \in Ips
      PROVE  \/ Prune(l, s, now)[k] = entry[l][k]
             \/ /\ Prune(l, s, now)[k] = NoEntry
                /\ entry[l][k].last < now - 2 * Window(l)
  <2>1. CASE now - pruned[l][s] > 2 * Window(l)
    <3>1. Prune(l, s, now)[k] = IF ShardOf[k] = s /\ entry[l][k].last < now - 2 * Window(l)
                                THEN NoEntry ELSE entry[l][k]
      BY <2>1 DEF Prune
    <3> QED
      BY <3>1
  <2>2. CASE ~(now - pruned[l][s] > 2 * Window(l))
    BY <2>2 DEF Prune
  <2> QED
    BY <2>1, <2>2
<1>3. Prune(l, s, now) \in [Ips -> Entry]
  BY <1>1 DEF Prune
<1>4. ASSUME NEW k \in Ips, Limit(l) > 0, ~stalled
      PROVE  FairTo(Window(l), Limit(l), clock, Prune(l, s, now)[k], recent[l][k])
  <2>1. FairTo(Window(l), Limit(l), clock, entry[l][k], recent[l][k])
    BY <1>4 DEF SpanInv
  <2>2. clock \in Int /\ now \in Int /\ entry[l][k] \in Entry /\ Window(l) \in Int /\ Window(l) > 0
    BY <1>1, LimitsAreInt DEF SpanInv
  <2> QED
    BY <1>2, <2>1, <2>2, IsPruned
<1> QED
  BY <1>3, <1>4

LEMMA ChargedIsEntry ==
  ASSUME NEW l, NEW r \in Entry, NEW now \in Nat
  PROVE  Charged(l, r, now) \in Entry
<1> DEFINE e == Charged(l, r, now)
<1>1. \/ e = [start |-> now, count |-> 1, last |-> now]
      \/ e = [r EXCEPT !.count = @ + 1, !.last = now]
      \/ e = [r EXCEPT !.last = now]
  <2>1. CASE Opens(l, r, now)
    BY <2>1 DEF Charged
  <2>2. CASE ~Opens(l, r, now) /\ r.count < Limit(l)
    BY <2>2 DEF Charged
  <2>3. CASE ~Opens(l, r, now) /\ ~(r.count < Limit(l))
    BY <2>3 DEF Charged
  <2> QED
    BY <2>1, <2>2, <2>3
<1> SUFFICES e \in Entry
  OBVIOUS
<1> HIDE DEF e
<1>2. CASE e = [start |-> now, count |-> 1, last |-> now]
  BY <1>2 DEF Entry
<1>3. CASE e = [r EXCEPT !.count = @ + 1, !.last = now]
  <2> DEFINE q == [r EXCEPT !.count = @ + 1]
  <2>1. q \in Entry
    BY DEF Entry
  <2>2. e = [q EXCEPT !.last = now]
    BY <1>3
  <2> HIDE DEF q
  <2> QED
    BY <2>1, <2>2 DEF Entry
<1>4. CASE e = [r EXCEPT !.last = now]
  BY <1>4 DEF Entry
<1> QED
  BY <1>1, <1>2, <1>3, <1>4

\* What a request does to an entry keeps it fair, for a clock that is not more
\* than a window old.
LEMMA ChargedFair ==
  ASSUME NEW l \in Limiters, Limit(l) > 0, NEW k, NEW r \in Entry,
         NEW now \in Nat, clock \in Nat, now <= clock, clock - now <= Window(l),
         FairTo(Window(l), Limit(l), clock, r, recent[l][k])
  PROVE  FairTo(Window(l), Limit(l), clock, Charged(l, r, now),
                IF Admits(l, r, now) THEN Noted(l, k, Charged(l, r, now), now) ELSE recent[l][k])
<1> DEFINE e == Charged(l, r, now)
           H == recent[l][k]
           I == Noted(l, k, e, now)
           x == [time |-> now, start |-> e.start, n |-> 1 + Cardinality({g \in H : g.time = now})]
<1>1. Window(l) \in Int /\ Window(l) > 0 /\ Limit(l) \in Int
  BY LimitsAreInt
<1>2. I = H \/ (I = H \cup {x} /\ now > clock - Window(l))
  BY <1>1 DEF Noted
<1>3. x.time = now /\ x.start = e.start
  OBVIOUS
<1>4. CASE Opens(l, r, now)
  <2>1. e = [start |-> now, count |-> 1, last |-> now] /\ Admits(l, r, now)
    BY <1>4 DEF Charged, Admits
  <2>2. x.start = now
    BY <1>3, <2>1
  <2>3. r = NoEntry \/ now - r.start >= Window(l)
    BY <1>4 DEF Opens
  <2> HIDE DEF e, H, I, x
  <2>4. FairTo(Window(l), Limit(l), clock, [start |-> now, count |-> 1, last |-> now], I)
    BY <1>1, <1>2, <1>3, <2>2, <2>3, OpensWindow DEF H
  <2> QED
    BY <2>1, <2>4 DEF e, I
<1>5. CASE ~Opens(l, r, now) /\ r.count < Limit(l)
  <2>1. e = [r EXCEPT !.count = @ + 1, !.last = now] /\ Admits(l, r, now)
    BY <1>5 DEF Charged, Admits
  <2>2. /\ r # NoEntry /\ now - r.start < Window(l)
        /\ e.start = r.start /\ e.count = r.count + 1 /\ e.last = now
    BY <1>1, <1>5, <2>1 DEF Opens, Entry
  <2> HIDE DEF e, H, I, x
  <2>4. FairTo(Window(l), Limit(l), clock, e, I)
    BY <1>1, <1>2, <1>3, <1>5, <2>2, GoesOn DEF H
  <2> QED
    BY <2>1, <2>4 DEF e, I
<1>6. CASE ~Opens(l, r, now) /\ ~(r.count < Limit(l))
  <2>1. e = [r EXCEPT !.last = now] /\ ~Admits(l, r, now) /\ r # NoEntry
    BY <1>6 DEF Charged, Admits, Opens
  <2> HIDE DEF e, H, I, x
  <2>2. FairTo(Window(l), Limit(l), clock, [r EXCEPT !.last = now], H)
    BY <1>1, <2>1, IsRefused DEF H
  <2> QED
    BY <2>1, <2>2 DEF e, H
<1> QED
  BY <1>4, <1>5, <1>6

LEMMA AllowKeeps ==
  ASSUME SpanInv, NEW l, NEW k, NEW now \in Nat, now <= clock, Allow(l, k, now), clock' = clock,
         came' \in [Conns -> Nat], \A c \in Conns : came'[c] <= clock
  PROVE  SpanInv'
<1> DEFINE tab == Prune(l, ShardOf[k], now)
           e == Charged(l, tab[k], now)
           H == IF Admits(l, tab[k], now) THEN Noted(l, k, e, now) ELSE recent[l][k]
<1>1. /\ entry' = [entry EXCEPT ![l] = [tab EXCEPT ![k] = e]]
      /\ recent' = IF Admits(l, tab[k], now) THEN [recent EXCEPT ![l][k] = Noted(l, k, e, now)]
                   ELSE recent
      /\ stalled' = (stalled \/ clock - now > Window(l))
  BY DEF Allow
<1>2. CASE l \notin Limiters
  <2>1. entry' = entry /\ recent' = recent
    BY <1>1, <1>2 DEF SpanInv
  <2> QED
    BY <1>1, <2>1 DEF SpanInv, Limit, Window
<1>3. CASE l \in Limiters
  <2>1. /\ tab \in [Ips -> Entry]
        /\ ~stalled => \A j \in Ips : Limit(l) > 0 =>
             FairTo(Window(l), Limit(l), clock, tab[j], recent[l][j])
    BY <1>3, PrunedFair
  <2>2. clock \in Nat /\ Window(l) \in Int
    BY <1>3, LimitsAreInt DEF SpanInv
  <2>3. k \in Ips => e \in Entry
    BY <2>1, ChargedIsEntry
  <2>4. ASSUME k \in Ips, Limit(l) > 0, ~stalled' PROVE FairTo(Window(l), Limit(l), clock, e, H)
    <3> DEFINE r == tab[k]
    <3>1. r \in Entry /\ FairTo(Window(l), Limit(l), clock, r, recent[l][k])
      BY <1>1, <2>1, <2>4
    <3>2. ~(clock - now > Window(l))
      BY <1>1, <2>4
    <3>3. clock - now <= Window(l)
      BY <2>2, <3>2
    <3> HIDE DEF tab, r
    <3>4. FairTo(Window(l), Limit(l), clock, Charged(l, r, now),
                 IF Admits(l, r, now) THEN Noted(l, k, Charged(l, r, now), now) ELSE recent[l][k])
      BY <1>3, <2>2, <2>4, <3>1, <3>3, ChargedFair
    <3> QED
      BY <3>4 DEF r
  <2>5. recent = [m \in Limiters |-> [n \in Ips |-> recent[m][n]]]
    BY DEF SpanInv
  <2>6. /\ recent' = [m \in Limiters |-> [n \in Ips |-> recent'[m][n]]]
        /\ \A j \in Limiters, i \in Ips :
             recent'[j][i] = IF j = l /\ i = k THEN H ELSE recent[j][i]
    <3>1. CASE Admits(l, tab[k], now)
      <4>1. recent' = [recent EXCEPT ![l][k] = H] /\ H = Noted(l, k, e, now)
        BY <1>1, <3>1
      <4> HIDE DEF tab, e, H
      <4> QED
        BY <2>5, <4>1
    <3>2. CASE ~Admits(l, tab[k], now)
      <4>1. recent' = recent /\ H = recent[l][k]
        BY <1>1, <3>2
      <4> HIDE DEF tab, e, H
      <4> QED
        BY <2>5, <4>1
    <3> QED
      BY <3>1, <3>2
  <2> HIDE DEF tab, e, H
  <2>7. entry' \in [Limiters -> [Ips -> Entry]]
    BY <1>1, <2>1, <2>3 DEF SpanInv
  <2>8. ASSUME NEW j \in Limiters, NEW i \in Ips, Limit(j) > 0, ~stalled'
        PROVE  FairTo(Window(j), Limit(j), clock, entry'[j][i], recent'[j][i])
    <3>1. CASE j # l
      <4>1. entry'[j] = entry[j] /\ recent'[j][i] = recent[j][i]
        BY <1>1, <2>6, <3>1 DEF SpanInv
      <4> QED
        BY <1>1, <2>8, <4>1 DEF SpanInv
    <3>2. CASE j = l /\ i # k
      <4>1. entry'[j][i] = tab[i] /\ recent'[j][i] = recent[j][i]
        BY <1>1, <2>1, <2>6, <3>2 DEF SpanInv
      <4> QED
        BY <1>1, <2>1, <2>8, <3>2, <4>1
    <3>3. CASE j = l /\ i = k
      <4>1. entry'[j][i] = e /\ recent'[j][i] = H
        BY <1>1, <2>1, <2>6, <3>3 DEF SpanInv
      <4> QED
        BY <2>4, <2>8, <3>3, <4>1
    <3> QED
      BY <3>1, <3>2, <3>3
  <2> QED
    BY <2>2, <2>6, <2>7, <2>8 DEF SpanInv, Limit, Window
<1> QED
  BY <1>2, <1>3

LEMMA GateTickKeeps ==
  ASSUME SpanInv, GateTick
  PROVE  SpanInv'
<1>1. /\ clock' = clock + 1 /\ entry' = entry /\ came' = came /\ stalled' = stalled
      /\ recent' = [l \in Limiters |-> [k \in Ips |->
                      {g \in recent[l][k] : g.time > clock + 1 - Window(l)}]]
  BY DEF GateTick
<1>2. clock \in Nat /\ clock' \in Nat /\ came' \in [Conns -> Nat] /\ \A c \in Conns : came'[c] <= clock'
  BY <1>1 DEF SpanInv
<1>3. ASSUME NEW l \in Limiters, NEW k \in Ips, Limit(l) > 0, ~stalled
      PROVE  FairTo(Window(l), Limit(l), clock', entry'[l][k], recent'[l][k])
  <2>1. FairTo(Window(l), Limit(l), clock, entry[l][k], recent[l][k]) /\ entry[l][k] \in Entry
    BY <1>3 DEF SpanInv
  <2>2. recent'[l][k] = {g \in recent[l][k] : g.time > clock + 1 - Window(l)}
    BY <1>1
  <2> QED
    BY <1>1, <1>2, <2>1, <2>2, LimitsAreInt, MovesOn
<1> QED
  BY <1>1, <1>2, <1>3 DEF SpanInv, Limit, Window

\* The time a request remembers is 0 or the time it has just read.
LEMMA SeenKeeps ==
  ASSUME SpanInv, NEW c \in Conns, NEW t \in {0, clock}, came' = [came EXCEPT ![c] = t]
  PROVE  came' \in [Conns -> Nat] /\ \A d \in Conns : came'[d] <= clock
BY DEF SpanInv

LEMMA SpanStep == SpanInv /\ [GateNext]_gateVars => SpanInv'
<1> SUFFICES ASSUME SpanInv, [GateNext]_gateVars PROVE SpanInv'
  OBVIOUS
<1>1. CASE UNCHANGED <<came, entry, recent, stalled, clock>>
  BY <1>1 DEF SpanInv, Limit, Window
<1>2. ASSUME NEW c \in Conns, SameLimits, clock' = clock,
             \E t \in {0, clock} : came' = [came EXCEPT ![c] = t]
      PROVE  SpanInv'
  <2>1. came' \in [Conns -> Nat] /\ \A d \in Conns : came'[d] <= clock'
    BY <1>2, SeenKeeps
  <2>2. entry' = entry /\ recent' = recent /\ stalled' = stalled
    BY <1>2 DEF SameLimits
  <2> QED
    BY <1>2, <2>1, <2>2 DEF SpanInv, Limit, Window
<1>3. ASSUME NEW c \in Conns, NEW l, NEW k, Allow(l, k, came[c]), clock' = clock,
             came' = [came EXCEPT ![c] = 0]
      PROVE  SpanInv'
  <2>1. came[c] \in Nat /\ came[c] <= clock
    BY DEF SpanInv
  <2>2. came' \in [Conns -> Nat] /\ \A d \in Conns : came'[d] <= clock
    BY <1>3, SeenKeeps
  <2> QED
    BY <1>3, <2>1, <2>2, AllowKeeps
<1>4. ASSUME NEW c \in Conns, NEW q \in RuleKinds, ArriveAtGate(c, q) PROVE SpanInv'
  <2>1. CASE q.method = "OPTIONS"
    BY <1>2, <1>4, <2>1 DEF ArriveAtGate, Answer
  <2>2. CASE q.method # "OPTIONS"
    BY <1>1, <1>4, <2>2 DEF ArriveAtGate, SameLimits
  <2> QED
    BY <2>1, <2>2
<1>5. ASSUME NEW c \in Conns, Screen(c) PROVE SpanInv'
  <2>1. /\ SameLimits /\ clock' = clock
        /\ (came' = came \/ \E t \in {0, clock} : came' = [came EXCEPT ![c] = t])
    BY <1>5 DEF Screen, Answer, Pass
  <2> QED
    BY <1>1, <1>2, <2>1 DEF SameLimits
<1>6. ASSUME NEW c \in Conns, ApplyRule(c) PROVE SpanInv'
  <2>1. SameLimits /\ clock' = clock
        /\ \E t \in {0, clock} : came' = [came EXCEPT ![c] = t]
    BY <1>6 DEF ApplyRule, Answer, NextRule, AskLimiter
  <2> QED
    BY <1>2, <2>1
<1>7. ASSUME NEW c \in Conns, Throttle(c) PROVE SpanInv'
  <2>1. Allow(rule[c], conn[c].ip, came[c]) /\ clock' = clock /\ came' = [came EXCEPT ![c] = 0]
    BY <1>7 DEF Throttle, Answer, NextRule
  <2> QED
    BY <1>3, <2>1
<1>8. ASSUME NEW c \in Conns, RulesDone(c) \/ Enter(c) \/ Refuse(c) PROVE SpanInv'
  BY <1>2, <1>8 DEF RulesDone, Enter, Refuse, Answer, Pass
<1>9. ASSUME NEW c \in Conns, Query(c) PROVE SpanInv'
  <2>1. SameLimits /\ clock' = clock
        /\ \E t \in {0, clock} : came' = [came EXCEPT ![c] = t]
    BY <1>9 DEF Query, Answer, Pass, AskLimiter
  <2> QED
    BY <1>2, <2>1
<1>10. ASSUME NEW c \in Conns, Rate(c) PROVE SpanInv'
  <2>1. Allow(0, conn[c].ip, came[c]) /\ clock' = clock /\ came' = [came EXCEPT ![c] = 0]
    BY <1>10 DEF Rate, Answer, Pass
  <2> QED
    BY <1>3, <2>1
<1>11. ASSUME NEW c \in Conns, NEW status, Handled(c, status) \/ HealthHandled(c, status)
       PROVE  SpanInv'
  BY <1>2, <1>11 DEF Handled, HealthHandled, Answer
<1>12. CASE UNCHANGED gateVars
  BY <1>1, <1>12 DEF gateVars
<1> QED
  BY <1>4, <1>5, <1>6, <1>7, <1>8, <1>9, <1>10, <1>11, <1>12, GateTickKeeps DEF GateNext

\* For any limits, windows and rules, however requests overlap and whoever
\* overtakes whom between reading the clock and taking the lock: of the requests
\* of an address that ask within a span as long as a window, a rate limiter lets
\* in no more than 2 * max - 1, while nobody stands at a lock for more than a
\* window (middleware.go:333-391).
THEOREM SpansStayBounded == GateSpec => []SpanBounded
<1>1. SpanInv => SpanBounded
  <2> SUFFICES ASSUME SpanInv, ~stalled, NEW l \in Limiters, NEW k \in Ips, Limit(l) > 0
               PROVE  Cardinality(recent[l][k]) <= 2 * Limit(l) - 1
    BY DEF SpanBounded
  <2>1. FairTo(Window(l), Limit(l), clock, entry[l][k], recent[l][k])
        /\ entry[l][k] \in Entry /\ clock \in Int
    BY DEF SpanInv
  <2> QED
    BY <2>1, LimitsAreInt, TwoWindows
<1> QED
  BY <1>1, SpanStarts, SpanStep, PTL DEF GateSpec

-----------------------------------------------------------------------------
(* Module AdminAuth: the lockout of an address *)

Record == [count : Int, first : Int, until : Int]

\* The failures of F before, from and after the time s.
Earlier(F, s) == {g \in F : g.time < s}
Since(F, s) == {g \in F : g.time >= s}
Later(F, s) == {g \in F : g.time > s}

\* What the record e of an address tells of its failures F in the last minute
\* when p of its requests are past the check.
Tells(S, A, M, t, e, F, p) ==
  /\ e.first <= t /\ e.count >= 1
  /\ \A g \in F : g.time <= e.first + M
  /\ Cardinality(Earlier(F, e.first)) <= S + A - 2
  /\ e.count < S =>
       /\ e.until = -1
       /\ Cardinality(Since(F, e.first)) <= e.count
       /\ Cardinality(Later(F, e.first)) <= e.count - 1
  /\ e.count >= S =>
       /\ \A g \in F : g.time + M <= e.until
       /\ t < e.until => /\ Cardinality(Since(F, e.first)) + p <= S - 1 + A
                         /\ Cardinality(Later(F, e.first)) + p <= S + A - 2

CountedFor(S, A, M, t, e, F, p) ==
  /\ IsSpan(M, t, F)
  /\ IF e = NoFailures THEN (\A g \in F : g.time < t) /\ Cardinality(F) <= S + A - 2
     ELSE Tells(S, A, M, t, e, F, p)

LEMMA PartsFinite ==
  ASSUME NEW H, IsFiniteSet(H), NEW s
  PROVE  /\ IsFiniteSet(Earlier(H, s)) /\ IsFiniteSet(Since(H, s)) /\ IsFiniteSet(Later(H, s))
         /\ Cardinality(Earlier(H, s)) \in Nat /\ Cardinality(Since(H, s)) \in Nat
         /\ Cardinality(Later(H, s)) \in Nat
<1>1. Earlier(H, s) \subseteq H /\ Since(H, s) \subseteq H /\ Later(H, s) \subseteq H
  BY DEF Earlier, Since, Later
<1>2. IsFiniteSet(Earlier(H, s)) /\ IsFiniteSet(Since(H, s)) /\ IsFiniteSet(Later(H, s))
  BY <1>1, FS_Subset
<1> QED
  BY <1>2, FS_CardinalityType

-----------------------------------------------------------------------------
\* An entry that is old and not locked knows nothing that the minute needs.
LEMMA OldCounts ==
  ASSUME NEW S \in Int, S >= 2, NEW A \in Nat, NEW M \in Int, M > 0, NEW t \in Int, t >= 0,
         NEW e \in Record, NEW F, NEW p \in Nat,
         CountedFor(S, A, M, t, e, F, p), e # NoFailures, t - e.first > M, p <= A
  PROVE  (\A g \in F : g.time < t) /\ Cardinality(F) <= S + A - 2
<1>1. IsFiniteSet(F) /\ \A g \in F : g.time \in Int /\ t - M < g.time /\ g.time <= t
  BY DEF CountedFor, IsSpan
<1>2. Tells(S, A, M, t, e, F, p) /\ {e.count, e.first, e.until} \subseteq Int
  BY DEF CountedFor, Record
<1>3. \A g \in F : g.time < t
  BY <1>1, <1>2 DEF Tells
<1>4. F = Later(F, e.first)
  BY <1>1, <1>2 DEF Later
<1>5. Cardinality(F) \in Nat
  BY <1>1, FS_CardinalityType
<1>6. CASE e.count < S
  <2>1. Cardinality(F) <= e.count - 1
    BY <1>2, <1>4, <1>6 DEF Tells
  <2> QED
    BY <1>2, <1>3, <1>5, <1>6, <2>1
<1>7. CASE e.count >= S /\ t < e.until
  <2>1. Cardinality(F) + p <= S + A - 2
    BY <1>2, <1>4, <1>7 DEF Tells
  <2> QED
    BY <1>3, <1>5, <2>1
<1>8. CASE e.count >= S /\ ~(t < e.until)
  <2>1. F = {}
    BY <1>1, <1>2, <1>8 DEF Tells
  <2> QED
    BY <2>1, FS_EmptySet
<1> QED
  BY <1>2, <1>6, <1>7, <1>8

\* The first failure that an address is remembered by.
LEMMA FirstFailure ==
  ASSUME NEW S \in Int, S >= 2, NEW A \in Nat, NEW M \in Int, M > 0, NEW t \in Int, t >= 0,
         NEW F, IsSpan(M, t, F), \A g \in F : g.time < t, Cardinality(F) <= S + A - 2,
         NEW p, NEW x, x.time = t
  PROVE  CountedFor(S, A, M, t, [count |-> 1, first |-> t, until |-> -1], F \cup {x}, p)
<1> DEFINE e == [count |-> 1, first |-> t, until |-> -1]
           G == F \cup {x}
<1>1. e.count = 1 /\ e.first = t /\ e.until = -1 /\ e # NoFailures
  BY DEF NoFailures
<1> HIDE DEF e
<1>2. IsFiniteSet(F) /\ \A g \in F : g.time \in Int /\ t - M < g.time /\ g.time < t
  BY DEF IsSpan
<1>3. IsSpan(M, t, G)
  BY <1>2, FS_AddElement DEF IsSpan
<1>4. \A g \in G : g.time <= t + M
  BY <1>2
<1>5. Earlier(G, t) = F
  BY <1>2 DEF Earlier
<1>6. Later(G, t) = {}
  BY <1>2 DEF Later
<1>7. Since(G, t) \subseteq {} \cup {x}
  BY <1>2 DEF Since
<1> HIDE DEF G
<1>8. Cardinality(Since(G, t)) <= 1 /\ Cardinality({}) = 0
  <2>1. IsFiniteSet({}) /\ Cardinality({}) = 0
    BY FS_EmptySet
  <2>2. Cardinality(Since(G, t)) <= Cardinality({}) + 1 /\ Cardinality(Since(G, t)) \in Nat
    BY <1>7, <2>1, OneMore
  <2> QED
    BY <2>1, <2>2
<1>9. Tells(S, A, M, t, e, G, p)
  BY <1>1, <1>4, <1>5, <1>6, <1>8 DEF Tells
<1> QED
  BY <1>1, <1>3, <1>9 DEF CountedFor, e, G

\* One more failure of an address that is remembered.
LEMMA NextFailure ==
  ASSUME NEW S \in Int, S >= 2, NEW A \in Nat, NEW M \in Int, M > 0, NEW t \in Int, t >= 0,
         NEW e \in Record, NEW F, NEW p \in Nat, p >= 1, p <= A,
         CountedFor(S, A, M, t, e, F, p), e # NoFailures, t - e.first <= M,
         NEW x, x.time = t, NEW f \in Record, f.count = e.count + 1, f.first = e.first,
         f.until = IF e.count + 1 >= S THEN t + M ELSE e.until
  PROVE  CountedFor(S, A, M, t, f, F \cup {x}, p - 1)
<1> DEFINE G == F \cup {x}
           s == e.first
<1>1. IsFiniteSet(F) /\ \A g \in F : g.time \in Int /\ t - M < g.time /\ g.time <= t
  BY DEF CountedFor, IsSpan
<1>2. Tells(S, A, M, t, e, F, p) /\ {e.count, s, e.until} \subseteq Int
  BY DEF CountedFor, Record
<1>3. IsSpan(M, t, G)
  BY <1>1, FS_AddElement DEF IsSpan
<1>4. f # NoFailures
  BY <1>2 DEF Tells, NoFailures
<1>5. s <= t /\ e.count >= 1 /\ Cardinality(Earlier(F, s)) <= S + A - 2
  BY <1>2 DEF Tells
<1>6. Earlier(G, s) = Earlier(F, s)
  BY <1>2, <1>5 DEF Earlier
<1>7. \A g \in G : g.time <= s + M /\ g.time <= t
  BY <1>1, <1>2 DEF Tells
<1>8. Since(G, s) \subseteq Since(F, s) \cup {x} /\ Later(G, s) \subseteq Later(F, s) \cup {x}
  BY DEF Since, Later
<1> HIDE DEF G, s
<1> DEFINE m == Cardinality(Since(F, s))  n == Cardinality(Later(F, s))
           i == Cardinality(Since(G, s))  j == Cardinality(Later(G, s))
<1>9. m \in Nat /\ n \in Nat /\ i \in Nat /\ j \in Nat /\ i <= m + 1 /\ j <= n + 1
  BY <1>1, <1>8, PartsFinite, OneMore
<1>10. CASE e.count + 1 < S
  <2>1. e.until = -1 /\ m <= e.count /\ n <= e.count - 1
    BY <1>2, <1>10 DEF Tells, s
  <2> HIDE DEF m, n, i, j
  <2>2. f.until = -1 /\ i <= f.count /\ j <= f.count - 1 /\ f.count < S /\ f.count >= 1
    BY <1>2, <1>5, <1>9, <1>10, <2>1
  <2>3. Tells(S, A, M, t, f, G, p - 1)
    BY <1>5, <1>6, <1>7, <2>2 DEF Tells, i, j, s
  <2> QED
    BY <1>3, <1>4, <2>3 DEF CountedFor, G
<1>11. CASE e.count + 1 >= S
  <2>1. f.until = t + M /\ f.count >= S /\ f.count >= 1
    BY <1>2, <1>5, <1>11
  <2>2. i + (p - 1) <= S - 1 + A /\ j + (p - 1) <= S + A - 2
    <3>1. CASE e.count < S
      <4>1. m <= e.count /\ n <= e.count - 1
        BY <1>2, <3>1 DEF Tells, s
      <4> HIDE DEF m, n, i, j
      <4> QED
        BY <1>2, <1>9, <3>1, <4>1
    <3>2. CASE e.count >= S /\ t < e.until
      <4>1. m + p <= S - 1 + A /\ n + p <= S + A - 2
        BY <1>2, <3>2 DEF Tells, s
      <4> HIDE DEF m, n, i, j
      <4> QED
        BY <1>9, <4>1
    <3>3. CASE e.count >= S /\ ~(t < e.until)
      <4>1. F = {}
        BY <1>1, <1>2, <3>3 DEF Tells
      <4>2. Since(F, s) = {} /\ Later(F, s) = {}
        BY <4>1 DEF Since, Later
      <4>3. m = 0 /\ n = 0
        BY <4>2, FS_EmptySet
      <4> HIDE DEF m, n, i, j
      <4> QED
        BY <1>9, <4>3
    <3> QED
      BY <1>2, <3>1, <3>2, <3>3
  <2>3. \A g \in G : g.time + M <= f.until
    <3>1. \A g \in G : g.time \in Int /\ g.time <= t
      BY <1>3, <1>7 DEF IsSpan
    <3> QED
      BY <2>1, <3>1
  <2>4. Tells(S, A, M, t, f, G, p - 1)
    <3> HIDE DEF m, n
    <3>1. ~(f.count < S)
      BY <2>1 DEF Record
    <3> QED
      BY <1>5, <1>6, <1>7, <2>1, <2>2, <2>3, <3>1 DEF Tells, s
  <2> QED
    BY <1>3, <1>4, <2>4 DEF CountedFor, G
<1> QED
  BY <1>2, <1>10, <1>11

\* Fewer requests are past the check, or more while the address is not locked.
LEMMA OtherRequests ==
  ASSUME NEW S \in Int, NEW A \in Nat, NEW M, NEW t \in Int,
         NEW e, NEW F, NEW p \in Nat, CountedFor(S, A, M, t, e, F, p),
         NEW q \in Nat, q <= p \/ ~(t < e.until)
  PROVE  CountedFor(S, A, M, t, e, F, q)
<1>1. CASE e = NoFailures
  BY <1>1 DEF CountedFor
<1>2. CASE e # NoFailures
  <2>1. Tells(S, A, M, t, e, F, p) /\ IsSpan(M, t, F)
    BY <1>2 DEF CountedFor
  <2>2. Cardinality(Since(F, e.first)) \in Nat /\ Cardinality(Later(F, e.first)) \in Nat
    BY <2>1, PartsFinite DEF IsSpan
  <2>3. Tells(S, A, M, t, e, F, q)
    BY <2>1, <2>2 DEF Tells
  <2> QED
    BY <1>2, <2>1, <2>3 DEF CountedFor
<1> QED
  BY <1>1, <1>2

\* A moment later.
LEMMA MinuteMovesOn ==
  ASSUME NEW S \in Int, NEW A \in Nat, NEW M \in Int, NEW t \in Int,
         NEW e \in Record, NEW F, NEW p \in Nat, CountedFor(S, A, M, t, e, F, p)
  PROVE  CountedFor(S, A, M, t + 1, e, {g \in F : g.time > t + 1 - M}, p)
<1> DEFINE G == {g \in F : g.time > t + 1 - M}
           s == e.first
<1>1. IsFiniteSet(F) /\ \A g \in F : g.time \in Int /\ t - M < g.time /\ g.time <= t
  BY DEF CountedFor, IsSpan
<1>2. IsSpan(M, t + 1, G)
  <2>1. IsFiniteSet(G)
    BY <1>1, FS_Subset
  <2>2. \A g \in G : g.time \in Int /\ t + 1 - M < g.time /\ g.time <= t + 1
    BY <1>1
  <2> QED
    BY <2>1, <2>2 DEF IsSpan
<1>3. Since(G, s) \subseteq Since(F, s) /\ Later(G, s) \subseteq Later(F, s)
      /\ Earlier(G, s) \subseteq Earlier(F, s) /\ G \subseteq F
  BY DEF Since, Later, Earlier
<1>4. CASE e = NoFailures
  <2>1. (\A g \in F : g.time < t) /\ Cardinality(F) <= S + A - 2
    BY <1>4 DEF CountedFor
  <2> HIDE DEF G
  <2>2. Cardinality(G) <= Cardinality(F) /\ Cardinality(G) \in Nat /\ Cardinality(F) \in Nat
    BY <1>1, <1>3, Fewer
  <2>3. (\A g \in G : g.time < t + 1) /\ Cardinality(G) <= S + A - 2
    BY <1>1, <1>3, <2>1, <2>2
  <2> QED
    BY <1>2, <1>4, <2>3 DEF CountedFor, G
<1>5. CASE e # NoFailures
  <2>1. Tells(S, A, M, t, e, F, p) /\ {e.count, e.first, e.until} \subseteq Int
    BY <1>5 DEF CountedFor, Record
  <2> HIDE DEF G, s
  <2>2. /\ Cardinality(Since(G, s)) <= Cardinality(Since(F, s))
        /\ Cardinality(Later(G, s)) <= Cardinality(Later(F, s))
        /\ Cardinality(Earlier(G, s)) <= Cardinality(Earlier(F, s))
        /\ {Cardinality(Since(G, s)), Cardinality(Later(G, s)), Cardinality(Earlier(G, s)),
            Cardinality(Since(F, s)), Cardinality(Later(F, s)), Cardinality(Earlier(F, s))} \subseteq Nat
    BY <1>1, <1>3, PartsFinite, Fewer
  <2>3. Tells(S, A, M, t + 1, e, G, p)
    BY <1>3, <2>1, <2>2 DEF Tells, s
  <2> QED
    BY <1>2, <1>5, <2>3 DEF CountedFor, G
<1> QED
  BY <1>4, <1>5

\* What a minute can hold at most.
LEMMA MinuteHolds ==
  ASSUME NEW S \in Int, S >= 2, NEW A \in Nat, NEW M \in Int, M > 0, NEW t \in Int,
         NEW e \in Record, NEW F, NEW p \in Nat, CountedFor(S, A, M, t, e, F, p)
  PROVE  Cardinality(F) < 2 * (S - 1 + A)
<1>1. IsFiniteSet(F) /\ \A g \in F : g.time \in Int /\ t - M < g.time /\ g.time <= t
  BY DEF CountedFor, IsSpan
<1>2. Cardinality(F) \in Nat
  BY <1>1, FS_CardinalityType
<1>3. CASE e = NoFailures
  <2>1. Cardinality(F) <= S + A - 2
    BY <1>3 DEF CountedFor
  <2> QED
    BY <1>2, <2>1
<1>4. CASE e # NoFailures
  <2>1. Tells(S, A, M, t, e, F, p) /\ {e.count, e.first, e.until} \subseteq Int
    BY <1>4 DEF CountedFor, Record
  <2> DEFINE B == Earlier(F, e.first)  C == Since(F, e.first)
  <2>2. F = B \cup C /\ B \cap C = {}
    BY <1>1, <2>1 DEF Earlier, Since
  <2>3. IsFiniteSet(B) /\ IsFiniteSet(C) /\ Cardinality(B) \in Nat /\ Cardinality(C) \in Nat
    BY <1>1, PartsFinite
  <2>4. Cardinality(B) <= S + A - 2
    BY <2>1 DEF Tells
  <2>5. CASE e.count < S \/ t < e.until
    <3>1. Cardinality(C) <= S - 1 + A
      <4>1. e.count < S => Cardinality(C) <= e.count
        BY <2>1 DEF Tells
      <4>2. e.count >= S /\ t < e.until => Cardinality(C) + p <= S - 1 + A
        BY <2>1 DEF Tells
      <4> HIDE DEF C
      <4> QED
        BY <2>1, <2>3, <2>5, <4>1, <4>2
    <3> HIDE DEF B, C
    <3>2. Cardinality(B \cup C) = Cardinality(B) + Cardinality(C)
      BY <2>2, <2>3, TwoParts
    <3> QED
      BY <2>2, <2>3, <2>4, <3>1, <3>2
  <2>6. CASE e.count >= S /\ ~(t < e.until)
    <3>1. F = {}
      BY <1>1, <2>1, <2>6 DEF Tells
    <3> QED
      BY <3>1, FS_EmptySet
  <2> QED
    BY <2>1, <2>5, <2>6
<1> QED
  BY <1>3, <1>4
-----------------------------------------------------------------------------
\* The requests of an address that are past the check.
Looked(ip) == {a \in Attempts : step[a] = "compare" /\ from[a] = ip}

LockInv ==
  /\ time \in Nat
  /\ step = [a \in Attempts |-> step[a]] /\ from = [a \in Attempts |-> from[a]]
  /\ failures \in [Addresses -> Record]
  /\ failed = [ip \in Addresses |-> failed[ip]]
  /\ \A ip \in Addresses :
       CountedFor(Strikes, Cardinality(Attempts), Minute, time, failures[ip], failed[ip],
                  Cardinality(Looked(ip)))

LEMMA AuthNumbers ==
  /\ Strikes \in Int /\ Strikes >= 2 /\ Minute \in Int /\ Minute > 0
  /\ IsFiniteSet(Attempts) /\ Cardinality(Attempts) \in Nat
BY AuthAssumption, FS_CardinalityType

LEMMA LookedAreFew ==
  ASSUME NEW ip
  PROVE  /\ IsFiniteSet(Looked(ip)) /\ Cardinality(Looked(ip)) \in Nat
         /\ Cardinality(Looked(ip)) <= Cardinality(Attempts)
<1>1. Looked(ip) \subseteq Attempts
  BY DEF Looked
<1> QED
  BY <1>1, AuthNumbers, Fewer

LEMMA LockStarts == AuthInit => LockInv
<1> SUFFICES ASSUME AuthInit PROVE LockInv
  OBVIOUS
<1>1. /\ failures = [ip \in Addresses |-> NoFailures] /\ failed = [ip \in Addresses |-> {}]
      /\ time = 0
  BY DEF AuthInit
<1>2. NoFailures \in Record
  BY DEF NoFailures, Record
<1>3. step = [a \in Attempts |-> step[a]] /\ from = [a \in Attempts |-> from[a]]
  BY DEF AuthInit
<1>4. \A p : CountedFor(Strikes, Cardinality(Attempts), Minute, time, NoFailures, {}, p)
  <2>1. IsSpan(Minute, time, {})
    BY FS_EmptySet DEF IsSpan
  <2>2. Cardinality({}) = 0
    BY FS_EmptySet
  <2>3. Cardinality({}) <= Strikes + Cardinality(Attempts) - 2
    BY <2>2, AuthNumbers
  <2> QED
    BY <2>1, <2>3 DEF CountedFor
<1>5. failures \in [Addresses -> Record] /\ failed = [ip \in Addresses |-> failed[ip]]
  BY <1>1, <1>2
<1>6. \A ip \in Addresses : failures[ip] = NoFailures /\ failed[ip] = {}
  BY <1>1
<1> QED
  BY <1>1, <1>3, <1>4, <1>5, <1>6 DEF LockInv

\* An entry may be forgotten once it is old and does not lock.
LEMMA Forgets ==
  ASSUME LockInv, NEW ip \in Addresses, failures[ip] # NoFailures, Old(failures[ip]), NEW p
  PROVE  CountedFor(Strikes, Cardinality(Attempts), Minute, time, NoFailures, failed[ip], p)
<1> DEFINE e == failures[ip]  F == failed[ip]  A == Cardinality(Attempts)
           q == Cardinality(Looked(ip))
<1>1. /\ CountedFor(Strikes, A, Minute, time, e, F, q) /\ e # NoFailures
      /\ e \in Record /\ time - e.first > Minute /\ time \in Int /\ time >= 0
  BY DEF LockInv, Old
<1>2. A \in Nat /\ q \in Nat /\ q <= A
  BY AuthNumbers, LookedAreFew
<1> HIDE DEF e, F, A, q
<1>3. (\A g \in F : g.time < time) /\ Cardinality(F) <= Strikes + A - 2
  BY <1>1, <1>2, AuthNumbers, OldCounts
<1>4. IsSpan(Minute, time, F)
  BY <1>1 DEF CountedFor
<1> QED
  BY <1>3, <1>4 DEF CountedFor, F, A

\* What the sweep leaves counts as well.
LEMMA SweepKeeps ==
  ASSUME LockInv
  PROVE  /\ Swept \in [Addresses -> Record]
         /\ \A ip \in Addresses :
              CountedFor(Strikes, Cardinality(Attempts), Minute, time, Swept[ip], failed[ip],
                         Cardinality(Looked(ip)))
<1>1. NoFailures \in Record /\ failures \in [Addresses -> Record]
  BY DEF LockInv, NoFailures, Record
<1>2. Swept \in [Addresses -> Record]
  BY <1>1 DEF Swept
<1>3. ASSUME NEW ip \in Addresses
      PROVE  /\ Swept[ip] \in {failures[ip], NoFailures}
             /\ Swept[ip] # failures[ip] => Old(failures[ip])
  <2>1. CASE Cardinality({j \in Addresses : failures[j] # NoFailures}) > TrackLimit
    <3>1. Swept[ip] = IF time > failures[ip].until /\ Old(failures[ip])
                      THEN NoFailures ELSE failures[ip]
      BY <2>1 DEF Swept
    <3> QED
      BY <3>1
  <2>2. CASE ~(Cardinality({j \in Addresses : failures[j] # NoFailures}) > TrackLimit)
    BY <2>2 DEF Swept
  <2> QED
    BY <2>1, <2>2
<1>4. ASSUME NEW ip \in Addresses
      PROVE  CountedFor(Strikes, Cardinality(Attempts), Minute, time, Swept[ip], failed[ip],
                        Cardinality(Looked(ip)))
  <2>1. CASE Swept[ip] = failures[ip]
    BY <2>1 DEF LockInv
  <2>2. CASE Swept[ip] # failures[ip]
    BY <1>3, <2>2, Forgets
  <2> QED
    BY <1>3, <2>1, <2>2
<1> QED
  BY <1>2, <1>4

LEMMA LookKeeps ==
  ASSUME LockInv, NEW a \in Attempts, NEW ip \in Addresses, NEW t, Look(a, ip, t)
  PROVE  LockInv'
<1> DEFINE forgets == failures[ip] # NoFailures /\ ~Locked(ip) /\ Old(failures[ip])
           enters == ~Locked(ip) /\ t.where = "header"
           A == Cardinality(Attempts)
<1>1. /\ failures' = IF forgets THEN [failures EXCEPT ![ip] = NoFailures] ELSE failures
      /\ failed' = failed /\ time' = time
      /\ step' = IF enters THEN [step EXCEPT ![a] = "compare"] ELSE step
      /\ from' = IF enters THEN [from EXCEPT ![a] = ip] ELSE from
      /\ step[a] = "idle"
  BY DEF Look
<1>2. NoFailures \in Record /\ failures \in [Addresses -> Record]
  BY DEF LockInv, NoFailures, Record
<1>3. failures' \in [Addresses -> Record]
  BY <1>1, <1>2
<1>4. step' = [b \in Attempts |-> step'[b]] /\ from' = [b \in Attempts |-> from'[b]]
  BY <1>1 DEF LockInv
<1>5. ASSUME NEW j \in Addresses
      PROVE  CountedFor(Strikes, A, Minute, time, failures'[j], failed[j], Cardinality(Looked(j)'))
  <2>1. CountedFor(Strikes, A, Minute, time, failures[j], failed[j], Cardinality(Looked(j)))
    BY DEF LockInv
  <2>2. Cardinality(Looked(j)) \in Nat /\ Cardinality(Looked(j)') \in Nat
    <3>1. Looked(j)' \subseteq Attempts
      BY DEF Looked
    <3> QED
      BY <3>1, LookedAreFew, AuthNumbers, Fewer
  <2>3. CASE j # ip
    <3>1. Looked(j)' = Looked(j) /\ failures'[j] = failures[j]
      BY <1>1, <1>2, <2>3 DEF Looked, LockInv
    <3> QED
      BY <2>1, <3>1
  <2>4. CASE j = ip /\ forgets
    <3>1. failures'[j] = NoFailures
      BY <1>1, <1>2, <2>4
    <3> QED
      BY <2>4, <3>1, Forgets
  <2>5. CASE j = ip /\ ~forgets /\ Locked(ip)
    <3>1. Looked(j)' = Looked(j) /\ failures'[j] = failures[j]
      BY <1>1, <2>5 DEF Looked
    <3> QED
      BY <2>1, <3>1
  <2>6. CASE j = ip /\ ~forgets /\ ~Locked(ip)
    <3>1. failures'[j] = failures[j] /\ ~(time < failures[j].until)
      BY <1>1, <2>6 DEF Locked
    <3>2. A \in Nat /\ time \in Int
      BY AuthNumbers DEF LockInv
    <3> DEFINE e == failures[j]  F == failed[j]
               p == Cardinality(Looked(j))  q == Cardinality(Looked(j)')
    <3> HIDE DEF e, F, p, q, A
    <3>3. CountedFor(Strikes, A, Minute, time, e, F, p) /\ ~(time < e.until)
          /\ p \in Nat /\ q \in Nat
      BY <2>1, <2>2, <3>1 DEF e, F, p, q
    <3>4. CountedFor(Strikes, A, Minute, time, e, F, q)
      BY <3>2, <3>3, AuthNumbers, OtherRequests
    <3> QED
      BY <3>1, <3>4 DEF e, F, q
  <2> QED
    BY <2>3, <2>4, <2>5, <2>6
<1> QED
  BY <1>1, <1>3, <1>4, <1>5 DEF LockInv

\* A request that leaves is not past the check any more.
LEMMA LeavesOne ==
  ASSUME LockInv, NEW a \in Attempts, step[a] = "compare", LeaveAuth(a), NEW ip \in Addresses
  PROVE  /\ Cardinality(Looked(ip)') \in Nat
         /\ Cardinality(Looked(ip)') = Cardinality(Looked(ip)) - (IF from[a] = ip THEN 1 ELSE 0)
<1>1. step' = [step EXCEPT ![a] = "idle"]
      /\ \A b \in Attempts \ {a} : from'[b] = from[b]
  BY DEF LeaveAuth, LockInv
<1>2. Looked(ip)' = Looked(ip) \ {a}
  BY <1>1 DEF Looked, LockInv
<1>3. a \in Looked(ip) <=> from[a] = ip
  BY DEF Looked
<1>4. IsFiniteSet(Looked(ip)) /\ Cardinality(Looked(ip)) \in Nat
  BY LookedAreFew
<1>5. Cardinality(Looked(ip) \ {a}) =
        IF a \in Looked(ip) THEN Cardinality(Looked(ip)) - 1 ELSE Cardinality(Looked(ip))
  BY <1>4, FS_RemoveElement
<1>6. Cardinality(Looked(ip) \ {a}) \in Nat
  BY <1>4, Fewer
<1> QED
  BY <1>2, <1>3, <1>4, <1>5, <1>6

LEMMA LeavesWell ==
  ASSUME LockInv, NEW a, LeaveAuth(a)
  PROVE  step' = [b \in Attempts |-> step'[b]] /\ from' = [b \in Attempts |-> from'[b]]
<1>1. step = [b \in Attempts |-> step[b]] /\ from = [b \in Attempts |-> from[b]]
  BY DEF LockInv
<1>2. step' = [step EXCEPT ![a] = "idle"]
      /\ from' = [from EXCEPT ![a] = CHOOSE ip \in Addresses : TRUE]
  BY DEF LeaveAuth
<1>3. step' = [b \in Attempts |-> step'[b]]
  BY <1>1, <1>2
<1>4. from' = [b \in Attempts |-> from'[b]]
  <2> DEFINE j == CHOOSE ip \in Addresses : TRUE
  <2> HIDE DEF j
  <2>1. from' = [from EXCEPT ![a] = j]
    BY <1>2 DEF j
  <2> QED
    BY <1>1, <2>1
<1> QED
  BY <1>3, <1>4

LEMMA RejectKeeps ==
  ASSUME LockInv, NEW a \in Attempts, Reject(a)
  PROVE  LockInv'
<1>0. PICK i : i = from[a]
  OBVIOUS
<1> DEFINE A == Cardinality(Attempts)
           G == WithFailure(i)
           e == IF Swept[i] = NoFailures \/ Old(Swept[i])
                THEN [count |-> 1, first |-> time, until |-> -1] ELSE Counted(Swept[i])
<1>1. /\ failures' = [Swept EXCEPT ![i] = e]
      /\ failed' = [failed EXCEPT ![i] = G]
      /\ step[a] = "compare" /\ LeaveAuth(a) /\ time' = time
  BY <1>0 DEF Reject, RecordFailure
<1>2. /\ Swept \in [Addresses -> Record]
      /\ \A ip \in Addresses : CountedFor(Strikes, A, Minute, time, Swept[ip], failed[ip],
                                          Cardinality(Looked(ip)))
  BY SweepKeeps
<1>3. time \in Int /\ time >= 0 /\ failed = [ip \in Addresses |-> failed[ip]]
  BY DEF LockInv
<1>4. PICK x : G = failed[i] \cup {x} /\ x.time = time
  <2> DEFINE y == [time |-> time, n |-> 1 + Cardinality({f \in failed[i] : f.time = time})]
  <2>1. G = failed[i] \cup {y} /\ y.time = time
    BY DEF WithFailure
  <2> QED
    BY <2>1
<1>5. ASSUME i \in Addresses
      PROVE  e \in Record /\ CountedFor(Strikes, A, Minute, time, e, G, Cardinality(Looked(i)'))
  <2> DEFINE s == Swept[i]  F == failed[i]  p == Cardinality(Looked(i))
  <2>1. s \in Record /\ CountedFor(Strikes, A, Minute, time, s, F, p)
    BY <1>2, <1>5
  <2>2. p \in Nat /\ p <= A /\ A \in Nat
    BY AuthNumbers, LookedAreFew
  <2>3. Cardinality(Looked(i)') = p - 1 /\ Cardinality(Looked(i)') \in Nat
    BY <1>0, <1>1, <1>5, LeavesOne
  <2>4. CASE s = NoFailures \/ Old(s)
    <3>1. e = [count |-> 1, first |-> time, until |-> -1]
      BY <2>4
    <3>2. e \in Record
      BY <1>3, <3>1 DEF Record
    <3> HIDE DEF s, F, p, A, G, e
    <3>3. IsSpan(Minute, time, F)
      BY <2>1 DEF CountedFor
    <3>4. (\A g \in F : g.time < time) /\ Cardinality(F) <= Strikes + A - 2
      <4>1. CASE s = NoFailures
        BY <2>1, <4>1 DEF CountedFor
      <4>2. CASE s # NoFailures
        <5>1. time - s.first > Minute
          BY <2>4, <4>2 DEF Old
        <5> QED
          BY <1>3, <2>1, <2>2, <4>2, <5>1, AuthNumbers, OldCounts
      <4> QED
        BY <4>1, <4>2
    <3>5. CountedFor(Strikes, A, Minute, time, e, F \cup {x}, p - 1)
      BY <1>3, <1>4, <2>2, <3>1, <3>3, <3>4, AuthNumbers, FirstFailure
    <3> QED
      BY <1>4, <2>3, <3>2, <3>5 DEF F
  <2>5. CASE s # NoFailures /\ ~Old(s)
    <3>1. e = Counted(s)
      BY <2>5
    <3>2. time - s.first <= Minute
      BY <1>3, <2>1, <2>5, AuthNumbers DEF Old, Record
    <3> HIDE DEF s
    <3>3. /\ e.count = s.count + 1 /\ e.first = s.first
          /\ e.until = (IF s.count + 1 >= Strikes THEN time + Minute ELSE s.until)
      BY <2>1, <3>1 DEF Counted, Record
    <3>4. e \in Record
      <4> DEFINE q == [s EXCEPT !.count = @ + 1]
                 u == IF s.count + 1 >= Strikes THEN time + Minute ELSE s.until
      <4>1. q \in Record /\ u \in Int
        BY <1>3, <2>1, AuthNumbers DEF Record
      <4>2. e = [q EXCEPT !.until = u]
        BY <3>1 DEF Counted
      <4> HIDE DEF q, u
      <4> QED
        BY <4>1, <4>2 DEF Record
    <3> HIDE DEF F, p, A, G, e
    <3>5. p >= 1
      BY <2>2, <2>3
    <3>6. CountedFor(Strikes, A, Minute, time, e, F \cup {x}, p - 1)
      BY <1>3, <1>4, <2>1, <2>2, <2>5, <3>2, <3>3, <3>4, <3>5, AuthNumbers, NextFailure
    <3> QED
      BY <1>4, <2>3, <3>4, <3>6 DEF F
  <2> QED
    BY <2>4, <2>5
<1> HIDE DEF e, G
<1>6. failures' \in [Addresses -> Record]
  BY <1>1, <1>2, <1>5
<1>7. failed' = [ip \in Addresses |-> failed'[ip]]
  BY <1>1, <1>3
<1>8. ASSUME NEW ip \in Addresses
      PROVE  CountedFor(Strikes, A, Minute, time, failures'[ip], failed'[ip],
                        Cardinality(Looked(ip)'))
  <2>1. CASE ip = i
    <3>1. failures'[ip] = e /\ failed'[ip] = G
      BY <1>1, <1>2, <1>3, <2>1
    <3> QED
      BY <1>5, <2>1, <3>1
  <2>2. CASE ip # i
    <3>1. failures'[ip] = Swept[ip] /\ failed'[ip] = failed[ip]
      BY <1>1, <1>2, <1>3, <2>2
    <3>2. Cardinality(Looked(ip)') = Cardinality(Looked(ip))
      BY <1>0, <1>1, <2>2, LeavesOne, LookedAreFew
    <3> QED
      BY <1>2, <3>1, <3>2
  <2> QED
    BY <2>1, <2>2
<1> QED
  BY <1>1, <1>6, <1>7, <1>8, LeavesWell DEF LockInv

LEMMA AcceptKeeps ==
  ASSUME LockInv, NEW a \in Attempts, Accept(a)
  PROVE  LockInv'
<1>0. PICK i : i = from[a]
  OBVIOUS
<1> DEFINE A == Cardinality(Attempts)
<1>1. /\ failures' = [failures EXCEPT ![i] = NoFailures]
      /\ failed' = [failed EXCEPT ![i] = {}]
      /\ step[a] = "compare" /\ LeaveAuth(a) /\ time' = time
  BY <1>0 DEF Accept, RecordSuccess
<1>2. NoFailures \in Record /\ failures \in [Addresses -> Record] /\ time \in Int
      /\ failed = [ip \in Addresses |-> failed[ip]]
  BY DEF LockInv, NoFailures, Record
<1>3. failures' \in [Addresses -> Record] /\ failed' = [ip \in Addresses |-> failed'[ip]]
  BY <1>1, <1>2
<1>4. ASSUME NEW ip \in Addresses
      PROVE  CountedFor(Strikes, A, Minute, time, failures'[ip], failed'[ip],
                        Cardinality(Looked(ip)'))
  <2>1. CASE ip = i
    <3>1. failures'[ip] = NoFailures /\ failed'[ip] = {}
      BY <1>1, <1>2, <2>1
    <3>2. Cardinality({}) <= Strikes + A - 2
      <4>1. Cardinality({}) = 0
        BY FS_EmptySet
      <4> QED
        BY <4>1, AuthNumbers
    <3> QED
      BY <3>1, <3>2, FS_EmptySet DEF CountedFor, IsSpan
  <2>2. CASE ip # i
    <3>1. failures'[ip] = failures[ip] /\ failed'[ip] = failed[ip]
      BY <1>1, <1>2, <2>2
    <3>2. Cardinality(Looked(ip)') = Cardinality(Looked(ip))
      BY <1>0, <1>1, <2>2, LeavesOne, LookedAreFew
    <3> QED
      BY <3>1, <3>2 DEF LockInv
  <2> QED
    BY <2>1, <2>2
<1> QED
  BY <1>1, <1>3, <1>4, LeavesWell DEF LockInv

LEMMA AuthTickKeeps ==
  ASSUME LockInv, AuthTick
  PROVE  LockInv'
<1> DEFINE A == Cardinality(Attempts)
<1>1. /\ time' = time + 1 /\ failures' = failures /\ step' = step /\ from' = from
      /\ failed' = [ip \in Addresses |-> {f \in failed[ip] : f.time > time + 1 - Minute}]
  BY DEF AuthTick
<1>2. ASSUME NEW ip \in Addresses
      PROVE  CountedFor(Strikes, A, Minute, time', failures'[ip], failed'[ip],
                        Cardinality(Looked(ip)'))
  <2> DEFINE e == failures[ip]  F == failed[ip]  p == Cardinality(Looked(ip))
  <2>1. Looked(ip)' = Looked(ip) /\ failures'[ip] = e
        /\ failed'[ip] = {f \in F : f.time > time + 1 - Minute}
    BY <1>1 DEF Looked
  <2>2. CountedFor(Strikes, A, Minute, time, e, F, p) /\ e \in Record /\ time \in Int
    BY DEF LockInv
  <2>3. p \in Nat /\ A \in Nat
    BY LookedAreFew, AuthNumbers
  <2> HIDE DEF e, F, p, A
  <2>4. CountedFor(Strikes, A, Minute, time + 1, e, {f \in F : f.time > time + 1 - Minute}, p)
    BY <2>2, <2>3, AuthNumbers, MinuteMovesOn
  <2> QED
    BY <1>1, <2>1, <2>4 DEF p
<1>3. time' \in Nat /\ failed' = [ip \in Addresses |-> failed'[ip]]
  BY <1>1 DEF LockInv
<1> QED
  BY <1>1, <1>2, <1>3 DEF LockInv

\* For any number of requests, addresses and credentials, any number of strikes
\* from two and any bound of the table: however the requests of an address
\* overlap, a minute without a success holds fewer than twice Strikes - 1
\* failures and one for each request under way (admin_auth.go:31-83).
THEOREM LockoutLasts == AuthSpec => []LockoutHolds
<1>1. LockInv => LockoutHolds
  <2> SUFFICES ASSUME LockInv, NEW ip \in Addresses
               PROVE  Cardinality(failed[ip]) < 2 * (Strikes - 1 + Cardinality(Attempts))
    BY DEF LockoutHolds
  <2>1. /\ CountedFor(Strikes, Cardinality(Attempts), Minute, time, failures[ip], failed[ip],
                      Cardinality(Looked(ip)))
        /\ failures[ip] \in Record /\ time \in Int /\ time >= 0
    BY DEF LockInv
  <2> QED
    BY <2>1, AuthNumbers, LookedAreFew, MinuteHolds
<1>2. LockInv /\ [AuthNext]_authVars => LockInv'
  <2> SUFFICES ASSUME LockInv, [AuthNext]_authVars PROVE LockInv'
    OBVIOUS
  <2>1. CASE UNCHANGED authVars
    BY <2>1 DEF authVars, LockInv, Looked
  <2> QED
    BY <2>1, LookKeeps, RejectKeeps, AcceptKeeps, AuthTickKeeps DEF AuthNext
<1> QED
  BY <1>1, <1>2, LockStarts, PTL DEF AuthSpec

-----------------------------------------------------------------------------
(* Module Tokens: the shared credential *)

Places == {"start", "do", "wait", "lead", "request", "cookie", "woken", "use", "ended"}
Calls == [pc : Places, have : Nat, again : BOOLEAN]
Creds == [tok : Nat, resting : BOOLEAN, err : BOOLEAN, cookie : BOOLEAN, fresh : BOOLEAN]

TokensTypeOK ==
  /\ style \in Styles
  /\ cred \in Creds
  /\ minted \in Nat
  /\ leader \in Users \cup {Nobody}
  /\ user \in [Users -> Calls]

\* Only a single flight has a second look, only Musixmatch a cookie.
PlaceOfStyle ==
  \A u \in Users :
    /\ user[u].pc = "lead" => style = "flight"
    /\ user[u].pc = "cookie" => style = "web"

\* Whoever fetches for the others is the one who leads.
FetcherLeads ==
  style # "web" => \A u \in Users : user[u].pc \in {"lead", "request"} => leader = u

\* Nothing is cached while the leader asks.
AskedForNeed ==
  style \notin {"web", "qq"} => \A u \in Users : user[u].pc = "request" => cred.tok = 0

CredInv == TokensTypeOK /\ PlaceOfStyle /\ FetcherLeads /\ AskedForNeed

-----------------------------------------------------------------------------
LEMMA InitCred == TokensInit => CredInv
<1> SUFFICES ASSUME TokensInit PROVE CredInv
  OBVIOUS
<1>1. cred \in Creds
  <2>1. PICK cookie \in BOOLEAN : cred = [EmptyCred EXCEPT !.cookie = cookie]
    BY DEF TokensInit
  <2> QED
    BY <2>1 DEF Creds, EmptyCred
<1>2. IdleUser \in Calls /\ IdleUser.pc = "start"
  BY DEF IdleUser, Calls, Places
<1>3. user \in [Users -> Calls] /\ \A u \in Users : user[u].pc = "start"
  BY <1>2 DEF TokensInit
<1> QED
  BY <1>1, <1>3 DEF TokensInit, CredInv, TokensTypeOK, PlaceOfStyle, FetcherLeads, AskedForNeed

\* A caller goes where it fetches for nobody, and the cache gains no token.
LEMMA StepAside ==
  ASSUME CredInv, NEW u \in Users, NEW r \in Calls,
         \/ r.pc \notin {"lead", "request", "cookie"}
         \/ style = "web" /\ r.pc # "lead",
         user' = [user EXCEPT ![u] = r], style' = style,
         leader' = leader,
         minted' \in Nat, cred' \in Creds,
         cred'.tok \in {0, cred.tok} \/ style = "web"
  PROVE  CredInv'
<1>1. user'[u] = r /\ \A v \in Users \ {u} : user'[v] = user[v]
  BY DEF CredInv, TokensTypeOK
<1>2. TokensTypeOK'
  BY DEF CredInv, TokensTypeOK
<1>3. PlaceOfStyle'
  BY <1>1 DEF CredInv, PlaceOfStyle
<1>4. FetcherLeads'
  BY <1>1 DEF CredInv, FetcherLeads
<1>5. AskedForNeed'
  BY <1>1 DEF CredInv, AskedForNeed
<1> QED
  BY <1>2, <1>3, <1>4, <1>5 DEF CredInv

\* A caller takes the lead where nobody has it, or asks as the leader.
LEMMA StepIn ==
  ASSUME CredInv, NEW u \in Users, NEW r \in Calls,
         style # "web",
         \/ r.pc = "lead" /\ style = "flight"
         \/ r.pc = "request" /\ (style = "qq" \/ cred.tok = 0),
         leader \in {Nobody, u}, leader' = u,
         user' = [user EXCEPT ![u] = r], style' = style, minted' = minted,
         cred' \in Creds, cred'.tok = cred.tok
  PROVE  CredInv'
<1>1. user'[u] = r /\ \A v \in Users \ {u} : user'[v] = user[v]
  BY DEF CredInv, TokensTypeOK
<1>2. \A v \in Users \ {u} : user[v].pc \notin {"lead", "request"}
  BY TokensAssumption DEF CredInv, FetcherLeads
<1>3. TokensTypeOK'
  BY DEF CredInv, TokensTypeOK
<1>4. PlaceOfStyle'
  BY <1>1 DEF CredInv, PlaceOfStyle
<1>5. FetcherLeads'
  BY <1>1, <1>2 DEF FetcherLeads
<1>6. AskedForNeed'
  BY <1>1, <1>2 DEF AskedForNeed
<1> QED
  BY <1>3, <1>4, <1>5, <1>6 DEF CredInv

\* The leader is done, and nobody who waited fetches for the others.
LEMMA LeadEnds ==
  ASSUME CredInv, NEW u \in Users,
         user[u].pc \in {"lead", "request"},
         style' = style, leader' = IF style = "web" THEN leader ELSE Nobody,
         user' \in [Users -> Calls], minted' \in Nat, cred' \in Creds,
         \A v \in Users : \/ user'[v].pc \in {"use", "ended", "woken"}
                          \/ v # u /\ user'[v] = user[v]
  PROVE  CredInv'
<1>1. TokensTypeOK'
  BY DEF CredInv, TokensTypeOK
<1>2. PlaceOfStyle'
  BY DEF CredInv, PlaceOfStyle
<1>3. ASSUME style # "web", NEW v \in Users
      PROVE  user'[v].pc \notin {"lead", "request"}
  BY <1>3 DEF CredInv, FetcherLeads
<1>4. FetcherLeads'
  BY <1>3 DEF FetcherLeads
<1>5. AskedForNeed'
  BY <1>3 DEF AskedForNeed
<1> QED
  BY <1>1, <1>2, <1>4, <1>5 DEF CredInv

-----------------------------------------------------------------------------
LEMMA GoMoves ==
  ASSUME TokensTypeOK, NEW u \in Users, NEW pc \in Places, Go(u, pc)
  PROVE  \E r \in Calls : r.pc = pc /\ user' = [user EXCEPT ![u] = r]
<1> DEFINE r == [user[u] EXCEPT !.pc = pc]
<1>1. r \in Calls /\ r.pc = pc
  BY DEF TokensTypeOK, Calls
<1>2. user' = [user EXCEPT ![u] = r]
  BY DEF Go
<1> QED
  BY <1>1, <1>2

LEMMA WithMoves ==
  ASSUME TokensTypeOK, NEW u \in Users, NEW tok \in Nat, With(u, tok)
  PROVE  \E r \in Calls : r.pc = "use" /\ user' = [user EXCEPT ![u] = r]
<1> DEFINE r == [user[u] EXCEPT !.pc = "use", !.have = tok]
<1>1. r \in Calls /\ r.pc = "use"
  BY DEF TokensTypeOK, Calls, Places
<1>2. user' = [user EXCEPT ![u] = r]
  BY DEF With, TokensTypeOK, Calls
<1> QED
  BY <1>1, <1>2

LEMMA LeaveMoves ==
  ASSUME NEW u \in Users, UserLeaves(u)
  PROVE  \E r \in Calls : r.pc = "ended" /\ user' = [user EXCEPT ![u] = r]
  BY DEF UserLeaves, Ended, Calls, Places

\* A caller that only looks at the cache, or leaves it.
LEMMA Aside ==
  ASSUME CredInv, NEW u \in Users,
         \/ \E pc \in Places : Go(u, pc) /\ (\/ pc \notin {"lead", "request", "cookie"}
                                             \/ style = "web" /\ pc # "lead")
         \/ \E tok \in Nat : With(u, tok)
         \/ UserLeaves(u),
         style' = style, leader' = leader, minted' \in Nat, cred' \in Creds,
         cred'.tok \in {0, cred.tok} \/ style = "web"
  PROVE  CredInv'
<1>1. \E r \in Calls : /\ \/ r.pc \notin {"lead", "request", "cookie"}
                          \/ style = "web" /\ r.pc # "lead"
                       /\ user' = [user EXCEPT ![u] = r]
  BY GoMoves, WithMoves, LeaveMoves DEF CredInv
<1> QED
  BY <1>1, StepAside

\* A caller that takes the lead, or asks as the leader.
LEMMA In ==
  ASSUME CredInv, NEW u \in Users, NEW pc \in {"lead", "request"}, Go(u, pc),
         style # "web",
         \/ pc = "lead" /\ style = "flight"
         \/ pc = "request" /\ (style = "qq" \/ cred.tok = 0),
         leader \in {Nobody, u}, leader' = u,
         style' = style, minted' = minted,
         cred' \in Creds, cred'.tok = cred.tok
  PROVE  CredInv'
<1>1. \E r \in Calls : r.pc = pc /\ user' = [user EXCEPT ![u] = r]
  BY GoMoves DEF CredInv, Places
<1> QED
  BY <1>1, StepIn

\* The end of a request, whatever its result.
LEMMA Released ==
  ASSUME CredInv, NEW u \in Users, UserAt(u, "request"),
         NEW r \in Calls, r.pc \in {"use", "ended"}, Release(u, r),
         style' = style, minted' \in Nat, cred' \in Creds
  PROVE  CredInv'
<1>1. [r EXCEPT !.again = user[u].again] \in Calls
  BY DEF CredInv, TokensTypeOK, Calls
<1>2. \A v \in Users : [user[v] EXCEPT !.pc = "woken"] \in Calls
  BY DEF CredInv, TokensTypeOK, Calls, Places
<1>3. user' \in [Users -> Calls]
  BY <1>1, <1>2 DEF CredInv, TokensTypeOK, Release
<1>4. ASSUME NEW v \in Users
      PROVE  \/ user'[v].pc \in {"use", "ended", "woken"}
             \/ v # u /\ user'[v] = user[v]
  <2>1. [r EXCEPT !.again = user[u].again].pc = r.pc
    BY DEF Calls
  <2>2. [user[v] EXCEPT !.pc = "woken"].pc = "woken"
    BY DEF CredInv, TokensTypeOK, Calls
  <2> QED
    BY <2>1, <2>2 DEF Release
<1>5. leader' = IF style = "web" THEN leader ELSE Nobody
  BY DEF Release
<1> QED
  BY <1>3, <1>4, <1>5, LeadEnds DEF UserAt

-----------------------------------------------------------------------------
LEMMA CredStep == CredInv /\ [TokensNext]_tokensVars => CredInv'
<1> SUFFICES ASSUME CredInv, [TokensNext]_tokensVars PROVE CredInv'
  OBVIOUS
<1> USE DEF Miss
<1>0. cred \in Creds /\ cred.tok \in Nat /\ minted \in Nat /\ 0 \in Nat
  BY DEF CredInv, TokensTypeOK, Creds
<1>1. ASSUME NEW u \in Users, ReadFlight(u) PROVE CredInv'
  BY <1>0, <1>1, Aside DEF ReadFlight, Hit, Cooling, Places
<1>2. ASSUME NEW u \in Users, Do(u) PROVE CredInv'
  <2>1. CASE leader = Nobody /\ leader' = u /\ Go(u, "lead")
    BY <1>0, <1>2, <2>1, In DEF Do
  <2>2. CASE leader' = leader /\ Go(u, "wait")
    BY <1>0, <1>2, <2>2, Aside DEF Do, Places
  <2> QED
    BY <1>2, <2>1, <2>2 DEF Do
<1>3. ASSUME NEW u \in Users, Lead(u) PROVE CredInv'
  <2>1. CASE cred.tok # 0 /\ Deliver(u, Using(cred.tok)) /\ leader' = Nobody
    <3>1. Using(cred.tok) \in Calls /\ Using(cred.tok).pc = "use"
      BY <1>0 DEF Using, Calls, Places
    <3>2. user' \in [Users -> Calls]
      BY <2>1, <3>1 DEF Deliver, CredInv, TokensTypeOK
    <3>3. \A v \in Users : \/ user'[v].pc = "use"
                           \/ v # u /\ user'[v] = user[v]
      BY <2>1, <3>1 DEF Deliver
    <3>4. user[u].pc = "lead" /\ style = "flight"
      BY <1>3 DEF Lead, UserAt, CredInv, PlaceOfStyle
    <3>5. style' = style /\ cred' = cred /\ minted' = minted
      BY <1>3 DEF Lead
    <3> QED
      BY <1>0, <2>1, <3>2, <3>3, <3>4, <3>5, LeadEnds
  <2>2. CASE cred.tok = 0 /\ Go(u, "request") /\ leader' = leader
    <3>1. style = "flight" /\ leader = u
      BY <1>3 DEF Lead, UserAt, CredInv, PlaceOfStyle, FetcherLeads
    <3> QED
      BY <1>0, <1>3, <2>2, <3>1, In DEF Lead
  <2> QED
    BY <1>3, <2>1, <2>2 DEF Lead
<1>4. ASSUME NEW u \in Users, ReadWeb(u) PROVE CredInv'
  BY <1>0, <1>4, Aside DEF ReadWeb, Hit, Cooling, Places
<1>5. ASSUME NEW u \in Users, TakeCookie(u) PROVE CredInv'
  <2>1. style = "web"
    BY <1>5 DEF TakeCookie, UserAt, CredInv, PlaceOfStyle
  <2>2. minted' \in Nat /\ cred' \in Creds
    <3>1. minted' \in Nat
      BY <1>0, <1>5 DEF TakeCookie, Mint
    <3> QED
      BY <1>0, <1>5, <3>1 DEF TakeCookie, Creds
  <2> QED
    BY <1>5, <2>1, <2>2, Aside DEF TakeCookie
<1>6. ASSUME NEW u \in Users, EnsureLoggedIn(u) PROVE CredInv'
  <2>1. CASE Miss /\ leader = Nobody /\ Go(u, "request") /\ leader' = u
             /\ cred' = [cred EXCEPT !.err = FALSE]
    <3>1. cred' \in Creds /\ cred'.tok = cred.tok
      BY <1>0, <2>1 DEF Creds
    <3> QED
      BY <1>6, <2>1, <3>1, In DEF EnsureLoggedIn
  <2>2. CASE (Hit(u) \/ Cooling(u) \/ Go(u, "wait")) /\ UNCHANGED <<cred, leader>>
    BY <1>0, <1>6, <2>2, Aside DEF EnsureLoggedIn, Hit, Cooling, Places
  <2> QED
    BY <1>6, <2>1, <2>2 DEF EnsureLoggedIn
<1>7. ASSUME NEW u \in Users, StopWaiting(u) PROVE CredInv'
  BY <1>0, <1>7, Aside DEF StopWaiting
<1>8. ASSUME NEW u \in Users, Woken(u) PROVE CredInv'
  BY <1>0, <1>8, Aside DEF Woken
<1>9. ASSUME NEW u \in Users, LockApple(u) PROVE CredInv'
  <2>1. CASE Miss /\ Go(u, "request") /\ leader' = u
    BY <1>0, <1>9, <2>1, In DEF LockApple
  <2>2. CASE (Hit(u) \/ Cooling(u)) /\ leader' = leader
    BY <1>0, <1>9, <2>2, Aside DEF LockApple, Hit, Cooling
  <2> QED
    BY <1>9, <2>1, <2>2 DEF LockApple
<1>10. ASSUME NEW u \in Users, ReadSession(u) PROVE CredInv'
  BY <1>0, <1>10, Aside DEF ReadSession, Places
<1>11. ASSUME NEW u \in Users, LockSession(u) PROVE CredInv'
  <2>1. CASE Go(u, "request") /\ leader' = u /\ cred' = [cred EXCEPT !.fresh = TRUE]
    <3>1. cred' \in Creds /\ cred'.tok = cred.tok
      BY <1>0, <2>1 DEF Creds
    <3> QED
      BY <1>11, <2>1, <3>1, In DEF LockSession
  <2>2. CASE With(u, cred.tok) /\ UNCHANGED <<cred, leader>>
    BY <1>0, <1>11, <2>2, Aside DEF LockSession
  <2> QED
    BY <1>11, <2>1, <2>2 DEF LockSession
<1>12. ASSUME NEW u \in Users, TokenGranted(u) PROVE CredInv'
  <2>1. minted' \in Nat /\ cred' \in Creds
    <3>1. minted' \in Nat
      BY <1>0, <1>12 DEF TokenGranted, Mint
    <3> QED
      BY <1>0, <1>12, <3>1 DEF TokenGranted, Creds
  <2>2. Using(minted') \in Calls /\ Using(minted').pc = "use"
    BY <2>1 DEF Using, Calls, Places
  <2> QED
    BY <1>12, <2>1, <2>2, Released DEF TokenGranted
<1>13. ASSUME NEW u \in Users, Denied(u) PROVE CredInv'
  <2>1. cred' \in Creds
    BY <1>0, <1>13 DEF Denied, Creds
  <2>2. Ended \in Calls /\ Ended.pc = "ended"
    BY DEF Ended, Calls, Places
  <2> QED
    BY <1>0, <1>13, <2>1, <2>2, Released DEF Denied
<1>14. ASSUME NEW u \in Users, Garbled(u) PROVE CredInv'
  <2>1. /\ Ended \in Calls /\ Ended.pc = "ended"
        /\ Using(cred.tok) \in Calls /\ Using(cred.tok).pc = "use"
    BY <1>0 DEF Ended, Using, Calls, Places
  <2> QED
    BY <1>0, <1>14, <2>1, Released DEF Garbled
<1>15. ASSUME NEW u \in Users, Served(u) PROVE CredInv'
  BY <1>0, <1>15, Aside DEF Served
<1>16. ASSUME NEW u \in Users, DropShared(u) PROVE CredInv'
  <2>1. cred' \in Creds /\ cred'.tok = 0
    BY <1>0, <1>16 DEF DropShared, Creds
  <2> QED
    BY <1>0, <1>16, <2>1, Aside DEF DropShared
<1>17. ASSUME NEW u \in Users, InvalidateWeb(u) \/ DropOwn(u) PROVE CredInv'
  <2> DEFINE r == [IdleUser EXCEPT !.again = TRUE]
  <2>1. r \in Calls /\ r.pc = "start"
    BY DEF IdleUser, Calls, Places
  <2>2. cred' \in Creds /\ cred'.tok \in {0, cred.tok}
    BY <1>0, <1>17 DEF InvalidateWeb, DropOwn, Creds
  <2>3. user' = [user EXCEPT ![u] = r] /\ UNCHANGED <<style, minted, leader>>
    BY <1>17 DEF InvalidateWeb, DropOwn
  <2> QED
    BY <1>0, <2>1, <2>2, <2>3, StepAside
<1>18. CASE RunOut
  <2>1. cred' \in Creds /\ cred'.tok \in {0, cred.tok}
    BY <1>0, <1>18 DEF RunOut, Creds
  <2> QED
    BY <1>18, <2>1 DEF RunOut, CredInv, TokensTypeOK, PlaceOfStyle, FetcherLeads, AskedForNeed
<1>19. CASE UNCHANGED tokensVars
  BY <1>19 DEF tokensVars, CredInv, TokensTypeOK, PlaceOfStyle, FetcherLeads, AskedForNeed
<1> QED
  BY <1>1, <1>2, <1>3, <1>4, <1>5, <1>6, <1>7, <1>8, <1>9, <1>10, <1>11, <1>12, <1>13, <1>14,
     <1>15, <1>16, <1>17, <1>18, <1>19 DEF TokensNext

\* Whoever asks for a token that others share asks alone, as the leader, and
\* only while none is cached (the flights of spotify.go and deezer.go, the login
\* of musixmatch.go, the lock of apple.go).
THEOREM AskedOnlyForNeed == TokensSpec => [](FetcherLeads /\ AskedForNeed)
<1>1. CredInv => FetcherLeads /\ AskedForNeed
  BY DEF CredInv
<1> QED
  BY <1>1, InitCred, CredStep, PTL DEF TokensSpec

-----------------------------------------------------------------------------
\* Only a refusal puts the cooldown there, and whoever is refused asked while
\* nothing was cached.
LEMMA KeptByStep ==
  CredInv /\ [TokensNext]_tokensVars
    => [style # "web" /\ cred.tok # 0 /\ ~cred.resting => ~cred'.resting]_tokensVars
<1> SUFFICES ASSUME CredInv, [TokensNext]_tokensVars,
                    style # "web", cred.tok # 0, ~cred.resting
             PROVE  ~cred'.resting
  BY DEF tokensVars
<1>1. cred \in Creds
  BY DEF CredInv, TokensTypeOK
<1>2. ASSUME NEW u \in Users PROVE ~Denied(u)
  BY DEF CredInv, AskedForNeed, Denied, UserAt
<1>3. CASE cred' = cred
  BY <1>3
<1>4. ASSUME NEW u \in Users,
             TakeCookie(u) \/ EnsureLoggedIn(u) \/ LockSession(u) \/ TokenGranted(u)
             \/ DropShared(u) \/ InvalidateWeb(u) \/ DropOwn(u)
      PROVE  ~cred'.resting
  BY <1>1, <1>4
     DEF TakeCookie, EnsureLoggedIn, LockSession, TokenGranted, DropShared, InvalidateWeb, DropOwn,
         Creds
<1>5. CASE RunOut
  BY <1>1, <1>5 DEF RunOut, Creds
<1>6. ASSUME NEW u \in Users,
             \/ ReadFlight(u) \/ Do(u) \/ Lead(u) \/ ReadWeb(u) \/ StopWaiting(u) \/ Woken(u)
             \/ LockApple(u) \/ ReadSession(u) \/ Garbled(u) \/ Served(u)
      PROVE  cred' = cred
  BY <1>6 DEF ReadFlight, Do, Lead, ReadWeb, StopWaiting, Woken, LockApple, ReadSession, Garbled,
              Served
<1> QED
  BY <1>2, <1>3, <1>4, <1>5, <1>6 DEF TokensNext, tokensVars

\* A failed fetch never puts a cooldown in place of a token that is still good,
\* for any set of callers and whatever runs out when (denied requests in
\* spotify.go, deezer.go, apple.go and the application's login of musixmatch.go).
THEOREM CooldownSparesGoodTokens == TokensSpec => GoodTokenKept
<1> QED
  BY InitCred, CredStep, KeptByStep, PTL DEF TokensSpec, GoodTokenKept

-----------------------------------------------------------------------------
(* Module Qaple: the two sides of the composed source *)

QaplePlaces == {"store", "fetch", "report", "back", "sent"}
QapleCauses == {"none", "own", "cancelled", "masked", "deadline", "cooldown"}
QapleValues == Forms \cup {Nothing, Failed, Unread}
QapleSides == [pc : QaplePlaces, source : {"qq", "apple", "musixmatch"},
               value : QapleValues, cause : QapleCauses]
LoginStates == [left : Nat, by : {"nobody", "us", "them"}, age : Nat]

\* A provider puts words of its own to a cancellation only after there was one,
\* and a cancelled context stays cancelled; no cause is "stale".
QapleInv ==
  /\ side \in [Sides -> QapleSides]
  /\ ctx \in {"live", "cancelled", "deadline"}
  /\ \A s \in Sides : side[s].cause = "masked" => ctx = "cancelled"
  /\ blame \subseteq {"cooldown"}

\* What is left of a cooldown and what has passed of it make no more than it.
CoolsInTime(l) == l \in LoginStates /\ (l.left > 0 => l.left + l.age <= CoolTime)
LoginInv == login \in [Logins -> LoginStates] /\ \A p \in Logins : CoolsInTime(login[p])

LEMMA NewLogins ==
  /\ CoolsInTime(Free) /\ Free \in LoginStates
  /\ \A who \in {"us", "them"} : CoolsInTime(Broken(who)) /\ Broken(who) \in LoginStates
  BY CoolTimeAssumption DEF CoolsInTime, Free, Broken, LoginStates

LEMMA LoginStep == LoginInv /\ [QapleNext]_qapleVars => LoginInv'
<1> SUFFICES ASSUME LoginInv, [QapleNext]_qapleVars PROVE LoginInv'
  OBVIOUS
<1> USE DEF LoginInv
<1>1. CASE UNCHANGED login
  BY <1>1
<1>2. ASSUME NEW p \in Logins, NEW l \in {Free, Broken("us"), Broken("them")},
             login' = [login EXCEPT ![p] = l]
      PROVE  LoginInv'
  <2>1. CoolsInTime(l) /\ l \in LoginStates
    BY <1>2, NewLogins
  <2> QED
    BY <1>2, <2>1
<1>3. ASSUME NEW s \in Sides, Fetched(s), ~UNCHANGED login PROVE LoginInv'
  <2> DEFINE p == side[s].source
  <2>1. PICK cause \in {"none"} \cup Causes(p) :
          p \in Logins /\ \E l \in LoginAfter(p, cause) : login' = [login EXCEPT ![p] = l]
    BY <1>3 DEF Fetched
  <2>2. LoginAfter(p, cause) \subseteq {Free, Broken("us"), Broken("them")}
    BY <2>1 DEF LoginAfter
  <2> QED
    BY <1>2, <2>1, <2>2
<1>4. CASE OtherCall
  BY <1>2, <1>4 DEF OtherCall
<1>5. CASE CoolsDown
  <2> DEFINE After(l) == IF l.left <= 1 THEN Free
                        ELSE [l EXCEPT !.left = @ - 1, !.age = IF @ < CoolTime THEN @ + 1 ELSE @]
  <2>1. login' = [p \in Logins |-> After(login[p])]
    BY <1>5 DEF CoolsDown
  <2>2. ASSUME NEW l \in LoginStates, CoolsInTime(l) PROVE CoolsInTime(After(l)) /\ After(l) \in LoginStates
    <3>1. CASE l.left <= 1
      BY <3>1, NewLogins
    <3>2. CASE ~(l.left <= 1)
      <4> DEFINE older == IF l.age < CoolTime THEN l.age + 1 ELSE l.age
                 n == [l EXCEPT !.left = l.left - 1, !.age = older]
      <4>1. l.left \in Nat /\ l.age \in Nat /\ l.left > 1 /\ l.left + l.age <= CoolTime
        BY <2>2, <3>2 DEF CoolsInTime, LoginStates
      <4>2. older \in Nat /\ older <= l.age + 1 /\ l.left - 1 \in Nat
        BY <4>1, CoolTimeAssumption
      <4>3. n \in LoginStates /\ n.left = l.left - 1 /\ n.age = older
        BY <4>2 DEF LoginStates
      <4>4. CoolsInTime(n)
        BY <4>1, <4>2, <4>3, CoolTimeAssumption DEF CoolsInTime
      <4>5. After(l) = n
        BY <3>2
      <4> QED
        BY <4>3, <4>4, <4>5
    <3> QED
      BY <3>1, <3>2
  <2> HIDE DEF After
  <2> QED
    BY <2>1, <2>2
<1>6. ASSUME NEW s \in Sides,
             Stored(s) \/ BreakerOpen(s) \/ Report(s) \/ Back(s) \/ Collect(s)
      PROVE  LoginInv'
  BY <1>1, <1>6 DEF Stored, BreakerOpen, Report, Back, Collect
<1>7. CASE ParentEnds \/ Interrupted \/ NextCall \/ UNCHANGED qapleVars
  BY <1>1, <1>7 DEF ParentEnds, Interrupted, NextCall, qapleVars
<1> QED
  BY <1>1, <1>3, <1>4, <1>5, <1>6, <1>7 DEF QapleNext

\* Who still refuses broke off a moment ago.
LEMMA RefusedInTime ==
  ASSUME LoginInv, NEW p, NEW cause \in Causes(p)
  PROVE  cause \in QapleCauses /\ (cause = "masked" => ctx = "cancelled")
<1>1. ASSUME p \in Logins, login[p].left > 0 PROVE RefusedBy(p) = "cooldown"
  <2>1. login[p] \in LoginStates /\ login[p].left + login[p].age <= CoolTime
    BY <1>1 DEF LoginInv, CoolsInTime
  <2>2. login[p].age < CoolTime
    BY <1>1, <2>1, CoolTimeAssumption DEF LoginStates
  <2> QED
    BY <2>2 DEF RefusedBy
<1>2. cause \in {"own", "cancelled", "masked", "deadline", "cooldown"}
  BY <1>1 DEF Causes
<1>3. cause = "masked" => ctx = "cancelled"
  BY <1>1 DEF Causes
<1> QED
  BY <1>2, <1>3 DEF QapleCauses

LEMMA StartIsWell == AtStart \in [Sides -> QapleSides] /\ \A s \in Sides : AtStart[s].cause = "none"
  BY DEF AtStart, QapleSides, QaplePlaces, QapleValues, QapleCauses

LEMMA QapleStep == QapleInv /\ LoginInv /\ [QapleNext]_qapleVars => QapleInv'
<1> SUFFICES ASSUME QapleInv, LoginInv, [QapleNext]_qapleVars PROVE QapleInv'
  OBVIOUS
<1> USE DEF QapleInv
<1>1. ASSUME NEW s \in Sides, NEW r \in QapleSides, side' = [side EXCEPT ![s] = r],
             r.cause = "masked" => ctx = "cancelled", ctx' = ctx, blame' = blame
      PROVE  QapleInv'
  BY <1>1
<1>2. ASSUME NEW s \in Sides, NEW value \in QapleValues, Send(s, value), ctx' = ctx, blame' = blame
      PROVE  QapleInv'
  <2> DEFINE r == [side[s] EXCEPT !.pc = "sent", !.value = value, !.cause = "none"]
  <2>1. r \in QapleSides /\ r.cause = "none"
    BY DEF QapleSides, QaplePlaces, QapleCauses
  <2>2. side' = [side EXCEPT ![s] = r]
    BY <1>2 DEF Send, QapleSides
  <2> QED
    BY <1>1, <1>2, <2>1, <2>2
<1>3. ASSUME NEW s \in Sides, NEW pc \in QaplePlaces, side' = [side EXCEPT ![s].pc = pc],
             ctx' = ctx, blame' = blame
      PROVE  QapleInv'
  <2> DEFINE r == [side[s] EXCEPT !.pc = pc]
  <2>1. r \in QapleSides /\ r.cause = side[s].cause
    BY DEF QapleSides
  <2>2. side' = [side EXCEPT ![s] = r]
    BY <1>3
  <2> QED
    BY <1>1, <1>3, <2>1, <2>2
<1>4. ASSUME NEW s \in Sides, Stored(s) PROVE QapleInv'
  BY <1>2, <1>3, <1>4 DEF Stored, QaplePlaces, QapleValues
<1>5. ASSUME NEW s \in Sides, BreakerOpen(s) PROVE QapleInv'
  <2> DEFINE r == [side[s] EXCEPT !.pc = "back", !.value = Failed]
  <2>1. r \in QapleSides /\ r.cause = side[s].cause
    BY DEF QapleSides, QaplePlaces, QapleValues
  <2>2. side' = [side EXCEPT ![s] = r]
    BY <1>5 DEF BreakerOpen, QapleSides
  <2> QED
    BY <1>1, <1>5, <2>1, <2>2 DEF BreakerOpen
<1>6. ASSUME NEW s \in Sides, Fetched(s) PROVE QapleInv'
  <2>1. PICK value \in Forms \cup {Nothing, Failed}, cause \in {"none"} \cup Causes(side[s].source) :
          side' = [side EXCEPT ![s].pc = "report", ![s].value = value, ![s].cause = cause]
    BY <1>6 DEF Fetched
  <2>2. cause \in QapleCauses /\ (cause = "masked" => ctx = "cancelled")
    BY <2>1, RefusedInTime DEF QapleCauses
  <2> DEFINE r == [side[s] EXCEPT !.pc = "report", !.value = value, !.cause = cause]
  <2>3. r \in QapleSides /\ r.cause = cause
    BY <2>2 DEF QapleSides, QaplePlaces, QapleValues
  <2>4. side' = [side EXCEPT ![s] = r]
    BY <2>1 DEF QapleSides
  <2> QED
    BY <1>1, <1>6, <2>2, <2>3, <2>4 DEF Fetched
<1>10. ASSUME NEW s \in Sides, Report(s) PROVE QapleInv'
  <2> DEFINE r == [side[s] EXCEPT !.pc = "back", !.cause = "none"]
  <2>1. r \in QapleSides /\ r.cause = "none" /\ side[s].cause \in QapleCauses
    BY DEF QapleSides, QaplePlaces, QapleCauses
  <2>2. side' = [side EXCEPT ![s] = r] /\ ctx' = ctx
    BY <1>10 DEF Report, QapleSides
  <2>3. side' \in [Sides -> QapleSides] /\ \A o \in Sides : side'[o].cause = "masked" => ctx' = "cancelled"
    <3> HIDE DEF r
    <3> QED
      BY <2>1, <2>2
  <2>4. blame' \subseteq blame \cup {"cooldown"}
    BY <1>10, <2>1 DEF Report, Neutral, QapleCauses
  <2> QED
    BY <2>2, <2>3, <2>4
<1>11. ASSUME NEW s \in Sides, Back(s) PROVE QapleInv'
  <2>1. CASE Send(s, side[s].value) \/ Send(s, Nothing)
    <3>1. side[s].value \in QapleValues /\ Nothing \in QapleValues
      BY DEF QapleSides, QapleValues
    <3> QED
      BY <1>2, <1>11, <2>1, <3>1 DEF Back
  <2>2. CASE side' = [side EXCEPT ![s] = [@ EXCEPT !.pc = "fetch", !.source = "musixmatch",
                                                   !.value = Unread, !.cause = "none"]]
    <3> DEFINE r == [side[s] EXCEPT !.pc = "fetch", !.source = "musixmatch",
                                    !.value = Unread, !.cause = "none"]
    <3>1. r \in QapleSides /\ r.cause = "none"
      BY DEF QapleSides, QaplePlaces, QapleValues, QapleCauses
    <3>2. side' = [side EXCEPT ![s] = r]
      BY <2>2
    <3> QED
      BY <1>1, <1>11, <3>1, <3>2 DEF Back
  <2> QED
    BY <1>11, <2>1, <2>2 DEF Back
<1>7. ASSUME NEW s \in Sides, Collect(s) PROVE QapleInv'
  BY <1>7 DEF Collect, Return
<1>8. CASE ParentEnds \/ Interrupted \/ OtherCall \/ CoolsDown
  BY <1>8 DEF ParentEnds, Interrupted, Return, OtherCall, CoolsDown
<1>12. CASE NextCall
  BY <1>12, StartIsWell DEF NextCall
<1>9. CASE UNCHANGED qapleVars
  BY <1>9 DEF qapleVars
<1> QED
  BY <1>4, <1>5, <1>6, <1>7, <1>8, <1>9, <1>10, <1>11, <1>12 DEF QapleNext

\* What a caller cancels is counted against a provider only through the cooldown
\* of the login it broke off, and only while that lasts, however the provider
\* words its errors and however often it is asked meanwhile (guardedLineSource).
THEOREM NobodyIsBlamedForLong == QapleSpec => []CancelIsBlamedBriefly
<1>1. QapleInit => QapleInv /\ LoginInv
  <2>1. QapleInit => LoginInv
    BY NewLogins DEF QapleInit, LoginInv
  <2>2. QapleInit => QapleInv
    BY StartIsWell DEF QapleInit, QapleInv
  <2> QED
    BY <2>1, <2>2
<1>2. QapleInv => CancelIsBlamedBriefly
  BY DEF QapleInv, CancelIsBlamedBriefly
<1> QED
  BY <1>1, <1>2, LoginStep, QapleStep, PTL DEF QapleSpec

-----------------------------------------------------------------------------
(* Module ServerLife: the process and its dump worker *)

Dumpers == [running : BOOLEAN, stopped : BOOLEAN, loops : {0, 1}, panicked : BOOLEAN]

\* The dumper runs at most once and is stopped at most once; once the listener
\* was closed in good time no request comes any more, and the store is closed
\* after the last.
LifeInv ==
  /\ requests \in Nat /\ serve \in {"new", "started", "listening", "returned", "ended"}
  /\ storeOpen \in BOOLEAN /\ late \in BOOLEAN
  /\ dumper \in Dumpers /\ dumper.panicked = FALSE
  /\ serve = "new" => ~dumper.running /\ ~dumper.stopped /\ dumper.loops = 0
  /\ dumper.running => ~dumper.stopped
  /\ main \in {"drain", "close", "over"} /\ ~late => serve \in {"returned", "ended"}
  /\ main \in {"close", "over"} /\ ~late => requests = 0
  /\ ~storeOpen => main \in {"close", "over"}

LEMMA LifeStep == LifeInv /\ [LifeNext]_lifeVars => LifeInv'
<1> SUFFICES ASSUME LifeInv, [LifeNext]_lifeVars PROVE LifeInv'
  OBVIOUS
<1> USE DEF LifeInv, DumpRests, ServerRests
<1>1. CASE StartServer
  <2>1. dumper' = [dumper EXCEPT !.running = TRUE, !.loops = @ + 1] /\ dumper.loops = 0
    BY <1>1 DEF StartServer, StartDumper
  <2>2. dumper' \in Dumpers /\ dumper'.panicked = FALSE /\ dumper'.stopped = dumper.stopped
    <3>1. dumper'.loops = 1 /\ dumper'.running = TRUE
      BY <2>1 DEF Dumpers
    <3>2. dumper'.stopped = dumper.stopped /\ dumper'.panicked = dumper.panicked
      BY <2>1 DEF Dumpers
    <3>3. dumper' = [running |-> dumper'.running, stopped |-> dumper'.stopped,
                     loops |-> dumper'.loops, panicked |-> dumper'.panicked]
      BY <2>1 DEF Dumpers
    <3>4. dumper.stopped \in BOOLEAN /\ dumper.panicked \in BOOLEAN
      BY DEF Dumpers
    <3> QED
      BY <3>1, <3>2, <3>3, <3>4 DEF Dumpers
  <2>3. ~dumper'.stopped /\ main \notin {"over"}
    BY <1>1, <2>2 DEF StartServer, ProcessRuns
  <2> QED
    BY <1>1, <2>2, <2>3 DEF StartServer
<1>2. CASE Listen \/ Arrives \/ Answered
  BY <1>2 DEF Listen, Arrives, Answered, ProcessRuns
<1>3. CASE StartReturns
  BY <1>3 DEF StartReturns, StopDumper, Dumpers
<1>4. CASE ListenFails
  BY <1>4 DEF ListenFails
<1>5. CASE Signal
  <2>3. /\ late' \in BOOLEAN /\ main' = "drain" /\ main = "run" /\ storeOpen' = storeOpen /\ requests' = requests
        /\ ~late' => serve \notin {"new", "started"}
        /\ serve' = IF serve = "listening" THEN "returned" ELSE serve
    BY <1>5 DEF Signal
  <2>1. CASE dumper.running
    <3>1. dumper' = [dumper EXCEPT !.running = FALSE, !.stopped = TRUE, !.panicked = @ \/ dumper.stopped]
      BY <1>5, <2>1 DEF Signal, StopDumper
    <3>2. dumper' = [running |-> FALSE, stopped |-> TRUE, loops |-> dumper.loops, panicked |-> FALSE]
      BY <2>1, <3>1 DEF Dumpers
    <3>3. dumper' \in Dumpers /\ dumper'.panicked = FALSE /\ ~dumper'.running
      BY <3>2 DEF Dumpers
    <3> QED
      BY <1>5, <2>1, <2>3, <3>3 DEF Signal
  <2>2. CASE ~dumper.running
    BY <1>5, <2>2, <2>3 DEF Signal, StopDumper
  <2> QED
    BY <2>1, <2>2
<1>6. CASE Drained \/ CloseStore \/ ProcessEnds
  BY <1>6 DEF Drained, CloseStore, ProcessEnds
<1>7. CASE LoopEnds
  BY <1>7 DEF LoopEnds, Dumpers
<1>8. CASE Snapshot \/ CreateBackup \/ FillBackup \/ PruneOld \/ RemoveTmp \/ BackupAges
  BY <1>8 DEF Snapshot, CreateBackup, FillBackup, PruneOld, RemoveTmp, BackupAges
<1>9. CASE UNCHANGED lifeVars
  BY <1>9 DEF lifeVars
<1> QED
  BY <1>1, <1>2, <1>3, <1>4, <1>5, <1>6, <1>7, <1>8, <1>9 DEF LifeNext

\* However main and the serving goroutine overlap, the dumper's channel is closed
\* once and one loop runs, and the store is closed under a request only by a
\* shutdown that was out of time or came before the server listened.
THEOREM StoreIsClosedLast == LifeSpec => []EndsInOrder
<1>1. LifeInit => LifeInv
  <2>1. LifeInit => /\ dumper \in Dumpers /\ dumper.panicked = FALSE /\ dumper.loops = 0
                    /\ dumper.running = FALSE /\ dumper.stopped = FALSE
    BY DEF LifeInit, Dumpers
  <2>2. LifeInit => requests \in Nat /\ main = "run" /\ serve = "new" /\ storeOpen = TRUE /\ late = FALSE
    BY DEF LifeInit
  <2> QED
    BY <2>1, <2>2, Zenon DEF LifeInv
<1>2. LifeInv => EndsInOrder
  BY DEF LifeInv, EndsInOrder, Dumpers
<1> QED
  BY <1>1, <1>2, LifeStep, PTL DEF LifeSpec

-----------------------------------------------------------------------------
(* Module Fetch: what a provider answers when all it asked failed *)

Searched == {"id", "isrc", "suggest", "search", "text"}
Stages == Searched \cup {"by mid", "by id", "richsync", "subtitle", "lyrics"}
Musixmatch == {"mxm", "mxm-word"}

\* Musixmatch looks by ISRC first and once, and else by text.
IsrcFirst ==
  /\ todo # <<>> => todo[1] = "text" \/ (todo[1] = "isrc" /\ Len(todo) = 1 + query.terms)
  /\ \A i \in 2..Len(todo) : todo[i] = "text"

\* The lyrics' own requests come first when the song is known, and are one but
\* for QQ.
OneRequest ==
  todo # <<>> /\ todo[1] \notin Searched /\ source \in {"apple", "spotify", "deezer"} => Len(todo) = 1

\* What passed for an answer.
Heard == answered \/ misread

\* A fetch that goes on without an answer remembers that something failed, or
\* still has something to ask.
AnswerInv ==
  /\ source \in FetchSources /\ query \in Queries /\ todo \in Seq(Stages)
  /\ result = "none" /\ tried => todo # <<>>
  /\ candidates => answered
  /\ result = "none" /\ tried /\ ~Heard => source \in Musixmatch \/ blamed \/ fault
  /\ result = "none" /\ ~Heard /\ source \in Musixmatch => IsrcFirst
  /\ ~tried => OneRequest
  /\ AbsentWasAnswered

LEMMA LyricsAreAsked == ASSUME NEW s PROVE \A q \in LyricsOf(s) : q \in Seq(Stages) /\ q # <<>>
<1>1. /\ \A a \in Stages : <<a>> \in Seq(Stages) /\ <<a>> # <<>>
      /\ \A a, b \in Stages : <<a, b>> \in Seq(Stages) /\ <<a, b>> # <<>>
  OBVIOUS
<1>2. LyricsOf(s) \subseteq {<<"by mid">>, <<"by id">>, <<"by mid", "by id">>,
                             <<"richsync", "subtitle">>, <<"richsync">>, <<"lyrics">>}
  BY DEF LyricsOf
<1> QED
  BY <1>1, <1>2 DEF Stages

LEMMA EachOne ==
  ASSUME NEW n \in Nat, NEW stage \in Searched
  PROVE  /\ Each(n, stage) \in Seq(Searched) /\ Len(Each(n, stage)) = n
         /\ \A i \in 1..n : Each(n, stage)[i] = stage
  BY DEF Each

LEMMA SearchesAreAsked ==
  ASSUME NEW s \in FetchSources, NEW q \in Queries
  PROVE  Searches(s, q) \in Seq(Searched)
<1>1. \A a, b \in Seq(Searched) : a \o b \in Seq(Searched)
  OBVIOUS
<1>2. \A c : \A stage \in Searched : If(c, stage) \in Seq(Searched)
  BY DEF If
<1>3. \A stage \in Searched : Each(q.terms, stage) \in Seq(Searched)
  BY EachOne DEF Queries
<1>4. {"id", "isrc", "suggest", "search", "text"} \subseteq Searched
  BY DEF Searched
<1>5. CASE s = "apple"
  <2>1. Searches(s, q) = If(q.id, "id") \o If(q.isrc, "isrc")
                           \o Each(q.terms, "suggest") \o Each(q.terms, "search")
    BY <1>5 DEF Searches
  <2> QED
    BY <1>1, <1>2, <1>3, <1>4, <2>1
<1>6. CASE s = "spotify"
  <2>1. Searches(s, q) = If(q.isrc, "isrc") \o If(~IDOnly(q), "text")
    BY <1>6 DEF Searches
  <2> QED
    BY <1>1, <1>2, <1>4, <2>1
<1>7. CASE s \in {"deezer", "qq"}
  <2>1. Searches(s, q) \in {If(~IDOnly(q), "text"), Each(q.terms, "text")}
    BY <1>7 DEF Searches
  <2> QED
    BY <1>2, <1>3, <1>4, <2>1
<1>8. CASE s \in Musixmatch
  <2>1. Searches(s, q) = If(q.isrc, "isrc") \o Each(q.terms, "text")
    BY <1>8 DEF Searches, Musixmatch
  <2> QED
    BY <1>1, <1>2, <1>3, <1>4, <2>1
<1> QED
  BY <1>5, <1>6, <1>7, <1>8 DEF FetchSources, Musixmatch

LEMMA MusixmatchByIsrcFirst ==
  ASSUME NEW s \in Musixmatch, NEW q \in Queries, todo = Searches(s, q), query = q
  PROVE  IsrcFirst
<1>1. q.terms \in Nat /\ todo = If(q.isrc, "isrc") \o Each(q.terms, "text")
  BY DEF Searches, Musixmatch, Queries
<1>2. /\ Each(q.terms, "text") \in Seq(Searched) /\ Len(Each(q.terms, "text")) = q.terms
      /\ \A i \in 1..q.terms : Each(q.terms, "text")[i] = "text"
  BY <1>1, EachOne DEF Searched
<1>3. CASE q.isrc
  <2>1. If(q.isrc, "isrc") = <<"isrc">>
    BY <1>3 DEF If
  <2>2. ASSUME NEW e \in Seq(Searched), NEW n \in Nat, Len(e) = n, \A i \in 1..n : e[i] = "text"
        PROVE  /\ Len(<<"isrc">> \o e) = 1 + n /\ (<<"isrc">> \o e)[1] = "isrc"
               /\ \A i \in 2..(1 + n) : (<<"isrc">> \o e)[i] = "text"
    <3>1. /\ <<"isrc">> \in Seq(Searched) /\ Len(<<"isrc">>) = 1
          /\ <<"isrc">>[1] = "isrc"
      BY DEF Searched
    <3>2. /\ Len(<<"isrc">> \o e) = 1 + n
          /\ \A i \in 1..(1 + n) : (<<"isrc">> \o e)[i] = IF i <= 1 THEN <<"isrc">>[i] ELSE e[i - 1]
      BY <2>2, <3>1, ConcatProperties
    <3>3. \A i \in 2..(1 + n) : ~(i <= 1) /\ i - 1 \in 1..n /\ i \in 1..(1 + n)
      BY <2>2
    <3>4. 1 \in 1..(1 + n)
      BY <2>2
    <3> QED
      BY <2>2, <3>1, <3>2, <3>3, <3>4
  <2>3. /\ Len(todo) = 1 + q.terms /\ todo[1] = "isrc"
        /\ \A i \in 2..(1 + q.terms) : todo[i] = "text"
    <3> DEFINE e == Each(q.terms, "text")
    <3>1. e \in Seq(Searched) /\ Len(e) = q.terms /\ \A i \in 1..q.terms : e[i] = "text"
      BY <1>2
    <3>2. q.terms \in Nat /\ todo = <<"isrc">> \o e
      BY <1>1, <2>1
    <3> HIDE DEF e
    <3> QED
      BY <2>2, <3>1, <3>2
  <2> QED
    BY <2>3 DEF IsrcFirst
<1>4. CASE ~q.isrc
  <2>1. todo = Each(q.terms, "text")
    BY <1>1, <1>2, <1>4 DEF If
  <2>2. todo # <<>> => q.terms >= 1
    BY <1>1, <1>2, <2>1
  <2> QED
    BY <1>1, <1>2, <2>1, <2>2 DEF IsrcFirst
<1> QED
  BY <1>3, <1>4

LEMMA InitAnswer == FetchInit => AnswerInv
<1> SUFFICES ASSUME FetchInit PROVE AnswerInv
  OBVIOUS
<1>1. source \in FetchSources /\ query \in Queries /\ todo \in Seq(Stages)
  <2>1. ASSUME NEW q \in Seq(Searched) PROVE q \in Seq(Stages)
    <3>1. Searched \subseteq Stages
      BY DEF Stages
    <3> QED
      BY <3>1, SeqMonotonic
  <2> QED
    BY <2>1, LyricsAreAsked, SearchesAreAsked DEF FetchInit
<1>4. OneRequest
  <2>1. CASE Known(source, query)
    <3>1. source \in {"apple", "spotify", "deezer"} => LyricsOf(source) = {<<"lyrics">>}
      BY DEF LyricsOf
    <3>2. source \in {"apple", "spotify", "deezer"} => todo = <<"lyrics">>
      BY <2>1, <3>1 DEF FetchInit
    <3> QED
      BY <3>2 DEF OneRequest
  <2>2. CASE ~Known(source, query)
    <3>1. todo \in Seq(Searched)
      BY <1>1, <2>2, SearchesAreAsked DEF FetchInit
    <3>2. todo # <<>> => todo[1] \in Searched
      BY <3>1
    <3> QED
      BY <3>2 DEF OneRequest
  <2> QED
    BY <2>1, <2>2
<1>2. source \in Musixmatch => todo = Searches(source, query)
  BY DEF FetchInit, Known, Musixmatch
<1>3. source \in Musixmatch => IsrcFirst
  BY <1>1, <1>2, MusixmatchByIsrcFirst
<1> QED
  BY <1>1, <1>3, <1>4 DEF FetchInit, AnswerInv, AbsentWasAnswered, Heard

\* Going on to the next search keeps the order of the rest.
LEMMA RestKeepsOrder ==
  ASSUME todo \in Seq(Stages), todo # <<>>, ~LastSearch, FetchRests
  PROVE  /\ todo' \in Seq(Stages) /\ todo' # <<>> /\ result' = result
         /\ IsrcFirst /\ query' = query => IsrcFirst'
<1>1. todo' = Tail(todo) /\ result' = result
  BY DEF FetchRests
<1>2. /\ Len(todo) \in Nat /\ Len(todo) >= 2
      /\ todo' \in Seq(Stages) /\ Len(todo') = Len(todo) - 1
      /\ \A i \in 1..Len(todo') : todo'[i] = todo[i + 1]
  <2>1. Len(todo) \in Nat \ {0} /\ Len(todo) # 1
    BY EmptySeq DEF LastSearch
  <2>2. /\ todo' \in Seq(Stages) /\ Len(todo') = Len(todo) - 1
        /\ \A i \in 1..Len(todo') : todo'[i] = todo[i + 1]
    BY <1>1, HeadTailProperties
  <2> QED
    BY <2>1, <2>2
<1>3. todo' # <<>>
  BY <1>2
<1>4. ASSUME IsrcFirst PROVE \A i \in 1..Len(todo') : todo'[i] = "text"
  BY <1>2, <1>4 DEF IsrcFirst
<1> QED
  BY <1>1, <1>2, <1>3, <1>4 DEF IsrcFirst

LEMMA AnswerStep == AnswerInv /\ [FetchNext]_fetchVars => AnswerInv'
<1> SUFFICES ASSUME AnswerInv, [FetchNext]_fetchVars PROVE AnswerInv'
  OBVIOUS
<1> USE DEF AnswerInv, Heard
<1>1. <<>> \in Seq(Stages)
  OBVIOUS
\* A step with an answer, or with what passes for one.
<1>2. ASSUME Heard', candidates' => answered', UNCHANGED <<source, query>>, todo' \in Seq(Stages),
             result' = "none" => todo' # <<>>, tried'
      PROVE  AnswerInv'
  BY <1>2 DEF AbsentWasAnswered
\* A step that ends the fetch with an error.
<1>3. ASSUME End("failed"), tried', UNCHANGED <<source, query, answered, candidates>>
      PROVE  AnswerInv'
  BY <1>1, <1>3 DEF End, AbsentWasAnswered
<1>4. CASE NoStorefront
  BY <1>3, <1>4 DEF NoStorefront
<1>5. CASE Match
  <2>1. todo' \in LyricsOf(source) \/ (End("absent") /\ source = "apple")
    BY <1>5 DEF Match
  <2>2. todo' \in Seq(Stages) /\ (result' = "none" => todo' # <<>>)
    BY <1>1, <1>5, <2>1, LyricsAreAsked DEF Match, End
  <2> QED
    BY <1>2, <1>5, <2>2 DEF Match
<1>6. CASE NoMatch
  <2>1. todo \in Seq(Stages) /\ todo # <<>> /\ answered' /\ tried' /\ UNCHANGED <<source, query, misread>>
    BY <1>6 DEF NoMatch, Searching
  <2>2. (\E r \in {"absent", "failed"} : End(r)) \/ (~LastSearch /\ FetchRests)
    BY <1>6 DEF NoMatch, NextSearch, Verdict
  <2>3. todo' \in Seq(Stages) /\ (result' = "none" => todo' # <<>>)
    BY <1>1, <2>1, <2>2, RestKeepsOrder DEF End
  <2> QED
    BY <1>2, <2>1, <2>3
<1>7. CASE SearchFails
  <2>1. /\ todo \in Seq(Stages) /\ todo # <<>> /\ result = "none" /\ tried'
        /\ UNCHANGED <<source, query, answered, misread, candidates>>
    BY <1>7 DEF SearchFails, Searching, FetchOver
  <2>2. /\ blamed' = (blamed \/ (~Forgotten /\ ~(source = "apple" /\ ByText) /\ ~Ends))
        /\ fault' = (fault \/ (~Forgotten /\ source = "apple" /\ ByText))
    BY <1>7 DEF SearchFails
  <2>3. Forgotten <=> source \in Musixmatch
    BY DEF Forgotten, Musixmatch
  <2>4. CASE Ends
    BY <1>3, <1>7, <2>1, <2>4 DEF SearchFails
  <2>5. CASE ~Ends /\ ~LastSearch
    <3>1. FetchRests
      BY <1>7, <2>5 DEF SearchFails, NextSearch
    <3>2. todo' \in Seq(Stages) /\ todo' # <<>> /\ result' = "none" /\ (IsrcFirst => IsrcFirst')
      BY <2>1, <2>5, <3>1, RestKeepsOrder
    <3>3. ~Heard' => source' \in Musixmatch \/ blamed' \/ fault'
      BY <2>1, <2>2, <2>3, <2>5
    <3> QED
      BY <2>1, <3>2, <3>3 DEF AbsentWasAnswered
  <2>6. CASE ~Ends /\ LastSearch
    <3>1. End(Verdict)
      BY <1>7, <2>6 DEF SearchFails, NextSearch
    <3>2. CASE Heard
      BY <1>1, <1>2, <2>1, <3>1, <3>2 DEF End, Verdict
    <3>3. CASE ~Heard /\ source \notin Musixmatch
      <4>1. Verdict = "failed"
        BY <2>1, <2>2, <2>3, <2>6, <3>3 DEF Verdict
      <4> QED
        BY <1>3, <2>1, <3>1, <4>1
    <3>4. CASE ~Heard /\ source \in Musixmatch
      <4>1. Stage = "isrc"
        <5>1. IsrcFirst /\ Stage = todo[1]
          BY <2>1, <3>4 DEF Stage
        <5>2. Stage # "text"
          BY <2>6, <3>4 DEF Ends, Musixmatch
        <5> QED
          BY <2>1, <5>1, <5>2 DEF IsrcFirst
      <4>2. IDOnly(query)
        BY <2>1, <2>6, <3>4, <4>1 DEF IsrcFirst, Stage, LastSearch, IDOnly, Queries
      <4> QED
        BY <1>1, <2>1, <3>1, <3>4, <4>2 DEF End, Verdict, AbsentWasAnswered, IDOnly, Musixmatch
    <3> QED
      BY <3>2, <3>3, <3>4
  <2> QED
    BY <2>4, <2>5, <2>6
<1>8. CASE NothingToAsk
  <2>1. ~tried /\ result' # "none" /\ todo' = <<>> /\ UNCHANGED <<source, query, tried, answered, misread, candidates>>
    BY <1>8 DEF NothingToAsk, End, FetchOver
  <2> QED
    BY <1>1, <2>1 DEF AbsentWasAnswered, OneRequest
<1>9. CASE Lyrics
  <2>1. answered' /\ tried' /\ UNCHANGED <<source, query>> /\ \E r \in {"ok", "absent"} : End(r)
    BY <1>9 DEF Lyrics
  <2> QED
    BY <1>1, <1>2, <2>1 DEF End
<1>10. CASE NoLyricsThere
  <2>1. todo \in Seq(Stages) /\ todo # <<>> /\ answered' /\ tried' /\ UNCHANGED <<source, query, misread>>
    BY <1>10 DEF NoLyricsThere, Requesting
  <2>2. (\E r \in {"absent", "failed"} : End(r)) \/ (~LastSearch /\ FetchRests)
    BY <1>10 DEF NoLyricsThere
  <2>3. todo' \in Seq(Stages) /\ (result' = "none" => todo' # <<>>)
    BY <1>1, <2>1, <2>2, RestKeepsOrder DEF End
  <2> QED
    BY <1>2, <2>1, <2>3
<1>11. CASE RequestFails
  <2>1. /\ todo \in Seq(Stages) /\ todo # <<>> /\ result = "none" /\ tried'
        /\ UNCHANGED <<source, query, answered, misread, candidates, fault>> /\ blamed' = (blamed \/ source = "qq")
    BY <1>11 DEF RequestFails, Requesting, FetchOver
  <2>2. CASE LastSearch
    BY <1>3, <1>11, <2>1, <2>2 DEF RequestFails
  <2>3. CASE ~LastSearch
    <3>1. FetchRests
      BY <1>11, <2>3 DEF RequestFails
    <3>2. todo' \in Seq(Stages) /\ todo' # <<>> /\ result' = "none" /\ (IsrcFirst => IsrcFirst')
      BY <2>1, <2>3, <3>1, RestKeepsOrder
    <3>3. tried \/ source \in Musixmatch \/ source = "qq"
      <4>1. todo[1] \notin Searched
        BY <1>11, <2>1 DEF RequestFails, Requesting, Searching, FetchOver, Stage, Searched
      <4> QED
        BY <2>1, <2>3, <4>1 DEF OneRequest, LastSearch, FetchSources, Musixmatch
    <3> QED
      BY <2>1, <3>2, <3>3 DEF AbsentWasAnswered
  <2> QED
    BY <2>2, <2>3
<1>12. CASE ReadAsEmpty
  <2>1. /\ todo \in Seq(Stages) /\ todo # <<>> /\ Heard' /\ tried'
        /\ UNCHANGED <<source, query, answered, candidates>>
    BY <1>12 DEF ReadAsEmpty
  <2>2. (\E r \in {"absent", "failed"} : End(r)) \/ (~LastSearch /\ FetchRests)
    BY <1>12 DEF ReadAsEmpty, NextSearch, Verdict
  <2>3. todo' \in Seq(Stages) /\ (result' = "none" => todo' # <<>>)
    <3>1. CASE \E r \in {"absent", "failed"} : End(r)
      BY <1>1, <3>1 DEF End
    <3>2. CASE ~LastSearch /\ FetchRests
      BY <2>1, <3>2, RestKeepsOrder
    <3> QED
      BY <2>2, <3>1, <3>2
  <2> QED
    BY <1>2, <2>1, <2>3
<1>13. CASE UNCHANGED fetchVars
  BY <1>13 DEF fetchVars, AbsentWasAnswered, IsrcFirst, OneRequest
<1> QED
  BY <1>4, <1>5, <1>6, <1>7, <1>8, <1>9, <1>10, <1>11, <1>12, <1>13 DEF FetchNext

\* A provider says that it has no lyrics only if somebody answered it, it had
\* nothing to ask, or it took a failed answer for an empty one: whatever failed
\* beside it, a failure that it saw is never taken for a "no".
THEOREM NoAnswerIsNoAbsence == FetchSpec => []AbsentWasAnswered
<1>1. AnswerInv => AbsentWasAnswered
  BY DEF AnswerInv
<1> QED
  BY <1>1, InitAnswer, AnswerStep, PTL DEF FetchSpec
-----------------------------------------------------------------------------
(* Module Submissions: the store, the Drive and the shutdown *)

SungLyrics == {NoLyrics, OnDrive} \cup {p.lyrics : p \in Payloads}
Writes == [lyrics : SungLyrics, why : {"first", "forced", "drive"}]
SubPcs == {"idle", "look", "note", "judge", "upload", "uploaded", "ended"}
FetchPcs == {"idle", "note", "drive", "fill", "keep", "qaple", "ended"}
SubRecords ==
  [pc : SubPcs, lyrics : SungLyrics, force : {FALSE} \cup {p.force : p \in Payloads},
   existing : SungLyrics]
FetchRecords == [pc : FetchPcs, known : SungLyrics, got : SungLyrics]

SubType ==
  /\ row \in SungLyrics /\ drive \in SungLyrics /\ copy \in SungLyrics
  /\ missed \in BOOLEAN /\ writing \in BOOLEAN /\ crossed \in BOOLEAN
  /\ queue \in Seq(Writes)
  /\ sub \in [Submitters -> SubRecords]
  /\ fetch \in [Fetchers -> FetchRecords]
  /\ server \in {"up", "draining", "waiting", "down", "late"}

Uploading == {s \in Submitters : sub[s].pc \in {"upload", "uploaded"}}

\* The count is of the uploads, and a server that waits for them has no handler
\* left that could start one.
UploadsCounted ==
  /\ background = Cardinality(Uploading)
  /\ server \in {"waiting", "down"} => \A s \in Submitters : ~Handling(s)
  /\ server = "down" => Uploading = {}

UploadInv == SubType /\ UploadsCounted

Active(s) == sub[s].pc \notin {"idle", "ended"}

\* The lyrics the Drive has, or will have when the upload under way has run.
UploadsToCome == {s \in Submitters : sub[s].pc = "upload"}
Newest == IF UploadsToCome = {} THEN {drive} ELSE {sub[s].lyrics : s \in UploadsToCome}

\* A submission that crosses nothing is alone until its handler has saved, and
\* no fetch runs until it ends.
Alone ==
  /\ \A s, t \in Submitters : Active(s) /\ Active(t) => s = t
  /\ \A s \in Submitters : Active(s) => FetchesRest
  /\ \A s \in Submitters : Handling(s) => WritesRest

\* What may still reach the store is what the Drive has or is about to have.
OneVersion ==
  /\ (\A s \in Submitters : sub[s].pc # "uploaded") => copy \in {NoLyrics, drive}
  /\ \A f \in Fetchers : fetch[f].pc \in {"fill", "keep"} => fetch[f].got = drive
  /\ \A i \in 1..Len(queue) : queue[i].lyrics \in Newest
  /\ queue = <<>> /\ row # NoLyrics => row \in Newest

\* A first submission was accepted when the store had nothing, and it still has
\* nothing when the write comes.
FirstIsFirst ==
  /\ missed /\ ~writing => row = NoLyrics
  /\ \A s \in Submitters : sub[s].pc \in {"note", "judge"} => sub[s].existing = row
  /\ \A i \in 1..Len(queue) : queue[i].why = "first" => Len(queue) = 1 /\ row = NoLyrics /\ FetchesRest

VersionInv == SubType /\ (~crossed => Alone /\ OneVersion /\ FirstIsFirst)

OtherSubs(s) == \A t \in Submitters : t # s => sub'[t] = sub[t]

\* What the two ways of changing one submission do.
LEMMA OneMoves ==
  ASSUME SubType, NEW s \in Submitters, NEW r \in SubRecords, sub' = [sub EXCEPT ![s] = r]
  PROVE  sub' \in [Submitters -> SubRecords] /\ sub'[s] = r /\ OtherSubs(s)
BY DEF SubType, OtherSubs

LEMMA OneSteps ==
  ASSUME SubType, NEW s \in Submitters, NEW pc \in SubPcs, SubStep(s, pc)
  PROVE  /\ sub' \in [Submitters -> SubRecords] /\ OtherSubs(s)
         /\ sub'[s] = [sub[s] EXCEPT !.pc = pc]
         /\ sub'[s].pc = pc /\ sub'[s].lyrics = sub[s].lyrics /\ sub'[s].existing = sub[s].existing
<1> DEFINE r == [sub[s] EXCEPT !.pc = pc]
<1>1. sub[s] \in SubRecords
  BY DEF SubType
<1>2. r \in SubRecords /\ r.pc = pc /\ r.lyrics = sub[s].lyrics /\ r.existing = sub[s].existing
  BY <1>1 DEF SubRecords
<1>3. sub' = [sub EXCEPT ![s] = r]
  BY DEF SubStep, SubType
<1> HIDE DEF r
<1>4. sub' \in [Submitters -> SubRecords] /\ sub'[s] = r /\ OtherSubs(s)
  BY <1>2, <1>3, OneMoves
<1> QED
  BY <1>2, <1>4 DEF r

LEMMA OneEnds ==
  ASSUME SubType, NEW s \in Submitters, EndSub(s)
  PROVE  sub' \in [Submitters -> SubRecords] /\ OtherSubs(s) /\ sub'[s].pc = "ended"
<1> DEFINE r == [IdleSub EXCEPT !.pc = "ended"]
<1>1. r \in SubRecords /\ r.pc = "ended"
  BY DEF IdleSub, SubRecords, SungLyrics, SubPcs
<1>2. sub' = [sub EXCEPT ![s] = r]
  BY DEF EndSub
<1> HIDE DEF r
<1> QED
  BY <1>1, <1>2, OneMoves

LEMMA SubmitDoes ==
  ASSUME SubType, NEW s \in Submitters, NEW p \in Payloads, Submit(s, p)
  PROVE  /\ sub' \in [Submitters -> SubRecords] /\ OtherSubs(s)
         /\ sub[s].pc = "idle" /\ sub'[s].pc \in {"look", "ended"}
         /\ server = "up" /\ crossed' \in BOOLEAN
         /\ ~crossed' => ~crossed /\ SubsRest /\ WritesRest /\ FetchesRest
         /\ UNCHANGED <<row, missed, queue, writing, drive, copy, fetch, background, server>>
<1> DEFINE r == [IdleSub EXCEPT !.pc = "look", !.lyrics = p.lyrics, !.force = p.force]
<1>1. r \in SubRecords /\ r.pc = "look"
  BY DEF IdleSub, SubRecords, SungLyrics, SubPcs
<1>2. sub' = [sub EXCEPT ![s] = r] \/ EndSub(s)
  BY DEF Submit
<1> HIDE DEF r
<1>3. /\ sub' \in [Submitters -> SubRecords] /\ OtherSubs(s) /\ sub'[s].pc \in {"look", "ended"}
  BY <1>1, <1>2, OneMoves, OneEnds
<1>4. crossed' = (crossed \/ ~SubsRest \/ ~WritesRest \/ ~FetchesRest)
  BY DEF Submit
<1> QED
  BY <1>3, <1>4 DEF Submit, SameStore, SameDrive, SubType

LEMMA LookUpDoes ==
  ASSUME SubType, NEW s \in Submitters, LookUp(s)
  PROVE  /\ sub' \in [Submitters -> SubRecords] /\ OtherSubs(s)
         /\ sub[s].pc = "look" /\ sub'[s].pc \in {"note", "judge"}
         /\ crossed' \in BOOLEAN /\ (~crossed' => ~crossed /\ sub'[s].existing = Seen)
         /\ UNCHANGED <<row, missed, queue, writing, drive, copy, fetch, background, server>>
<1>1. PICK seen \in MaySee :
        /\ sub' = [sub EXCEPT ![s].pc = IF Missed(seen) THEN "note" ELSE "judge",
                              ![s].existing = seen]
        /\ crossed' = (crossed \/ seen # Seen)
  BY DEF LookUp
<1>2. sub[s] \in SubRecords
  BY DEF SubType
<1>3. seen \in SungLyrics
  BY DEF MaySee, Seen, SubType, SungLyrics
<1> DEFINE pc == IF Missed(seen) THEN "note" ELSE "judge"
           r == [sub[s] EXCEPT !.pc = pc, !.existing = seen]
<1>4. r \in SubRecords /\ r.pc \in {"note", "judge"} /\ r.existing = seen
  BY <1>2, <1>3 DEF SubRecords, SubPcs
<1>5. sub' = [sub EXCEPT ![s] = r]
  BY <1>1, <1>2 DEF SubType
<1> HIDE DEF r
<1>6. sub' \in [Submitters -> SubRecords] /\ OtherSubs(s) /\ sub'[s] = r
  BY <1>4, <1>5, OneMoves
<1> QED
  BY <1>1, <1>4, <1>6 DEF LookUp, SameStore, SameDrive, SubType

LEMMA NoteMissDoes ==
  ASSUME SubType, NEW s \in Submitters, NoteMiss(s)
  PROVE  /\ sub' \in [Submitters -> SubRecords] /\ OtherSubs(s)
         /\ sub[s].pc = "note" /\ sub'[s].pc = "judge" /\ sub'[s].existing = sub[s].existing
         /\ missed' = TRUE
         /\ crossed' \in BOOLEAN /\ (~crossed' => ~crossed /\ row = NoLyrics)
         /\ UNCHANGED <<row, queue, writing, drive, copy, fetch, background, server>>
<1>1. SubStep(s, "judge") /\ "judge" \in SubPcs
  BY DEF NoteMiss, SubPcs
<1> QED
  BY <1>1, OneSteps DEF NoteMiss, SameDrive, SubType

\* What SaveUserLyricsAsync does to the queue.
LEMMA SaveDoes ==
  ASSUME SubType, NEW l \in SungLyrics, NEW why \in {"first", "forced", "drive"}, SaveUser(l, why)
  PROVE  /\ queue' \in Seq(Writes) /\ crossed' \in BOOLEAN
         /\ ~crossed' => ~crossed /\ queue' = Append(queue, [lyrics |-> l, why |-> why])
<1>1. [lyrics |-> l, why |-> why] \in Writes
  BY DEF Writes
<1>2. Append(queue, [lyrics |-> l, why |-> why]) \in Seq(Writes)
  BY <1>1, AppendProperties DEF SubType
<1> QED
  BY <1>2 DEF SaveUser, SubType

LEMMA JudgeDoes ==
  ASSUME SubType, NEW s \in Submitters, Judge(s)
  PROVE  /\ sub' \in [Submitters -> SubRecords] /\ OtherSubs(s)
         /\ sub[s].pc = "judge" /\ queue' \in Seq(Writes) /\ crossed' \in BOOLEAN
         /\ UNCHANGED <<row, missed, writing, drive, copy, fetch, server>>
         /\ \/ sub'[s].pc = "ended" /\ UNCHANGED <<queue, background, crossed>>
            \/ /\ sub'[s].pc = "upload" /\ sub'[s].lyrics = sub[s].lyrics
               /\ background' = background + 1
               /\ \/ crossed'
                  \/ /\ ~crossed
                     /\ \E e \in Writes :
                          /\ queue' = Append(queue, e) /\ e.lyrics = sub[s].lyrics
                          /\ e.why = "first" => sub[s].existing = NoLyrics
<1>1. sub[s].pc = "judge" /\ UNCHANGED <<row, missed, writing, drive, copy, fetch, server>>
  BY DEF Judge, SameDrive
<1>2. CASE ~Accepted(s)
  <2>1. EndSub(s) /\ UNCHANGED <<queue, background, crossed>>
    BY <1>2 DEF Judge
  <2> QED
    BY <1>1, <2>1, OneEnds DEF SubType
<1>3. CASE Accepted(s)
  <2> DEFINE why == IF sub[s].force THEN "forced" ELSE "first"
             e == [lyrics |-> sub[s].lyrics, why |-> why]
  <2>1. SaveUser(sub[s].lyrics, why) /\ background' = background + 1 /\ SubStep(s, "upload")
    BY <1>3 DEF Judge, Count
  <2>2. sub[s].lyrics \in SungLyrics /\ why \in {"first", "forced", "drive"}
    BY DEF SubType, SubRecords
  <2>3. why = "first" => sub[s].existing = NoLyrics
    BY <1>3 DEF Accepted
  <2> HIDE DEF why
  <2>4. /\ queue' \in Seq(Writes) /\ crossed' \in BOOLEAN
        /\ ~crossed' => ~crossed /\ queue' = Append(queue, e)
    BY <2>1, <2>2, SaveDoes
  <2>5. e \in Writes /\ e.lyrics = sub[s].lyrics /\ (e.why = "first" => sub[s].existing = NoLyrics)
    BY <2>2, <2>3 DEF Writes
  <2>6. /\ sub' \in [Submitters -> SubRecords] /\ OtherSubs(s) /\ sub'[s].pc = "upload"
        /\ sub'[s].lyrics = sub[s].lyrics
    BY <2>1, OneSteps DEF SubPcs
  <2> HIDE DEF e
  <2> QED
    BY <1>1, <2>1, <2>4, <2>5, <2>6
<1> QED
  BY <1>2, <1>3

LEMMA UploadDoes ==
  ASSUME SubType, NEW s \in Submitters, Upload(s)
  PROVE  /\ sub' \in [Submitters -> SubRecords] /\ OtherSubs(s)
         /\ sub[s].pc = "upload" /\ drive' \in SungLyrics /\ crossed' \in BOOLEAN
         /\ UNCHANGED <<row, missed, queue, writing, copy, fetch, server>>
         /\ \/ /\ sub'[s].pc = "uploaded" /\ UNCHANGED <<background, crossed>>
               /\ drive' = sub[s].lyrics
            \/ sub'[s].pc = "ended" /\ background' = background - 1 /\ crossed'
<1>1. sub[s] \in SubRecords
  BY DEF SubType
<1>2. sub[s].lyrics \in SungLyrics
  BY <1>1 DEF SubRecords
<1>3. /\ sub[s].pc = "upload"
      /\ UNCHANGED <<row, missed, queue, writing, copy, fetch, server>>
      /\ \/ drive' = sub[s].lyrics /\ SubStep(s, "uploaded") /\ UNCHANGED <<background, crossed>>
         \/ /\ drive' \in {drive, sub[s].lyrics} /\ EndSub(s)
            /\ background' = background - 1 /\ crossed' = TRUE
  BY DEF Upload, SameStore
<1>4. "uploaded" \in SubPcs
  BY DEF SubPcs
<1> QED
  BY <1>2, <1>3, <1>4, OneSteps, OneEnds DEF SubType

LEMMA UploadedDoes ==
  ASSUME SubType, NEW s \in Submitters, Uploaded(s)
  PROVE  /\ sub' \in [Submitters -> SubRecords] /\ OtherSubs(s)
         /\ sub[s].pc = "uploaded" /\ sub'[s].pc = "ended"
         /\ copy' = NoLyrics /\ background' = background - 1
         /\ UNCHANGED <<row, missed, queue, writing, drive, fetch, server, crossed>>
BY OneEnds DEF Uploaded, DropCopy, SameStore

OtherFetches(f) == \A g \in Fetchers : g # f => fetch'[g] = fetch[g]

LEMMA FetchMoves ==
  ASSUME SubType, NEW f \in Fetchers, NEW r \in FetchRecords, FetchStep(f, r)
  PROVE  fetch' \in [Fetchers -> FetchRecords] /\ fetch'[f] = r /\ OtherFetches(f)
BY DEF SubType, FetchStep, OtherFetches

LEMMA FetchStoreDoes ==
  ASSUME SubType, NEW f \in Fetchers, FetchStore(f)
  PROVE  /\ fetch' \in [Fetchers -> FetchRecords] /\ OtherFetches(f)
         /\ fetch'[f].pc \in {"note", "drive"}
         /\ crossed' \in BOOLEAN /\ (~crossed' => ~crossed /\ SubsRest /\ WritesRest)
         /\ UNCHANGED <<row, missed, queue, writing, drive, copy, sub, background, server>>
<1>1. /\ UNCHANGED <<row, missed, queue, writing, drive, copy, sub, background, server>>
      /\ crossed' = (crossed \/ ~SubsRest \/ ~WritesRest)
  BY DEF FetchStore, SameStore, SameDrive
<1>2. PICK seen \in MaySee :
        FetchStep(f, [pc |-> IF Missed(seen) THEN "note" ELSE "drive", known |-> seen, got |-> NoLyrics])
  BY DEF FetchStore
<1>3. seen \in SungLyrics /\ NoLyrics \in SungLyrics
  BY DEF MaySee, Seen, SubType, SungLyrics
<1> DEFINE pc == IF Missed(seen) THEN "note" ELSE "drive"
           r == [pc |-> pc, known |-> seen, got |-> NoLyrics]
<1>4. r \in FetchRecords /\ r.pc \in {"note", "drive"}
  BY <1>3 DEF FetchRecords, FetchPcs
<1> HIDE DEF r
<1>5. fetch' \in [Fetchers -> FetchRecords] /\ OtherFetches(f) /\ fetch'[f] = r
  BY <1>2, <1>4, FetchMoves DEF r
<1> QED
  BY <1>1, <1>4, <1>5 DEF SubType

LEMMA NoteFetchMissDoes ==
  ASSUME SubType, NEW f \in Fetchers, NoteFetchMiss(f)
  PROVE  /\ fetch' \in [Fetchers -> FetchRecords] /\ OtherFetches(f)
         /\ fetch[f].pc = "note" /\ fetch'[f].pc = "drive" /\ missed' = TRUE
         /\ crossed' \in BOOLEAN /\ (~crossed' => ~crossed /\ row = NoLyrics)
         /\ UNCHANGED <<row, queue, writing, drive, copy, sub, background, server>>
<1> DEFINE r == [fetch[f] EXCEPT !.pc = "drive"]
<1>1. r \in FetchRecords /\ r.pc = "drive"
  BY DEF FetchRecords, FetchPcs, SubType
<1>2. FetchStep(f, r)
  BY DEF NoteFetchMiss
<1> HIDE DEF r
<1> QED
  BY <1>1, <1>2, FetchMoves DEF NoteFetchMiss, SameDrive, SubType

LEMMA FetchFileDoes ==
  ASSUME SubType, NEW f \in Fetchers, FetchFile(f)
  PROVE  /\ fetch' \in [Fetchers -> FetchRecords] /\ OtherFetches(f)
         /\ fetch[f].pc = "drive"
         /\ \/ fetch'[f].pc = "qaple"
            \/ fetch'[f].pc = "keep" /\ copy # NoLyrics /\ fetch'[f].got = copy
            \/ fetch'[f].pc = "fill" /\ fetch'[f].got = drive
         /\ UNCHANGED <<row, missed, queue, writing, drive, copy, sub, background, server, crossed>>
<1>1. fetch[f] \in FetchRecords /\ copy \in SungLyrics /\ drive \in SungLyrics
  BY DEF SubType
<1>2. [fetch[f] EXCEPT !.pc = "qaple"] \in FetchRecords
  BY <1>1 DEF FetchRecords, FetchPcs
<1>3. [fetch[f] EXCEPT !.pc = "keep", !.got = copy] \in FetchRecords
  BY <1>1 DEF FetchRecords, FetchPcs
<1>4. [fetch[f] EXCEPT !.pc = "fill", !.got = drive] \in FetchRecords
  BY <1>1 DEF FetchRecords, FetchPcs
<1>5. /\ [fetch[f] EXCEPT !.pc = "qaple"].pc = "qaple"
      /\ [fetch[f] EXCEPT !.pc = "keep", !.got = copy].pc = "keep"
      /\ [fetch[f] EXCEPT !.pc = "keep", !.got = copy].got = copy
      /\ [fetch[f] EXCEPT !.pc = "fill", !.got = drive].pc = "fill"
      /\ [fetch[f] EXCEPT !.pc = "fill", !.got = drive].got = drive
  BY <1>1 DEF FetchRecords
<1>6. /\ fetch[f].pc = "drive"
      /\ UNCHANGED <<row, missed, queue, writing, drive, copy, sub, background, server, crossed>>
      /\ \/ FetchStep(f, [fetch[f] EXCEPT !.pc = "qaple"])
         \/ copy # NoLyrics /\ FetchStep(f, [fetch[f] EXCEPT !.pc = "keep", !.got = copy])
         \/ FetchStep(f, [fetch[f] EXCEPT !.pc = "fill", !.got = drive])
  BY DEF FetchFile, SameStore, SameDrive
<1>7. CASE FetchStep(f, [fetch[f] EXCEPT !.pc = "qaple"])
  BY <1>2, <1>5, <1>6, <1>7, FetchMoves
<1>8. CASE copy # NoLyrics /\ FetchStep(f, [fetch[f] EXCEPT !.pc = "keep", !.got = copy])
  BY <1>3, <1>5, <1>6, <1>8, FetchMoves
<1>9. CASE FetchStep(f, [fetch[f] EXCEPT !.pc = "fill", !.got = drive])
  BY <1>4, <1>5, <1>6, <1>9, FetchMoves
<1> QED
  BY <1>6, <1>7, <1>8, <1>9

LEMMA FillCopyDoes ==
  ASSUME SubType, NEW f \in Fetchers, FillCopy(f)
  PROVE  /\ fetch' \in [Fetchers -> FetchRecords] /\ OtherFetches(f)
         /\ fetch[f].pc = "fill" /\ fetch'[f].pc = "keep" /\ fetch'[f].got = fetch[f].got
         /\ copy' = fetch[f].got /\ copy' \in SungLyrics
         /\ UNCHANGED <<row, missed, queue, writing, drive, sub, background, server, crossed>>
<1> DEFINE r == [fetch[f] EXCEPT !.pc = "keep"]
<1>1. fetch[f] \in FetchRecords
  BY DEF SubType
<1>2. r \in FetchRecords /\ r.pc = "keep" /\ r.got = fetch[f].got /\ fetch[f].got \in SungLyrics
  BY <1>1 DEF FetchRecords, FetchPcs
<1>3. FetchStep(f, r)
  BY DEF FillCopy
<1> HIDE DEF r
<1> QED
  BY <1>2, <1>3, FetchMoves DEF FillCopy, SameStore

LEMMA KeepFetchedDoes ==
  ASSUME SubType, NEW f \in Fetchers, KeepFetched(f)
  PROVE  /\ fetch' \in [Fetchers -> FetchRecords] /\ OtherFetches(f)
         /\ fetch[f].pc = "keep" /\ fetch'[f].pc \in {"qaple", "ended"}
         /\ queue' \in Seq(Writes) /\ crossed' \in BOOLEAN
         /\ \/ crossed'
            \/ /\ ~crossed
               /\ \E e \in Writes :
                    queue' = Append(queue, e) /\ e.lyrics = fetch[f].got /\ e.why = "drive"
         /\ UNCHANGED <<row, missed, writing, drive, copy, sub, background, server>>
<1> DEFINE given == fetch[f].got
           r == IF HasWordSync(given) THEN EndedFetch ELSE [pc |-> "qaple", known |-> given, got |-> NoLyrics]
           e == [lyrics |-> given, why |-> "drive"]
<1>1. given \in SungLyrics
  BY DEF SubType, FetchRecords
<1>2. EndedFetch \in FetchRecords /\ EndedFetch.pc = "ended"
  BY DEF EndedFetch, IdleFetch, FetchRecords, FetchPcs, SungLyrics
<1>3. [pc |-> "qaple", known |-> given, got |-> NoLyrics] \in FetchRecords
  BY <1>1 DEF FetchRecords, FetchPcs, SungLyrics
<1>4. r \in FetchRecords /\ r.pc \in {"qaple", "ended"}
  BY <1>2, <1>3
<1>5. /\ FetchStep(f, r) /\ SaveUser(given, "drive") /\ fetch[f].pc = "keep"
      /\ UNCHANGED <<row, missed, writing, drive, copy, sub, background, server>>
  BY DEF KeepFetched, SameDrive
<1> HIDE DEF r
<1>6. fetch' \in [Fetchers -> FetchRecords] /\ OtherFetches(f) /\ fetch'[f] = r
  BY <1>4, <1>5, FetchMoves
<1>7. /\ queue' \in Seq(Writes) /\ crossed' \in BOOLEAN
      /\ ~crossed' => ~crossed /\ queue' = Append(queue, e)
  BY <1>1, <1>5, SaveDoes
<1>8. e \in Writes /\ e.lyrics = fetch[f].got /\ e.why = "drive"
  BY <1>1 DEF Writes
<1> HIDE DEF e
<1> QED
  BY <1>4, <1>5, <1>6, <1>7, <1>8

LEMMA QapleDoes ==
  ASSUME SubType, NEW f \in Fetchers, Qaple(f)
  PROVE  /\ fetch' \in [Fetchers -> FetchRecords] /\ OtherFetches(f) /\ fetch'[f].pc = "ended"
         /\ UNCHANGED <<row, missed, queue, writing, drive, copy, sub, background, server, crossed>>
<1>1. EndedFetch \in FetchRecords /\ EndedFetch.pc = "ended"
  BY DEF EndedFetch, IdleFetch, FetchRecords, FetchPcs, SungLyrics
<1> QED
  BY <1>1, FetchMoves DEF Qaple, SameStore, SameDrive

LEMMA WriteUserDoes ==
  ASSUME SubType, WriteUser
  PROVE  /\ queue # <<>> /\ ~writing /\ queue' \in Seq(Writes)
         /\ Len(queue) \in Nat /\ Len(queue') = Len(queue) - 1
         /\ \A i \in 1..Len(queue') : queue'[i] = queue[i + 1]
         /\ row' \in SungLyrics /\ writing' \in BOOLEAN
         /\ \/ row' = queue[1].lyrics /\ writing' /\ UNCHANGED crossed
            \/ crossed' /\ crossed' \in BOOLEAN
         /\ UNCHANGED <<missed, drive, copy, sub, fetch, background, server>>
<1>1. /\ queue # <<>> /\ ~writing /\ queue' = Tail(queue) /\ queue \in Seq(Writes)
      /\ \/ row' = Head(queue).lyrics /\ writing' = TRUE /\ UNCHANGED crossed
         \/ crossed' = TRUE /\ UNCHANGED <<row, writing>>
      /\ UNCHANGED <<missed, drive, copy, sub, fetch, background, server>>
  BY DEF WriteUser, SameDrive, SubType
<1>2. /\ Head(queue) \in Writes /\ queue' \in Seq(Writes) /\ Len(queue') = Len(queue) - 1
      /\ \A i \in 1..Len(queue') : queue'[i] = queue[i + 1]
  BY <1>1, HeadTailProperties
<1>3. Len(queue) \in Nat /\ Head(queue) = queue[1]
  BY <1>1, LenProperties
<1>4. Head(queue).lyrics \in SungLyrics
  BY <1>2 DEF Writes
<1> QED
  BY <1>1, <1>2, <1>3, <1>4 DEF SubType

LEMMA InvalidateDoes ==
  ASSUME Invalidate
  PROVE  /\ writing' = FALSE /\ missed' = FALSE
         /\ UNCHANGED <<row, queue, drive, copy, sub, fetch, background, server, crossed>>
BY DEF Invalidate, ForgetMiss, SameDrive

LEMMA EvictDoes ==
  ASSUME Evict
  PROVE  /\ missed' = FALSE /\ copy' \in {copy, NoLyrics}
         /\ UNCHANGED <<row, queue, writing, drive, sub, fetch, background, server, crossed>>
BY DEF Evict

LEMMA ShutdownDoes ==
  ASSUME Shutdown
  PROVE  /\ \/ server' \in {"draining", "late"}
            \/ server' = "waiting" /\ \A s \in Submitters : ~Handling(s)
            \/ server = "waiting" /\ background = 0 /\ server' = "down"
         /\ UNCHANGED <<row, missed, queue, writing, drive, copy, sub, fetch, background, crossed>>
BY DEF Shutdown, SameStore, SameDrive

LEMMA InitSubType == SubInit => SubType
<1> SUFFICES ASSUME SubInit PROVE SubType
  OBVIOUS
<1>1. IdleSub \in SubRecords
  BY DEF IdleSub, SubRecords, SubPcs, SungLyrics
<1>2. IdleFetch \in FetchRecords
  BY DEF IdleFetch, FetchRecords, FetchPcs, SungLyrics
<1>3. <<>> \in Seq(Writes)
  OBVIOUS
<1> QED
  BY <1>1, <1>2, <1>3 DEF SubInit, SubType, SungLyrics

LEMMA SubTypeStep == SubType /\ [SubNext]_subVars => SubType'
<1> SUFFICES ASSUME SubType, [SubNext]_subVars PROVE SubType'
  OBVIOUS
<1>1. NoLyrics \in SungLyrics
  BY DEF SungLyrics
<1>2. ASSUME NEW s \in Submitters, NEW p \in Payloads, Submit(s, p) PROVE SubType'
  BY <1>2, SubmitDoes DEF SubType
<1>3. ASSUME NEW s \in Submitters, LookUp(s) PROVE SubType'
  BY <1>3, LookUpDoes DEF SubType
<1>4. ASSUME NEW s \in Submitters, NoteMiss(s) PROVE SubType'
  BY <1>4, NoteMissDoes DEF SubType
<1>5. ASSUME NEW s \in Submitters, Judge(s) PROVE SubType'
  BY <1>5, JudgeDoes DEF SubType
<1>6. ASSUME NEW s \in Submitters, Upload(s) PROVE SubType'
  BY <1>6, UploadDoes DEF SubType
<1>7. ASSUME NEW s \in Submitters, Uploaded(s) PROVE SubType'
  BY <1>1, <1>7, UploadedDoes DEF SubType
<1>8. ASSUME NEW f \in Fetchers, FetchStore(f) PROVE SubType'
  BY <1>8, FetchStoreDoes DEF SubType
<1>9. ASSUME NEW f \in Fetchers, NoteFetchMiss(f) PROVE SubType'
  BY <1>9, NoteFetchMissDoes DEF SubType
<1>10. ASSUME NEW f \in Fetchers, FetchFile(f) PROVE SubType'
  BY <1>10, FetchFileDoes DEF SubType
<1>11. ASSUME NEW f \in Fetchers, FillCopy(f) PROVE SubType'
  BY <1>11, FillCopyDoes DEF SubType
<1>12. ASSUME NEW f \in Fetchers, KeepFetched(f) PROVE SubType'
  BY <1>12, KeepFetchedDoes DEF SubType
<1>13. ASSUME NEW f \in Fetchers, Qaple(f) PROVE SubType'
  BY <1>13, QapleDoes DEF SubType
<1>14. CASE WriteUser
  BY <1>14, WriteUserDoes DEF SubType
<1>15. CASE Invalidate
  BY <1>15, InvalidateDoes DEF SubType
<1>16. CASE Evict
  BY <1>1, <1>16, EvictDoes DEF SubType
<1>17. CASE Shutdown
  BY <1>17, ShutdownDoes DEF SubType
<1>18. CASE UNCHANGED subVars
  BY <1>18 DEF subVars, SubType
<1> QED
  BY <1>2, <1>3, <1>4, <1>5, <1>6, <1>7, <1>8, <1>9, <1>10, <1>11, <1>12, <1>13, <1>14,
     <1>15, <1>16, <1>17, <1>18 DEF SubNext

LEMMA InitUploads == SubInit => UploadsCounted
<1> SUFFICES ASSUME SubInit PROVE UploadsCounted
  OBVIOUS
<1>1. \A s \in Submitters : sub[s].pc = "idle"
  BY DEF SubInit, IdleSub
<1>2. Uploading = {}
  BY <1>1 DEF Uploading
<1> QED
  BY <1>1, <1>2, FS_EmptySet DEF SubInit, UploadsCounted

\* A step that moves one submission and counts it when it begins to upload,
\* and no more when it ends.
LEMMA CountMoves ==
  ASSUME UploadInv, NEW s \in Submitters, OtherSubs(s), server' = server,
         \/ s \notin Uploading /\ sub'[s].pc \notin {"upload", "uploaded"} /\ background' = background
         \/ s \notin Uploading /\ sub'[s].pc = "upload" /\ background' = background + 1
         \/ s \in Uploading /\ sub'[s].pc = "uploaded" /\ background' = background
         \/ s \in Uploading /\ sub'[s].pc = "ended" /\ background' = background - 1
  PROVE  background' = Cardinality(Uploading')
<1>1. IsFiniteSet(Uploading)
  BY SubmissionsAssumption, FS_Subset DEF Uploading
<1>2. background = Cardinality(Uploading)
  BY DEF UploadInv, UploadsCounted
<1>3. Uploading' = {t \in Submitters : sub'[t].pc \in {"upload", "uploaded"}}
  BY DEF Uploading
<1>4. CASE s \notin Uploading /\ sub'[s].pc \notin {"upload", "uploaded"} /\ background' = background
  <2>1. Uploading' = Uploading
    BY <1>3, <1>4 DEF Uploading, OtherSubs
  <2> QED
    BY <1>2, <1>4, <2>1
<1>5. CASE s \notin Uploading /\ sub'[s].pc = "upload" /\ background' = background + 1
  <2>1. Uploading' = Uploading \cup {s}
    BY <1>3, <1>5 DEF Uploading, OtherSubs
  <2>2. Cardinality(Uploading \cup {s}) = Cardinality(Uploading) + 1
    BY <1>1, <1>5, FS_AddElement
  <2> QED
    BY <1>2, <1>5, <2>1, <2>2
<1>6. CASE s \in Uploading /\ sub'[s].pc = "uploaded" /\ background' = background
  <2>1. Uploading' = Uploading
    BY <1>3, <1>6 DEF Uploading, OtherSubs
  <2> QED
    BY <1>2, <1>6, <2>1
<1>7. CASE s \in Uploading /\ sub'[s].pc = "ended" /\ background' = background - 1
  <2>1. Uploading' = Uploading \ {s}
    BY <1>3, <1>7 DEF Uploading, OtherSubs
  <2>2. Cardinality(Uploading \ {s}) = Cardinality(Uploading) - 1
    BY <1>1, <1>7, FS_RemoveElement
  <2> QED
    BY <1>2, <1>7, <2>1, <2>2
<1> QED
  BY <1>4, <1>5, <1>6, <1>7

\* Nobody enters a handler of a server that is going down, and only a handler
\* starts an upload.
LEMMA DrainMoves ==
  ASSUME UploadInv, NEW s \in Submitters, OtherSubs(s), server' = server,
         Handling(s)' => Handling(s) \/ server = "up",
         s \in Uploading' => s \in Uploading \/ Handling(s)
  PROVE  /\ server' \in {"waiting", "down"} => \A t \in Submitters : ~Handling(t)'
         /\ server' = "down" => Uploading' = {}
<1>1. \A t \in Submitters : t # s => (Handling(t)' <=> Handling(t)) /\ (t \in Uploading' <=> t \in Uploading)
  BY DEF OtherSubs, Handling, Uploading
<1>2. Uploading' \subseteq Submitters
  BY DEF Uploading
<1> QED
  BY <1>1, <1>2 DEF UploadInv, UploadsCounted

LEMMA UploadStep == UploadInv /\ [SubNext]_subVars => UploadInv'
<1> SUFFICES ASSUME UploadInv, [SubNext]_subVars PROVE UploadsCounted'
  BY SubTypeStep DEF UploadInv
<1> USE DEF UploadInv
<1>1. ASSUME UNCHANGED <<sub, background, server>> PROVE UploadsCounted'
  BY <1>1 DEF UploadsCounted, Uploading, Handling
<1>2. ASSUME NEW s \in Submitters, OtherSubs(s), server' = server,
             background' = Cardinality(Uploading'),
             Handling(s)' => Handling(s) \/ server = "up",
             s \in Uploading' => s \in Uploading \/ Handling(s)
      PROVE  UploadsCounted'
  BY <1>2, DrainMoves DEF UploadsCounted
<1>3. ASSUME NEW s \in Submitters, NEW p \in Payloads, Submit(s, p) PROVE UploadsCounted'
  <2>1. s \notin Uploading /\ sub'[s].pc \notin {"upload", "uploaded"} /\ s \notin Uploading'
    BY <1>3, SubmitDoes DEF Uploading
  <2>2. background' = Cardinality(Uploading')
    BY <1>3, <2>1, SubmitDoes, CountMoves
  <2> QED
    BY <1>2, <1>3, <2>1, <2>2, SubmitDoes
<1>4. ASSUME NEW s \in Submitters, LookUp(s) PROVE UploadsCounted'
  <2>1. s \notin Uploading /\ sub'[s].pc \notin {"upload", "uploaded"} /\ s \notin Uploading' /\ Handling(s)
    BY <1>4, LookUpDoes DEF Uploading, Handling
  <2>2. background' = Cardinality(Uploading')
    BY <1>4, <2>1, LookUpDoes, CountMoves
  <2> QED
    BY <1>2, <1>4, <2>1, <2>2, LookUpDoes
<1>5. ASSUME NEW s \in Submitters, NoteMiss(s) PROVE UploadsCounted'
  <2>1. s \notin Uploading /\ sub'[s].pc \notin {"upload", "uploaded"} /\ s \notin Uploading' /\ Handling(s)
    BY <1>5, NoteMissDoes DEF Uploading, Handling
  <2>2. background' = Cardinality(Uploading')
    BY <1>5, <2>1, NoteMissDoes, CountMoves
  <2> QED
    BY <1>2, <1>5, <2>1, <2>2, NoteMissDoes
<1>6. ASSUME NEW s \in Submitters, Judge(s) PROVE UploadsCounted'
  <2>1. s \notin Uploading /\ Handling(s)
    BY <1>6, JudgeDoes DEF Uploading, Handling
  <2>2. \/ sub'[s].pc = "ended" /\ background' = background
        \/ sub'[s].pc = "upload" /\ background' = background + 1
    BY <1>6, JudgeDoes
  <2>3. background' = Cardinality(Uploading')
    BY <1>6, <2>1, <2>2, JudgeDoes, CountMoves
  <2> QED
    BY <1>2, <1>6, <2>1, <2>3, JudgeDoes
<1>7. ASSUME NEW s \in Submitters, Upload(s) PROVE UploadsCounted'
  <2>1. s \in Uploading /\ ~Handling(s)'
    BY <1>7, UploadDoes DEF Uploading, Handling
  <2>2. background' = Cardinality(Uploading')
    BY <1>7, <2>1, UploadDoes, CountMoves
  <2> QED
    BY <1>2, <1>7, <2>1, <2>2, UploadDoes
<1>8. ASSUME NEW s \in Submitters, Uploaded(s) PROVE UploadsCounted'
  <2>1. s \in Uploading /\ ~Handling(s)'
    BY <1>8, UploadedDoes DEF Uploading, Handling
  <2>2. background' = Cardinality(Uploading')
    BY <1>8, <2>1, UploadedDoes, CountMoves
  <2> QED
    BY <1>2, <1>8, <2>1, <2>2, UploadedDoes
<1>9. ASSUME NEW f \in Fetchers,
             \/ FetchStore(f) \/ NoteFetchMiss(f) \/ FetchFile(f)
             \/ FillCopy(f) \/ KeepFetched(f) \/ Qaple(f)
      PROVE  UploadsCounted'
  BY <1>1, <1>9, FetchStoreDoes, NoteFetchMissDoes, FetchFileDoes, FillCopyDoes, KeepFetchedDoes,
     QapleDoes
<1>10. CASE WriteUser \/ Invalidate \/ Evict
  BY <1>1, <1>10, WriteUserDoes, InvalidateDoes, EvictDoes
<1>11. CASE Shutdown
  <2>1. Uploading' = Uploading /\ \A s \in Submitters : Handling(s)' <=> Handling(s)
    BY <1>11, ShutdownDoes DEF Uploading, Handling
  <2>2. background = 0 => Uploading = {}
    <3>1. IsFiniteSet(Uploading)
      BY SubmissionsAssumption, FS_Subset DEF Uploading
    <3> QED
      BY <3>1, FS_EmptySet DEF UploadsCounted
  <2>3. background' = Cardinality(Uploading')
    BY <1>11, <2>1, ShutdownDoes DEF UploadsCounted
  <2> QED
    BY <1>11, <2>1, <2>2, <2>3, ShutdownDoes DEF UploadsCounted
<1>12. CASE UNCHANGED subVars
  BY <1>1, <1>12 DEF subVars
<1> QED
  BY <1>3, <1>4, <1>5, <1>6, <1>7, <1>8, <1>9, <1>10, <1>11, <1>12 DEF SubNext

\* A server that is down before its context ended has finished every upload:
\* nothing a handler accepted is lost with the process (server.go:262-274).
THEOREM UploadsAreWaitedFor == SubSpec => []ShutdownWaitsForUploads
<1>1. SubInit => UploadInv
  BY InitSubType, InitUploads DEF UploadInv
<1>2. UploadInv => ShutdownWaitsForUploads
  <2> SUFFICES ASSUME UploadInv, server = "down", NEW s \in Submitters
               PROVE  sub[s].pc \in {"idle", "ended"}
    BY DEF ShutdownWaitsForUploads
  <2>1. ~Handling(s) /\ s \notin Uploading
    BY DEF UploadInv, UploadsCounted
  <2>2. sub[s].pc \in SubPcs
    BY DEF UploadInv, SubType, SubRecords
  <2> QED
    BY <2>1, <2>2 DEF Handling, Uploading, SubPcs
<1> QED
  BY <1>1, <1>2, UploadStep, PTL DEF SubSpec

Versions == Alone /\ OneVersion /\ FirstIsFirst

LEMMA InitVersions == SubInit => Versions
<1> SUFFICES ASSUME SubInit PROVE Versions
  OBVIOUS
<1>1. \A s \in Submitters : sub[s].pc = "idle"
  BY DEF SubInit, IdleSub
<1>2. \A f \in Fetchers : fetch[f].pc = "idle"
  BY DEF SubInit, IdleFetch
<1>3. /\ queue = <<>> /\ ~writing /\ row = NoLyrics /\ copy \in {NoLyrics, drive}
      /\ Len(queue) = 0
  BY DEF SubInit
<1>4. Alone
  BY <1>1 DEF Alone, Active, Handling
<1>5. OneVersion
  BY <1>2, <1>3 DEF OneVersion
<1>6. FirstIsFirst
  BY <1>1, <1>3 DEF FirstIsFirst
<1> QED
  BY <1>4, <1>5, <1>6 DEF Versions

\* A step of a fetch, which runs while no submission does: at most it saves the
\* lyrics of the Drive.
LEMMA FetchKeepsVersions ==
  ASSUME SubType, Versions, NEW f \in Fetchers, OtherFetches(f),
         UNCHANGED <<row, writing, drive, sub>>,
         \A s \in Submitters : ~Active(s),
         queue # <<>> => ~FetchesRest,
         fetch'[f].pc \in {"fill", "keep"} => fetch'[f].got = drive,
         copy' \in {NoLyrics, drive},
         missed' = missed \/ row = NoLyrics,
         \/ queue' = queue
         \/ ~FetchesRest /\ \E e \in Writes : queue' = Append(queue, e) /\ e.lyrics = drive /\ e.why = "drive"
  PROVE  Versions'
<1> USE DEF Versions
<1>1. Newest = {drive} /\ Newest' = {drive}
  BY DEF Newest, UploadsToCome, Active
<1>2. Alone'
  BY DEF Alone, Active, Handling
<1>3. /\ Len(queue) \in Nat /\ (queue = <<>> => Len(queue) = 0)
      /\ \A i \in 1..Len(queue) : queue[i].lyrics = drive /\ queue[i].why # "first"
  <2>1. Len(queue) \in Nat /\ (queue = <<>> => Len(queue) = 0)
    BY LenProperties DEF SubType
  <2> QED
    BY <1>1, <2>1 DEF OneVersion, FirstIsFirst
<1>4. /\ Len(queue') \in Nat
      /\ \A i \in 1..Len(queue') : queue'[i].lyrics = drive /\ queue'[i].why # "first"
      /\ queue' = <<>> => queue = <<>>
  <2>1. CASE queue' = queue
    BY <1>3, <2>1
  <2>2. ASSUME NEW e \in Writes, queue' = Append(queue, e), e.lyrics = drive, e.why = "drive"
        PROVE  /\ Len(queue') \in Nat /\ queue' # <<>>
               /\ \A i \in 1..Len(queue') : queue'[i].lyrics = drive /\ queue'[i].why # "first"
    <3>1. /\ queue' # <<>> /\ Len(queue') = Len(queue) + 1 /\ queue'[Len(queue) + 1] = e
          /\ \A i \in 1..Len(queue) : queue'[i] = queue[i]
      BY <2>2, AppendProperties DEF SubType
    <3>2. \A i \in 1..Len(queue') : i \in 1..Len(queue) \/ i = Len(queue) + 1
      BY <1>3, <3>1
    <3> QED
      BY <1>3, <2>2, <3>1, <3>2
  <2> QED
    BY <1>3, <2>1, <2>2
<1>5. OneVersion'
  BY <1>1, <1>4 DEF OneVersion, OtherFetches
<1>6. FirstIsFirst'
  <2>1. \A s \in Submitters : sub'[s].pc \notin {"note", "judge"}
    BY DEF Active
  <2>2. missed' /\ ~writing' => row' = NoLyrics
    BY DEF FirstIsFirst
  <2> QED
    BY <1>4, <2>1, <2>2 DEF FirstIsFirst
<1> QED
  BY <1>2, <1>5, <1>6

\* A step of a submission that neither touches the Drive nor the queue.
LEMMA SubKeepsVersions ==
  ASSUME SubType, Versions, NEW s \in Submitters, OtherSubs(s),
         UNCHANGED <<row, queue, writing, drive, copy, fetch>>,
         \A t \in Submitters : t # s => ~Active(t),
         FetchesRest, WritesRest,
         sub[s].pc \notin {"upload", "uploaded"}, sub'[s].pc \notin {"upload", "uploaded"},
         missed' = missed \/ row = NoLyrics,
         sub'[s].pc \in {"note", "judge"} => sub'[s].existing = row
  PROVE  Versions'
<1> USE DEF Versions
<1>1. \A t \in Submitters : sub[t].pc \notin {"upload", "uploaded"} /\ sub'[t].pc \notin {"upload", "uploaded"}
  BY DEF OtherSubs, Active
<1>2. Newest = {drive} /\ Newest' = {drive}
  BY <1>1 DEF Newest, UploadsToCome
<1>3. Alone'
  <2>1. \A t \in Submitters : t # s => ~Active(t)'
    BY DEF OtherSubs, Active
  <2>2. FetchesRest' /\ WritesRest'
    BY DEF FetchesRest, WritesRest
  <2> QED
    BY <2>1, <2>2 DEF Alone
<1>4. OneVersion'
  BY <1>1, <1>2 DEF OneVersion
<1>5. FirstIsFirst'
  <2>1. \A t \in Submitters : t # s => sub'[t].pc \notin {"note", "judge"}
    BY DEF OtherSubs, Active
  <2>2. queue' = <<>> /\ Len(queue') = 0
    BY DEF WritesRest
  <2>3. missed' /\ ~writing' => row' = NoLyrics
    BY DEF FirstIsFirst
  <2> QED
    BY <2>1, <2>2, <2>3 DEF FirstIsFirst
<1> QED
  BY <1>3, <1>4, <1>5

\* A submission is judged: accepted, its lyrics are the only write to come.
LEMMA JudgeKeepsVersions ==
  ASSUME SubType, Versions, NEW s \in Submitters, Judge(s), ~crossed'
  PROVE  Versions'
<1> USE DEF Versions
<1>1. /\ OtherSubs(s) /\ sub[s].pc = "judge"
      /\ UNCHANGED <<row, missed, writing, drive, copy, fetch>>
  BY JudgeDoes
<1>2. Active(s) /\ Handling(s)
  BY <1>1 DEF Active, Handling
<1>3. /\ \A t \in Submitters : t # s => ~Active(t)
      /\ FetchesRest /\ WritesRest
  BY <1>2 DEF Alone
<1>4. sub[s].existing = row
  BY <1>1 DEF FirstIsFirst
<1>5. CASE sub'[s].pc = "ended" /\ queue' = queue
  BY <1>1, <1>3, <1>5, SubKeepsVersions
<1>6. CASE sub'[s].pc = "upload" /\ sub'[s].lyrics = sub[s].lyrics
           /\ \E e \in Writes : /\ queue' = Append(queue, e) /\ e.lyrics = sub[s].lyrics
                                /\ e.why = "first" => sub[s].existing = NoLyrics
  <2>1. PICK e \in Writes : /\ queue' = Append(queue, e) /\ e.lyrics = sub[s].lyrics
                            /\ e.why = "first" => row = NoLyrics
    BY <1>4, <1>6
  <2>2. queue' # <<>> /\ Len(queue') = 1 /\ queue'[1] = e
    <3>1. queue = <<>> /\ Len(queue) = 0
      BY <1>3 DEF WritesRest
    <3> QED
      BY <2>1, <3>1, AppendProperties DEF SubType
  <2>3. \A t \in Submitters : t # s => ~Active(t)' /\ sub'[t].pc \notin {"upload", "uploaded", "note", "judge"}
    BY <1>1, <1>3 DEF OtherSubs, Active
  <2>4. Newest' = {sub'[s].lyrics}
    BY <1>6, <2>3 DEF Newest, UploadsToCome
  <2>5. FetchesRest'
    BY <1>1, <1>3 DEF FetchesRest
  <2>6. Alone'
    BY <1>6, <2>3, <2>5 DEF Alone, Handling, Active
  <2>7. \A t \in Submitters : sub[t].pc # "uploaded"
    BY <1>1, <1>3 DEF Active
  <2>8. OneVersion'
    BY <1>1, <1>6, <2>1, <2>2, <2>4, <2>7 DEF OneVersion
  <2>9. FirstIsFirst'
    BY <1>1, <1>3, <1>6, <2>1, <2>2, <2>3, <2>5 DEF FirstIsFirst
  <2> QED
    BY <2>6, <2>8, <2>9
<1>7. \/ sub'[s].pc = "ended" /\ queue' = queue
      \/ /\ sub'[s].pc = "upload" /\ sub'[s].lyrics = sub[s].lyrics
         /\ \E e \in Writes : /\ queue' = Append(queue, e) /\ e.lyrics = sub[s].lyrics
                              /\ e.why = "first" => sub[s].existing = NoLyrics
  BY JudgeDoes
<1> QED
  BY <1>5, <1>6, <1>7

\* The Drive gets what its next version was, and its copy goes.
LEMMA UploadKeepsVersions ==
  ASSUME SubType, Versions, NEW s \in Submitters, Upload(s) \/ Uploaded(s), ~crossed'
  PROVE  Versions'
<1> USE DEF Versions
<1>1. /\ OtherSubs(s) /\ UNCHANGED <<row, missed, queue, writing, fetch>>
      /\ \/ /\ sub[s].pc = "upload" /\ sub'[s].pc = "uploaded"
            /\ drive' = sub[s].lyrics /\ copy' = copy
         \/ /\ sub[s].pc = "uploaded" /\ sub'[s].pc = "ended"
            /\ drive' = drive /\ copy' = NoLyrics
  BY UploadDoes, UploadedDoes
<1>2. /\ \A t \in Submitters : t # s => ~Active(t) /\ ~Active(t)'
      /\ FetchesRest /\ FetchesRest'
  BY <1>1 DEF Alone, Active, OtherSubs, FetchesRest
<1>3. \A t \in Submitters : t # s => /\ sub[t].pc \in {"idle", "ended"}
                                     /\ sub'[t].pc \in {"idle", "ended"}
  BY <1>2 DEF Active
<1>4. Newest' = Newest
  BY <1>1, <1>3 DEF Newest, UploadsToCome
<1>5. Alone'
  BY <1>1, <1>2, <1>3 DEF Alone, Handling
<1>6. OneVersion'
  <2>1. \A f \in Fetchers : fetch'[f].pc \notin {"fill", "keep"}
    BY <1>2 DEF FetchesRest
  <2>2. (\A t \in Submitters : sub'[t].pc # "uploaded") => copy' \in {NoLyrics, drive'}
    BY <1>1
  <2> QED
    BY <1>1, <1>4, <2>1, <2>2 DEF OneVersion
<1>7. FirstIsFirst'
  BY <1>1, <1>2, <1>3 DEF FirstIsFirst
<1> QED
  BY <1>5, <1>6, <1>7

LEMMA WriteKeepsVersions ==
  ASSUME SubType, Versions, WriteUser, ~crossed'
  PROVE  Versions'
<1> USE DEF Versions
<1>1. /\ queue # <<>> /\ ~writing /\ writing' /\ row' = queue[1].lyrics
      /\ Len(queue) \in Nat \ {0} /\ Len(queue') = Len(queue) - 1
      /\ \A i \in 1..Len(queue') : queue'[i] = queue[i + 1] /\ i + 1 \in 1..Len(queue)
      /\ UNCHANGED <<missed, drive, copy, sub, fetch>>
  <2>1. Len(queue) \in Nat \ {0}
    BY WriteUserDoes, EmptySeq DEF SubType
  <2> QED
    BY <2>1, WriteUserDoes
<1>2. Newest' = Newest
  BY <1>1 DEF Newest, UploadsToCome
<1>3. \A s \in Submitters : ~Handling(s) /\ ~Handling(s)'
  BY <1>1 DEF Alone, WritesRest, Handling
<1>4. Alone'
  BY <1>1, <1>3 DEF Alone, Active, FetchesRest
<1>5. OneVersion'
  BY <1>1, <1>2 DEF OneVersion
<1>6. FirstIsFirst'
  <2>1. \A s \in Submitters : sub'[s].pc \notin {"note", "judge"}
    BY <1>3 DEF Handling
  <2>2. \A i \in 1..Len(queue') : queue'[i].why # "first"
    BY <1>1 DEF FirstIsFirst
  <2> QED
    BY <1>1, <2>1, <2>2 DEF FirstIsFirst
<1> QED
  BY <1>4, <1>5, <1>6

LEMMA CachesKeepVersions ==
  ASSUME Versions, Invalidate \/ Evict
  PROVE  Versions'
<1> USE DEF Versions
<1>1. /\ UNCHANGED <<row, queue, drive, sub, fetch>>
      /\ missed' = FALSE /\ copy' \in {copy, NoLyrics} /\ (writing' => writing)
  <2>1. CASE Invalidate
    BY <2>1, InvalidateDoes
  <2>2. CASE Evict
    BY <2>2, EvictDoes
  <2> QED
    BY <2>1, <2>2
<1>2. Newest' = Newest
  BY <1>1 DEF Newest, UploadsToCome
<1>3. Alone'
  BY <1>1 DEF Alone, Active, Handling, FetchesRest, WritesRest
<1>4. OneVersion'
  BY <1>1, <1>2 DEF OneVersion
<1>5. FirstIsFirst'
  BY <1>1 DEF FirstIsFirst, FetchesRest
<1> QED
  BY <1>3, <1>4, <1>5

LEMMA VersionStep == VersionInv /\ [SubNext]_subVars => VersionInv'
<1> SUFFICES ASSUME VersionInv, [SubNext]_subVars, ~crossed' PROVE Versions'
  BY SubTypeStep DEF VersionInv, Versions
<1>1. SubType /\ (~crossed => Versions)
  BY DEF VersionInv, Versions
<1> USE <1>1
<1>2. ASSUME NEW s \in Submitters, NEW p \in Payloads, Submit(s, p) PROVE Versions'
  <2>1. /\ OtherSubs(s) /\ sub[s].pc = "idle" /\ sub'[s].pc \in {"look", "ended"}
        /\ Versions /\ SubsRest /\ WritesRest /\ FetchesRest
        /\ UNCHANGED <<row, missed, queue, writing, drive, copy, fetch>>
    BY <1>2, SubmitDoes
  <2>2. \A t \in Submitters : ~Active(t)
    BY <2>1 DEF SubsRest, Active
  <2> QED
    BY <2>1, <2>2, SubKeepsVersions
<1>3. ASSUME NEW s \in Submitters, LookUp(s) \/ NoteMiss(s) PROVE Versions'
  <2>1. /\ OtherSubs(s) /\ sub[s].pc \in {"look", "note"} /\ sub'[s].pc \in {"note", "judge"}
        /\ UNCHANGED <<row, queue, writing, drive, copy, fetch>>
        /\ Versions /\ (missed' = missed \/ row = NoLyrics)
        /\ sub[s].pc = "look" => sub'[s].existing = Seen
        /\ sub[s].pc = "note" => sub'[s].existing = sub[s].existing
    BY <1>3, LookUpDoes, NoteMissDoes
  <2>2. Handling(s) /\ Active(s)
    BY <2>1 DEF Handling, Active
  <2>3. WritesRest /\ FetchesRest /\ \A t \in Submitters : t # s => ~Active(t)
    BY <2>1, <2>2 DEF Versions, Alone
  <2>4. sub'[s].existing = row
    <3>1. Seen = row
      BY <2>1, <2>3 DEF Seen, Versions, FirstIsFirst, WritesRest
    <3> QED
      BY <2>1, <3>1 DEF Versions, FirstIsFirst
  <2> QED
    BY <2>1, <2>3, <2>4, SubKeepsVersions
<1>4. ASSUME NEW s \in Submitters, Judge(s) PROVE Versions'
  <2>1. ~crossed
    BY <1>4, JudgeDoes
  <2> QED
    BY <1>4, <2>1, JudgeKeepsVersions
<1>5. ASSUME NEW s \in Submitters, Upload(s) \/ Uploaded(s) PROVE Versions'
  <2>1. ~crossed
    BY <1>5, UploadDoes, UploadedDoes
  <2> QED
    BY <1>5, <2>1, UploadKeepsVersions
<1>6. ASSUME NEW f \in Fetchers, FetchStore(f) PROVE Versions'
  <2>1. /\ OtherFetches(f) /\ fetch'[f].pc \in {"note", "drive"} /\ SubsRest /\ WritesRest
        /\ Versions /\ UNCHANGED <<row, missed, queue, writing, drive, copy, sub>>
    BY <1>6, FetchStoreDoes
  <2>2. \A s \in Submitters : ~Active(s)
    BY <2>1 DEF SubsRest, Active
  <2>3. copy' \in {NoLyrics, drive}
    BY <2>1, <2>2 DEF Versions, OneVersion, Active
  <2> QED
    BY <2>1, <2>2, <2>3, FetchKeepsVersions DEF WritesRest
\* A fetch that is under way runs while no submission does.
<1>7. ASSUME NEW f \in Fetchers, fetch[f].pc \notin {"idle", "ended"}, Versions
      PROVE  /\ ~FetchesRest /\ (\A s \in Submitters : ~Active(s)) /\ copy \in {NoLyrics, drive}
             /\ fetch[f].pc \in {"fill", "keep"} => fetch[f].got = drive
  <2>1. ~FetchesRest
    BY <1>7 DEF FetchesRest
  <2>2. \A s \in Submitters : ~Active(s)
    BY <1>7, <2>1 DEF Versions, Alone
  <2> QED
    BY <1>7, <2>1, <2>2 DEF Versions, OneVersion, Active
<1>8. ASSUME NEW f \in Fetchers, NoteFetchMiss(f) \/ FetchFile(f) \/ FillCopy(f) \/ Qaple(f)
      PROVE  Versions'
  <2>1. /\ OtherFetches(f) /\ fetch[f].pc \notin {"idle", "ended"} /\ Versions
        /\ UNCHANGED <<row, queue, writing, drive, sub>>
        /\ missed' = missed \/ row = NoLyrics
        /\ \/ copy' = copy
           \/ fetch[f].pc = "fill" /\ copy' = fetch[f].got
        /\ \/ fetch'[f].pc \notin {"fill", "keep"}
           \/ fetch'[f].got = drive \/ (copy # NoLyrics /\ fetch'[f].got = copy)
           \/ fetch[f].pc = "fill" /\ fetch'[f].got = fetch[f].got
    <3>1. CASE NoteFetchMiss(f)
      BY <3>1, NoteFetchMissDoes
    <3>2. CASE FetchFile(f)
      BY <3>2, FetchFileDoes
    <3>3. CASE FillCopy(f)
      BY <3>3, FillCopyDoes
    <3>4. CASE Qaple(f)
      <4>1. fetch[f].pc = "qaple"
        BY <3>4 DEF Qaple
      <4> QED
        BY <3>4, <4>1, QapleDoes
    <3> QED
      BY <1>8, <3>1, <3>2, <3>3, <3>4
  <2> QED
    BY <1>7, <2>1, FetchKeepsVersions
<1>9. ASSUME NEW f \in Fetchers, KeepFetched(f) PROVE Versions'
  <2>1. /\ OtherFetches(f) /\ fetch[f].pc = "keep" /\ fetch'[f].pc \in {"qaple", "ended"} /\ Versions
        /\ UNCHANGED <<row, missed, writing, drive, copy, sub>>
        /\ \E e \in Writes : queue' = Append(queue, e) /\ e.lyrics = fetch[f].got /\ e.why = "drive"
    BY <1>9, KeepFetchedDoes
  <2> QED
    BY <1>7, <2>1, FetchKeepsVersions
<1>10. CASE WriteUser
  <2>1. ~crossed
    BY <1>10, WriteUserDoes
  <2> QED
    BY <1>10, <2>1, WriteKeepsVersions
<1>11. CASE Invalidate \/ Evict
  <2>1. ~crossed
    BY <1>11, InvalidateDoes, EvictDoes
  <2> QED
    BY <1>11, <2>1, CachesKeepVersions
<1>12. CASE Shutdown \/ UNCHANGED subVars
  <2>1. Versions /\ UNCHANGED <<row, missed, queue, writing, drive, copy, sub, fetch>>
    BY <1>12, ShutdownDoes DEF subVars
  <2>2. Newest' = Newest
    BY <2>1 DEF Newest, UploadsToCome
  <2>3. Alone'
    BY <2>1 DEF Versions, Alone, Active, Handling, FetchesRest, WritesRest
  <2>4. OneVersion'
    BY <2>1, <2>2 DEF Versions, OneVersion
  <2>5. FirstIsFirst'
    BY <2>1 DEF Versions, FirstIsFirst, FetchesRest
  <2> QED
    BY <2>3, <2>4, <2>5 DEF Versions
<1> QED
  BY <1>2, <1>3, <1>4, <1>5, <1>6, <1>8, <1>9, <1>10, <1>11, <1>12 DEF SubNext

\* At rest the store has the lyrics of the Drive's file or none, when nothing
\* crossed a submission: no queue and no cache brings replaced lyrics back.
THEOREM NothingComesBack == SubSpec => []StoreAgreesWithDrive
<1>1. SubInit => VersionInv
  BY InitSubType, InitVersions DEF VersionInv, Versions
<1>2. VersionInv => StoreAgreesWithDrive
  <2> SUFFICES ASSUME VersionInv, SubsRest, WritesRest, FetchesRest, ~crossed
               PROVE  row \in {drive, NoLyrics}
    BY DEF StoreAgreesWithDrive
  <2>1. Newest = {drive}
    BY DEF SubsRest, Newest, UploadsToCome
  <2> QED
    BY <2>1 DEF VersionInv, OneVersion, WritesRest
<1> QED
  BY <1>1, <1>2, VersionStep, PTL DEF SubSpec

\* A submission that may not replace anything replaces nothing, when nothing
\* crossed it: its write meets the store as its lookup saw it (pow.go:148-161).
THEOREM FirstReplacesNobody == SubSpec => FirstSubmissionStays
<1>1. SubInit => VersionInv
  BY InitSubType, InitVersions DEF VersionInv, Versions
<1>2. VersionInv /\ [SubNext]_subVars =>
        [WriteUser /\ Head(queue).why = "first" /\ row' # row => crossed \/ row = NoLyrics]_subVars
  <2> SUFFICES ASSUME VersionInv, WriteUser, Head(queue).why = "first", ~crossed
               PROVE  row = NoLyrics
    OBVIOUS
  <2>1. /\ Len(queue) \in Nat \ {0} /\ Head(queue) = queue[1]
    BY WriteUserDoes, EmptySeq DEF VersionInv, SubType
  <2> QED
    BY <2>1 DEF VersionInv, FirstIsFirst
<1> QED
  BY <1>1, <1>2, VersionStep, PTL DEF SubSpec, FirstSubmissionStays

-----------------------------------------------------------------------------
(* Module Accounts: when a call may give up *)

CallRecords ==
  [pc : {"idle", "probe", "store", "ask", "ended"}, at : Nat, from : Nat, step : Nat,
   pick : {"current", "next", "round"}, start : Nat, tries : Nat, round : Nat \ {0},
   waited : BOOLEAN, silent : SUBSET Nat, met : SUBSET Nat,
   out : {"none", "ok", "refused", "broken", "absent"}]

AccountsType ==
  /\ provider \in Providers /\ accounts \in 1..MaxAccounts
  /\ current \in Account /\ call \in CallRecords

\* The account k after account o; those from o on, d in all, are in S; and i
\* is the one that follows them.
After(o, k) == (o + k) % accounts
Covered(S, o, d) == \A k \in 0..(d - 1) : After(o, k) \in S
Reached(S, i, o, d) == i = After(o, d) /\ Covered(S, o, d)

\* The call has met m accounts and maybe more in a row, up to account i;
\* Musixmatch counts from the account it started with.
Trail(r, i, m) ==
  \E o \in Account : \E d \in m..(accounts - 1) :
    Reached(r.met, i, o, d) /\ (provider = "musixmatch" => o = r.start)

\* The same of the rounds of Apple, whatever each of them met besides.
RoundTrail(r, i, m) ==
  \E o \in Account : \E d \in m..(accounts - 1) : Reached(r.met, i, o, d)

InRound(r) == provider = "apple" => RoundTrail(r, r.start, r.round - 1) /\ r.start \in r.met

GivenUp(r) ==
  \/ r.met = Account
  \/ r.out = "refused" /\ provider # "musixmatch" /\ Cardinality(r.met) > MaxRetries

\* What a call has behind it where it looks for its first account, looks for
\* another, and asks; nothing more is said of one that has met them all.
AtFirst(r) ==
  /\ r.tries = 0 /\ r.round = 1
  /\ r.pc = "probe" => r.step \in 0..(accounts - 1) /\ Covered(r.met, r.from, r.step)

AtProbe(r) ==
  /\ r.step \in 1..(accounts - 1) /\ Covered(r.met, r.from, r.step)
  /\ r.pick = "next" => r.from = r.at /\ Trail(r, r.at, r.tries) /\ InRound(r)
  /\ r.pick = "round" => r.from = r.start /\ InRound(r)

AtStore(r) ==
  /\ r.pick = "next" => Trail(r, r.at, r.tries + 1) /\ InRound(r)
  /\ r.pick = "round" => RoundTrail(r, r.at, r.round)

AtAsk(r) ==
  /\ Trail(r, r.at, r.tries)
  /\ provider = "apple" => RoundTrail(r, r.start, r.round - 1) /\ r.start \in r.met \cup {r.at}

CallInv(r) ==
  /\ r \in CallRecords
  /\ r.at \in Account /\ r.from \in Account /\ r.start \in Account /\ r.met \subseteq Account
  /\ r.pc = "idle" => r = IdleCall
  /\ r.out # "none" => r.pc = "ended"
  /\ r.out = "refused" \/ (r.out = "absent" /\ provider = "apple") => GivenUp(r)
  /\ r.pc \in {"probe", "store"} /\ r.pick = "current" => AtFirst(r)
  /\ r.pc \in {"probe", "store"} /\ r.pick = "round" => provider = "apple"
  /\ r.pc = "probe" /\ r.pick # "current" => r.step # 0
  /\ r.met # Account =>
       /\ r.pc = "probe" /\ r.pick # "current" => AtProbe(r)
       /\ r.pc = "store" => AtStore(r)
       /\ r.pc = "ask" => AtAsk(r)

AccountsInv == AccountsType /\ CallInv(call)

LEMMA AfterIs ==
  ASSUME AccountsType, NEW o \in Account, NEW k \in 0..accounts
  PROVE  /\ After(o, k) \in Account
         /\ After(o, k) = IF o + k < accounts THEN o + k ELSE o + k - accounts
<1>1. accounts \in Nat \ {0} /\ o \in 0..(accounts - 1)
  BY AccountsAssumption DEF AccountsType, Account
<1>2. (o + k) % accounts = IF o + k < accounts THEN o + k ELSE o + k - accounts
  BY <1>1
<1> QED
  BY <1>1, <1>2 DEF After, Account

LEMMA CoveredMore ==
  ASSUME NEW S, NEW T, S \subseteq T, NEW o, NEW d, Covered(S, o, d)
  PROVE  Covered(T, o, d)
BY DEF Covered

\* As many in a row as there are accounts are all of them.
LEMMA CoversAll ==
  ASSUME AccountsType, NEW S \in SUBSET Account, NEW o \in Account, Covered(S, o, accounts)
  PROVE  S = Account
<1> SUFFICES ASSUME NEW a \in Account PROVE a \in S
  OBVIOUS
<1>1. accounts \in Nat \ {0} /\ o \in 0..(accounts - 1) /\ a \in 0..(accounts - 1)
  BY AccountsAssumption DEF AccountsType, Account
<1> DEFINE Leads(k) == a = IF o + k < accounts THEN o + k ELSE o + k - accounts
<1>2. PICK k \in 0..(accounts - 1) : Leads(k)
  <2>1. CASE o <= a
    <3>1. a - o \in 0..(accounts - 1) /\ Leads(a - o)
      BY <1>1, <2>1
    <3> HIDE DEF Leads
    <3> QED
      BY <3>1
  <2>2. CASE o > a
    <3>1. a - o + accounts \in 0..(accounts - 1) /\ Leads(a - o + accounts)
      BY <1>1, <2>2
    <3> HIDE DEF Leads
    <3> QED
      BY <3>1
  <2> QED
    BY <1>1, <2>1, <2>2
<1>3. After(o, k) = a
  BY <1>1, <1>2, AfterIs
<1> QED
  BY <1>3 DEF Covered

\* Two trails, the second from where the first ends, are one.
LEMMA Joined ==
  ASSUME AccountsType, NEW S \in SUBSET Account, NEW o \in Account, NEW i,
         NEW d \in 0..(accounts - 1), NEW j \in 0..accounts,
         Reached(S, i, o, d), Covered(S, i, j)
  PROVE  /\ d + j < accounts => Reached(S, After(i, j), o, d + j)
         /\ d + j >= accounts => S = Account
<1>1. accounts \in Nat \ {0} /\ o \in 0..(accounts - 1)
  BY AccountsAssumption DEF AccountsType, Account
<1>2. /\ i \in Account
      /\ i = IF o + d < accounts THEN o + d ELSE o + d - accounts
  BY <1>1, AfterIs DEF Reached
<1>3. \A k \in 0..j : d + k < accounts => After(i, k) = After(o, d + k)
  <2> TAKE k \in 0..j
  <2> HAVE d + k < accounts
  <2>1. d + k \in 0..accounts /\ k \in 0..accounts
    BY <1>1
  <2>2. After(i, k) = IF i + k < accounts THEN i + k ELSE i + k - accounts
    BY <1>2, <2>1, AfterIs
  <2>3. After(o, d + k) = IF o + (d + k) < accounts THEN o + (d + k) ELSE o + (d + k) - accounts
    BY <2>1, AfterIs
  <2> QED
    BY <1>1, <1>2, <2>1, <2>2, <2>3
<1>4. \A k \in 0..(d + j - 1) : k < accounts => After(o, k) \in S
  <2> TAKE k \in 0..(d + j - 1)
  <2> HAVE k < accounts
  <2>1. CASE k < d
    BY <1>1, <2>1 DEF Reached, Covered
  <2>2. CASE k >= d
    <3>1. k - d \in 0..(j - 1) /\ k - d \in 0..j /\ d + (k - d) = k
      BY <1>1, <2>2
    <3>2. After(i, k - d) = After(o, k)
      BY <1>3, <3>1
    <3> QED
      BY <3>1, <3>2 DEF Covered
  <2> QED
    BY <1>1, <2>1, <2>2
<1>5. CASE d + j < accounts
  <2>1. \A k \in 0..(d + j - 1) : k < accounts
    BY <1>1, <1>5
  <2>2. After(i, j) = After(o, d + j)
    BY <1>1, <1>3, <1>5
  <2> QED
    BY <1>1, <1>4, <1>5, <2>1, <2>2 DEF Reached, Covered
<1>6. CASE d + j >= accounts
  <2>1. \A k \in 0..(accounts - 1) : k \in 0..(d + j - 1) /\ k < accounts
    BY <1>1, <1>6
  <2>2. Covered(S, o, accounts)
    BY <1>4, <2>1 DEF Covered
  <2> QED
    BY <1>1, <1>6, <2>2, CoversAll
<1> QED
  BY <1>1, <1>5, <1>6

\* A trail of d accounts is d accounts.
LEMMA TrailCounts ==
  ASSUME AccountsType, NEW S \in SUBSET Account, NEW o \in Account, NEW d \in 0..accounts,
         Covered(S, o, d)
  PROVE  IsFiniteSet(S) /\ Cardinality(S) \in Nat /\ Cardinality(S) >= d
<1>1. accounts \in Nat \ {0} /\ o \in 0..(accounts - 1)
  BY AccountsAssumption DEF AccountsType, Account
<1>2. IsFiniteSet(S)
  <2>1. IsFiniteSet(0..(accounts - 1))
    BY <1>1, FS_Interval
  <2> QED
    BY <2>1, FS_Subset DEF Account
<1> DEFINE f == [k \in 0..(d - 1) |-> After(o, k)]
<1>3. f \in Injection(0..(d - 1), S)
  <2>1. f \in [0..(d - 1) -> S]
    BY DEF Covered
  <2>2. ASSUME NEW a \in 0..(d - 1), NEW b \in 0..(d - 1), f[a] = f[b] PROVE a = b
    <3>1. a \in 0..accounts /\ b \in 0..accounts /\ a < accounts /\ b < accounts
      BY <1>1
    <3>2. /\ After(o, a) = IF o + a < accounts THEN o + a ELSE o + a - accounts
          /\ After(o, b) = IF o + b < accounts THEN o + b ELSE o + b - accounts
      BY <3>1, AfterIs
    <3> QED
      BY <1>1, <2>2, <3>1, <3>2
  <2>3. \A a, b \in 0..(d - 1) : f[a] = f[b] => a = b
    BY <2>2
  <2> HIDE DEF f
  <2> QED
    BY <2>1, <2>3, Fun_IsInj
<1>4. Cardinality(0..(d - 1)) = d
  BY <1>1, FS_Interval
<1> QED
  BY <1>2, <1>3, <1>4, FS_Injection, FS_CardinalityType

(* What the steps do to the record of the call. *)

LEMMA CallOverIs ==
  ASSUME NEW r \in CallRecords, NEW out \in {"ok", "refused", "broken", "absent"}
  PROVE  /\ CallOver(r, out) \in CallRecords
         /\ CallOver(r, out).pc = "ended" /\ CallOver(r, out).out = out
         /\ CallOver(r, out).met = r.met
         /\ CallOver(r, out).at = 0 /\ CallOver(r, out).from = 0 /\ CallOver(r, out).start = 0
<1> DEFINE S == r.met
<1>1. S \in SUBSET Nat
  BY DEF CallRecords
<1> HIDE DEF S
<1> DEFINE e == [IdleCall EXCEPT !.pc = "ended", !.out = out, !.met = S]
<1>2. IdleCall \in CallRecords /\ IdleCall.at = 0 /\ IdleCall.from = 0 /\ IdleCall.start = 0
  BY DEF IdleCall, CallRecords
<1>3. /\ e \in CallRecords /\ e.pc = "ended" /\ e.out = out /\ e.met = S
      /\ e.at = 0 /\ e.from = 0 /\ e.start = 0
  BY <1>1, <1>2 DEF CallRecords
<1>4. e = CallOver(r, out)
  BY DEF CallOver, S
<1> HIDE DEF e
<1> QED
  BY <1>3, <1>4 DEF S

LEMMA AskIs ==
  ASSUME NEW r \in CallRecords, NEW i \in Nat
  PROVE  /\ Ask(r, i) \in CallRecords
         /\ Ask(r, i).pc = "ask" /\ Ask(r, i).at = i /\ Ask(r, i).out = r.out
         /\ Ask(r, i).met = r.met /\ Ask(r, i).from = r.from /\ Ask(r, i).start = r.start
         /\ Ask(r, i).tries = r.tries /\ Ask(r, i).round = r.round
BY DEF Ask, CallRecords

LEMMA SeekIs ==
  ASSUME NEW r \in CallRecords, NEW i \in Nat
  PROVE  /\ Seek(r, i) \in CallRecords
         /\ Seek(r, i).pc = "probe" /\ Seek(r, i).at = r.at /\ Seek(r, i).out = r.out
         /\ Seek(r, i).pick = "next" /\ Seek(r, i).from = i /\ Seek(r, i).step = 1
         /\ Seek(r, i).met = r.met /\ Seek(r, i).start = r.start
         /\ Seek(r, i).tries = r.tries /\ Seek(r, i).round = r.round
BY DEF Seek, CallRecords

\* An account that is asked again counts a retry, or begins a round.
Counting(a, i, m, n) == [a EXCEPT !.start = i, !.round = n, !.tries = m, !.waited = FALSE]

LEMMA CountingIs ==
  ASSUME NEW a \in CallRecords, NEW i \in Nat, NEW m \in Nat, NEW n \in Nat \ {0}
  PROVE  /\ Counting(a, i, m, n) \in CallRecords
         /\ Counting(a, i, m, n).pc = a.pc /\ Counting(a, i, m, n).at = a.at
         /\ Counting(a, i, m, n).out = a.out /\ Counting(a, i, m, n).met = a.met
         /\ Counting(a, i, m, n).from = a.from /\ Counting(a, i, m, n).start = i
         /\ Counting(a, i, m, n).tries = m /\ Counting(a, i, m, n).round = n
BY DEF CallRecords, Counting

LEMMA RetryIs ==
  ASSUME NEW a \in CallRecords
  PROVE  [a EXCEPT !.tries = @ + 1, !.waited = FALSE] = Counting(a, a.start, a.tries + 1, a.round)
BY DEF CallRecords, Counting

LEMMA RoundIs ==
  ASSUME NEW a \in CallRecords, NEW i \in Nat
  PROVE  [a EXCEPT !.start = i, !.round = @ + 1, !.tries = 0, !.waited = FALSE]
           = Counting(a, i, 0, a.round + 1)
BY DEF CallRecords, Counting

Again(r, i, start, m, n) == Counting(Ask(r, i), start, m, n)

LEMMA AskAgain ==
  ASSUME NEW r \in CallRecords, NEW i \in Nat, NEW start \in Nat, NEW m \in Nat, NEW n \in Nat \ {0}
  PROVE  /\ Again(r, i, start, m, n) \in CallRecords
         /\ Again(r, i, start, m, n).pc = "ask" /\ Again(r, i, start, m, n).at = i
         /\ Again(r, i, start, m, n).out = r.out /\ Again(r, i, start, m, n).met = r.met
         /\ Again(r, i, start, m, n).from = r.from /\ Again(r, i, start, m, n).start = start
         /\ Again(r, i, start, m, n).tries = m /\ Again(r, i, start, m, n).round = n
<1> DEFINE a == Ask(r, i)
<1>1. /\ a \in CallRecords /\ a.pc = "ask" /\ a.at = i /\ a.out = r.out /\ a.met = r.met
      /\ a.from = r.from
  BY AskIs
<1>2. a \in CallRecords
  BY <1>1
<1> HIDE DEF a
<1> DEFINE e == Counting(a, start, m, n)
<1>3. /\ e \in CallRecords /\ e.pc = a.pc /\ e.at = a.at /\ e.out = a.out /\ e.met = a.met
      /\ e.from = a.from /\ e.start = start /\ e.tries = m /\ e.round = n
  BY <1>2, CountingIs
<1> HIDE DEF e
<1>4. /\ e \in CallRecords /\ e.pc = "ask" /\ e.at = i /\ e.out = r.out /\ e.met = r.met
      /\ e.from = r.from /\ e.start = start /\ e.tries = m /\ e.round = n
  BY <1>1, <1>3
<1> QED
  BY <1>4 DEF e, a, Again

LEMMA ZeroAccount == ASSUME AccountsType PROVE accounts \in Nat \ {0} /\ 0 \in Account /\ Account \subseteq Nat
BY AccountsAssumption DEF AccountsType, Account

\* Nothing is behind a call that begins with account i.
LEMMA HereItStarts ==
  ASSUME AccountsType, NEW i \in Account, NEW S
  PROVE  Reached(S, i, i, 0) /\ 0 \in 0..(accounts - 1)
BY ZeroAccount, AfterIs DEF Reached, Covered, Account

LEMMA CoversOne ==
  ASSUME AccountsType, NEW i \in Account, NEW S, i \in S
  PROVE  Covered(S, i, 1)
<1>1. After(i, 0) = i
  BY ZeroAccount, AfterIs DEF Account
<1> QED
  BY <1>1 DEF Covered

LEMMA OverKeeps ==
  ASSUME AccountsType, NEW r \in CallRecords, r.met \subseteq Account,
         NEW out \in {"ok", "refused", "broken", "absent"},
         out = "refused" \/ (out = "absent" /\ provider = "apple") =>
           \/ r.met = Account
           \/ out = "refused" /\ provider # "musixmatch" /\ Cardinality(r.met) > MaxRetries
  PROVE  CallInv(CallOver(r, out))
<1> DEFINE e == CallOver(r, out)
<1>1. /\ e \in CallRecords /\ e.pc = "ended" /\ e.out = out /\ e.met = r.met
      /\ e.at \in Account /\ e.from \in Account /\ e.start \in Account
  BY CallOverIs, ZeroAccount
<1> HIDE DEF e
<1>2. CallInv(e)
  BY <1>1 DEF CallInv, GivenUp
<1> QED
  BY <1>2 DEF e

LEMMA TookKeeps ==
  ASSUME AccountsType, NEW r \in CallRecords, NEW i \in Account, r.met \subseteq Account,
         r.from \in Account, r.tries = 0, r.round = 1, r.out = "none"
  PROVE  CallInv(Took(r, i))
<1> DEFINE e == Took(r, i)
<1>1. /\ e \in CallRecords /\ e.pc = "ask" /\ e.at = i /\ e.out = "none"
      /\ e.met = r.met /\ e.from = r.from /\ e.tries = 0 /\ e.round = 1
      /\ e.start = IF provider \in {"musixmatch", "apple"} THEN i ELSE 0
  <2>1. i \in Nat
    BY ZeroAccount
  <2> QED
    BY <2>1, AskIs DEF Took, CallRecords
<1> HIDE DEF e
<1>2. Reached(e.met, i, i, 0) /\ 0 \in 0..(accounts - 1)
  BY HereItStarts
<1>3. Trail(e, e.at, e.tries)
  BY <1>1, <1>2 DEF Trail
<1>4. provider = "apple" => RoundTrail(e, e.start, e.round - 1) /\ e.start = e.at
  BY <1>1, <1>2 DEF RoundTrail
<1>5. AtAsk(e)
  BY <1>3, <1>4 DEF AtAsk
<1>6. e.start \in Account
  BY <1>1, ZeroAccount
<1>7. CallInv(e)
  BY <1>1, <1>5, <1>6 DEF CallInv
<1> QED
  BY <1>7 DEF e

\* The call asks account i, further on than the ones it met.
LEMMA AskKeeps ==
  ASSUME AccountsType, NEW e \in CallRecords, e.pc = "ask", e.out = "none", e.at \in Account,
         e.from \in Account, e.start \in Account, e.met \subseteq Account,
         e.met # Account => AtAsk(e)
  PROVE  CallInv(e)
BY DEF CallInv

LEMMA AdvanceKeeps ==
  ASSUME AccountsType, NEW r, CallInv(r), r.pc = "store", r.pick \in {"next", "round"}
  PROVE  CallInv(Advance(r, r.at))
<1> DEFINE i == r.at
<1>1. /\ r \in CallRecords /\ i \in Account /\ r.met \subseteq Account /\ r.out = "none"
      /\ r.from \in Account /\ r.start \in Account /\ i \in Nat
      /\ r.tries \in Nat /\ r.round \in Nat \ {0} /\ accounts \in Nat \ {0} /\ MaxRetries \in Nat
      /\ r.pick = "round" => provider = "apple"
  BY ZeroAccount, AccountsAssumption DEF CallInv, CallRecords
<1>2. r.met # Account =>
        /\ r.pick = "next" => Trail(r, i, r.tries + 1) /\ InRound(r)
        /\ r.pick = "round" => RoundTrail(r, i, r.round)
  BY DEF CallInv, AtStore
<1>3. /\ Ask(r, i) \in CallRecords
      /\ Ask(r, i).pc = "ask" /\ Ask(r, i).at = i /\ Ask(r, i).out = "none"
      /\ Ask(r, i).met = r.met /\ Ask(r, i).from = r.from /\ Ask(r, i).start = r.start
      /\ Ask(r, i).tries = r.tries /\ Ask(r, i).round = r.round
  BY <1>1, AskIs
\* One more try, whichever loop counts it.
<1>4. ASSUME NEW e \in CallRecords, e.pc = "ask", e.at = i, e.out = "none", e.met = r.met,
             e.from = r.from, e.start = r.start, e.tries = r.tries + 1, e.round = r.round,
             r.pick = "next"
      PROVE  CallInv(e)
  <2>1. ASSUME e.met # Account PROVE AtAsk(e)
    <3>1. Trail(e, e.at, e.tries)
      BY <1>2, <1>4, <2>1 DEF Trail
    <3>2. provider = "apple" => RoundTrail(e, e.start, e.round - 1) /\ e.start \in e.met
      BY <1>2, <1>4, <2>1 DEF InRound, RoundTrail
    <3> QED
      BY <3>1, <3>2 DEF AtAsk
  <2> QED
    BY <1>1, <1>4, <2>1, AskKeeps
<1>5. CASE provider = "musixmatch"
  <2>1. r.pick = "next"
    BY <1>1, <1>5
  <2>2. CASE i = r.start \/ r.tries + 1 = accounts
    <3>1. r.met = Account
      <4> SUFFICES ASSUME r.met # Account PROVE FALSE
        OBVIOUS
      <4>1. PICK d \in (r.tries + 1)..(accounts - 1) : Reached(r.met, i, r.start, d)
        BY <1>2, <1>5, <2>1 DEF Trail
      <4>2. d \in 1..(accounts - 1) /\ r.tries + 1 # accounts
        BY <1>1, <4>1
      <4>3. i = IF r.start + d < accounts THEN r.start + d ELSE r.start + d - accounts
        BY <1>1, <4>1, <4>2, AfterIs DEF Reached
      <4>4. r.start \in 0..(accounts - 1)
        BY <1>1 DEF Account
      <4> QED
        BY <1>1, <2>2, <4>2, <4>3, <4>4
    <3>2. CallInv(CallOver(r, "refused"))
      BY <1>1, <3>1, OverKeeps
    <3> QED
      BY <1>5, <2>2, <3>2 DEF Advance
  <2>3. CASE ~(i = r.start \/ r.tries + 1 = accounts)
    <3> DEFINE e == [Ask(r, i) EXCEPT !.tries = @ + 1]
    <3>1. e \in CallRecords /\ e.pc = "ask" /\ e.at = i /\ e.out = "none" /\ e.met = r.met
          /\ e.from = r.from /\ e.start = r.start /\ e.tries = r.tries + 1 /\ e.round = r.round
      BY <1>1, <1>3 DEF CallRecords
    <3>2. Advance(r, i) = e
      BY <1>5, <2>3 DEF Advance
    <3> HIDE DEF e
    <3> QED
      BY <1>4, <2>1, <3>1, <3>2
  <2> QED
    BY <2>2, <2>3
<1>6. CASE provider # "musixmatch" /\ r.pick = "round"
  <2>1. CASE r.round < accounts
    <3> DEFINE n == r.round + 1
    <3> DEFINE e == Again(r, i, i, 0, n)
    <3>1. e \in CallRecords /\ e.pc = "ask" /\ e.at = i /\ e.out = "none" /\ e.met = r.met
          /\ e.from = r.from /\ e.start = i /\ e.tries = 0 /\ e.round = r.round + 1
      <4>1. r \in CallRecords /\ i \in Nat /\ n \in Nat \ {0} /\ 0 \in Nat
        BY <1>1
      <4> HIDE DEF i, n
      <4>2. /\ e \in CallRecords /\ e.pc = "ask" /\ e.at = i /\ e.out = r.out /\ e.met = r.met
            /\ e.from = r.from /\ e.start = i /\ e.tries = 0 /\ e.round = n
        BY <4>1, AskAgain
      <4> HIDE DEF e
      <4> QED
        BY <1>1, <4>2 DEF i, n
    <3>2. Advance(r, i) = e
      BY <1>1, <1>3, <1>6, <2>1, RoundIs DEF Advance, Again
    <3> HIDE DEF e
    <3>3. ASSUME e.met # Account PROVE AtAsk(e)
      <4>1. RoundTrail(e, e.start, e.round - 1)
        BY <1>1, <1>2, <1>6, <3>1, <3>3 DEF RoundTrail
      <4>2. Trail(e, e.at, e.tries)
        BY <1>1, <1>6, <3>1, HereItStarts DEF Trail
      <4> QED
        BY <3>1, <4>1, <4>2 DEF AtAsk
    <3> QED
      BY <1>1, <3>1, <3>2, <3>3, AskKeeps
  <2>2. CASE ~(r.round < accounts)
    <3>1. r.met = Account
      BY <1>1, <1>2, <1>6, <2>2 DEF RoundTrail
    <3>2. CallInv(CallOver(r, "absent"))
      BY <1>1, <3>1, OverKeeps
    <3> QED
      BY <1>6, <2>2, <3>2 DEF Advance
  <2> QED
    BY <2>1, <2>2
<1>7. CASE provider # "musixmatch" /\ r.pick = "next"
  <2>1. CASE r.tries < MaxRetries
    <3> DEFINE st == r.start
    <3> DEFINE m == r.tries + 1
    <3> DEFINE n == r.round
    <3> DEFINE e == Again(r, i, st, m, n)
    <3>1. e \in CallRecords /\ e.pc = "ask" /\ e.at = i /\ e.out = "none" /\ e.met = r.met
          /\ e.from = r.from /\ e.start = r.start /\ e.tries = r.tries + 1 /\ e.round = r.round
      <4>1. r \in CallRecords /\ i \in Nat /\ st \in Nat /\ m \in Nat /\ n \in Nat \ {0}
        BY <1>1, ZeroAccount
      <4> HIDE DEF i, st, m, n
      <4>2. /\ e \in CallRecords /\ e.pc = "ask" /\ e.at = i /\ e.out = r.out /\ e.met = r.met
            /\ e.from = r.from /\ e.start = st /\ e.tries = m /\ e.round = n
        BY <4>1, AskAgain
      <4> HIDE DEF e
      <4> QED
        BY <1>1, <4>2 DEF i, st, m, n
    <3>2. Advance(r, i) = e
      BY <1>3, <1>7, <2>1, RetryIs DEF Advance, Again
    <3> HIDE DEF e
    <3> QED
      BY <1>4, <1>7, <3>1, <3>2
  <2>2. CASE ~(r.tries < MaxRetries)
    <3>1. ASSUME r.met # Account PROVE Cardinality(r.met) > MaxRetries
      <4>1. PICK o \in Account, d \in (r.tries + 1)..(accounts - 1) : Reached(r.met, i, o, d)
        BY <1>2, <1>7, <3>1 DEF Trail
      <4>2. d \in 0..accounts /\ d > MaxRetries
        BY <1>1, <2>2, <4>1
      <4>3. Cardinality(r.met) \in Nat /\ Cardinality(r.met) >= d
        BY <1>1, <4>1, <4>2, TrailCounts DEF Reached
      <4> QED
        BY <1>1, <4>2, <4>3
    <3>2. CallInv(CallOver(r, "refused"))
      BY <1>1, <1>7, <3>1, OverKeeps
    <3> QED
      BY <1>7, <2>2, <3>2 DEF Advance
  <2> QED
    BY <2>1, <2>2
<1> QED
  BY <1>5, <1>6, <1>7

\* A call that has asked the account at hand and looks for the one after it.
LEMMA SeekNext ==
  ASSUME AccountsType, NEW r \in CallRecords, r.at \in Account, r.from \in Account,
         r.start \in Account, r.met \subseteq Account, r.out = "none", r.at \in r.met,
         accounts # 1, r.met # Account => Trail(r, r.at, r.tries) /\ InRound(r)
  PROVE  CallInv(Seek(r, r.at))
<1> DEFINE i == r.at
<1> DEFINE e == Seek(r, i)
<1>1. i \in Nat
  BY ZeroAccount
<1>2. /\ e \in CallRecords /\ e.pc = "probe" /\ e.at = r.at /\ e.out = "none" /\ e.pick = "next"
      /\ e.from = i /\ e.step = 1 /\ e.met = r.met /\ e.start = r.start /\ e.tries = r.tries
      /\ e.round = r.round
  <2> HIDE DEF i
  <2> QED
    BY <1>1, SeekIs
<1> HIDE DEF e
<1>3. ASSUME e.met # Account PROVE AtProbe(e)
  <2>1. Trail(e, e.at, e.tries) /\ InRound(e)
    BY <1>2, <1>3 DEF Trail, InRound, RoundTrail
  <2>2. 1 \in 1..(accounts - 1)
    BY ZeroAccount
  <2>3. Covered(e.met, e.from, e.step)
    BY <1>2, CoversOne
  <2> QED
    BY <1>2, <2>1, <2>2, <2>3 DEF AtProbe
<1>4. CallInv(e)
  BY <1>2, <1>3 DEF CallInv
<1> QED
  BY <1>4 DEF e

\* A call of Apple that was told the song has no lyrics in this storefront.
Elsewhere(r) == [Seek([r EXCEPT !.silent = @ \cup {r.start}], r.start) EXCEPT !.pick = "round"]

LEMMA ElsewhereIs ==
  ASSUME NEW r \in CallRecords
  PROVE  /\ Elsewhere(r) \in CallRecords
         /\ Elsewhere(r).pc = "probe" /\ Elsewhere(r).at = r.at /\ Elsewhere(r).out = r.out
         /\ Elsewhere(r).pick = "round" /\ Elsewhere(r).from = r.start /\ Elsewhere(r).step = 1
         /\ Elsewhere(r).met = r.met /\ Elsewhere(r).start = r.start
         /\ Elsewhere(r).tries = r.tries /\ Elsewhere(r).round = r.round
<1> DEFINE q == [r EXCEPT !.silent = @ \cup {r.start}]
<1>1. /\ q \in CallRecords /\ q.at = r.at /\ q.out = r.out /\ q.met = r.met /\ q.start = r.start
      /\ q.tries = r.tries /\ q.round = r.round /\ r.start \in Nat
  BY DEF CallRecords
<1> DEFINE st == r.start
<1> DEFINE e == Seek(q, st)
<1> HIDE DEF q, st
<1>2. st \in Nat
  BY <1>1 DEF st
<1>3. /\ e \in CallRecords
      /\ e.pc = "probe" /\ e.at = q.at /\ e.out = q.out
      /\ e.pick = "next" /\ e.from = st /\ e.step = 1
      /\ e.met = q.met /\ e.start = q.start
      /\ e.tries = q.tries /\ e.round = q.round
  BY <1>1, <1>2, SeekIs
<1> HIDE DEF e
<1> DEFINE f == [e EXCEPT !.pick = "round"]
<1>4. /\ f \in CallRecords
      /\ f.pc = "probe" /\ f.at = e.at /\ f.out = e.out
      /\ f.pick = "round" /\ f.from = e.from /\ f.step = e.step
      /\ f.met = e.met /\ f.start = e.start
      /\ f.tries = e.tries /\ f.round = e.round
  BY <1>3 DEF CallRecords
<1>5. Elsewhere(r) = f
  BY DEF Elsewhere, e, q, st
<1> HIDE DEF f
<1>6. /\ f \in CallRecords
      /\ f.pc = "probe" /\ f.at = r.at /\ f.out = r.out
      /\ f.pick = "round" /\ f.from = r.start /\ f.step = 1
      /\ f.met = r.met /\ f.start = r.start
      /\ f.tries = r.tries /\ f.round = r.round
  BY <1>1, <1>3, <1>4 DEF st
<1> QED
  BY <1>5, <1>6

LEMMA SeekRound ==
  ASSUME AccountsType, NEW r \in CallRecords, r.at \in Account, r.from \in Account,
         r.start \in Account, r.met \subseteq Account, r.out = "none", accounts # 1,
         provider = "apple", r.met # Account => InRound(r)
  PROVE  CallInv(Elsewhere(r))
<1> DEFINE e == Elsewhere(r)
<1>1. /\ e \in CallRecords /\ e.pc = "probe" /\ e.at = r.at /\ e.out = "none" /\ e.pick = "round"
      /\ e.from = r.start /\ e.step = 1 /\ e.met = r.met /\ e.start = r.start
      /\ e.tries = r.tries /\ e.round = r.round
  BY ElsewhereIs
<1> HIDE DEF e
<1>2. ASSUME e.met # Account PROVE AtProbe(e)
  <2>1. InRound(e) /\ e.start \in e.met
    BY <1>1, <1>2 DEF InRound, RoundTrail
  <2>2. 1 \in 1..(accounts - 1)
    BY ZeroAccount
  <2>3. Covered(e.met, e.from, e.step)
    BY <1>1, <2>1, CoversOne
  <2> QED
    BY <1>1, <2>1, <2>2, <2>3 DEF AtProbe
<1>3. CallInv(e)
  BY <1>1, <1>2 DEF CallInv
<1> QED
  BY <1>3 DEF e

(* The steps. *)

LEMMA CandidateIs ==
  ASSUME AccountsType, NEW o \in Account, NEW k \in Nat
  PROVE  (o + k) % accounts \in Account
<1>1. accounts \in Nat \ {0} /\ o \in Nat
  BY ZeroAccount
<1> QED
  BY <1>1 DEF Account

\* Where CurrentIndex settles for an account: the call is as new.
LEMMA FirstKeeps ==
  ASSUME AccountsType, NEW r \in CallRecords, NEW i \in Account, r.met \subseteq Account,
         r.from \in Account, r.out = "none", AtFirst(r)
  PROVE  CallInv(Took(r, i))
BY TookKeeps DEF AtFirst

\* An account that is free: a first one is taken at once, another is stored.
LEMMA FreeKeeps ==
  ASSUME AccountsType, NEW r, CallInv(r), r.pc = "probe"
  PROVE  LET cand == (r.from + r.step) % accounts
         IN  CallInv(IF r.step = 0 THEN Took(r, cand) ELSE [r EXCEPT !.pc = "store", !.at = cand])
<1> DEFINE cand == (r.from + r.step) % accounts
<1>1. /\ r \in CallRecords /\ r.met \subseteq Account /\ r.out = "none" /\ cand \in Account
      /\ r.from \in Account /\ r.start \in Account /\ cand \in Nat
      /\ r.step \in Nat /\ r.tries \in Nat /\ r.round \in Nat \ {0} /\ accounts \in Nat \ {0}
      /\ r.pick = "round" => provider = "apple"
      /\ r.pick \in {"current", "next", "round"}
  BY ZeroAccount, CandidateIs DEF CallInv, CallRecords
<1>2. CASE r.step = 0
  <2>1. AtFirst(r)
    BY <1>1, <1>2 DEF CallInv
  <2>2. CallInv(Took(r, cand))
    BY <1>1, <2>1, FirstKeeps
  <2> QED
    BY <1>2, <2>2
<1>3. CASE r.step # 0
  <2> DEFINE e == [r EXCEPT !.pc = "store", !.at = cand]
  <2>1. /\ e \in CallRecords /\ e.pc = "store" /\ e.at = cand /\ e.out = "none"
        /\ e.pick = r.pick /\ e.from = r.from /\ e.step = r.step /\ e.met = r.met
        /\ e.start = r.start /\ e.tries = r.tries /\ e.round = r.round
    <3> HIDE DEF cand
    <3> QED
      BY <1>1 DEF CallRecords
  <2> HIDE DEF e
  <2>2. e.pick = "current" => AtFirst(e)
    BY <2>1 DEF CallInv, AtFirst
  <2>3. ASSUME e.met # Account PROVE AtStore(e)
    <3>1. CASE r.pick = "current"
      BY <2>1, <3>1 DEF AtStore
    <3>2. CASE r.pick # "current"
      <4>1. AtProbe(r)
        BY <2>1, <2>3, <3>2 DEF CallInv
      <4>2. /\ r.step \in 1..(accounts - 1) /\ r.step \in 0..accounts
            /\ Covered(r.met, r.from, r.step)
        BY <1>1, <4>1 DEF AtProbe
      <4>3. cand = After(r.from, r.step)
        BY DEF After
      <4>4. CASE r.pick = "next"
        <5>1. r.from = r.at /\ Trail(r, r.at, r.tries) /\ InRound(r)
          BY <4>1, <4>4 DEF AtProbe
        <5>2. PICK o \in Account, d \in r.tries..(accounts - 1) :
                Reached(r.met, r.from, o, d) /\ (provider = "musixmatch" => o = r.start)
          BY <5>1 DEF Trail
        <5>3. d \in 0..(accounts - 1) /\ d + r.step >= r.tries + 1
          BY <1>1, <4>2, <5>2
        <5>4. d + r.step < accounts /\ Reached(r.met, cand, o, d + r.step)
          <6>1. r.met \in SUBSET Account /\ r.met # Account
            BY <1>1, <2>1, <2>3
          <6>2. /\ d + r.step < accounts => Reached(r.met, After(r.from, r.step), o, d + r.step)
                /\ d + r.step >= accounts => r.met = Account
            BY <4>2, <5>2, <5>3, <6>1, Joined
          <6> QED
            BY <1>1, <4>2, <4>3, <5>3, <6>1, <6>2
        <5>5. d + r.step \in (r.tries + 1)..(accounts - 1)
          BY <1>1, <4>2, <5>3, <5>4
        <5>6. Trail(e, e.at, e.tries + 1)
          <6> DEFINE m == d + r.step
          <6>1. m \in (e.tries + 1)..(accounts - 1) /\ Reached(e.met, e.at, o, m)
            BY <2>1, <5>4, <5>5
          <6>2. provider = "musixmatch" => o = e.start
            BY <2>1, <5>2
          <6> HIDE DEF m
          <6> QED
            BY <5>2, <6>1, <6>2 DEF Trail
        <5>7. InRound(e)
          BY <2>1, <5>1 DEF InRound, RoundTrail
        <5> QED
          BY <2>1, <4>4, <5>6, <5>7 DEF AtStore
      <4>5. CASE r.pick = "round"
        <5>1. r.from = r.start /\ InRound(r) /\ provider = "apple"
          BY <1>1, <4>1, <4>5 DEF AtProbe
        <5>2. PICK o \in Account, d \in (r.round - 1)..(accounts - 1) :
                Reached(r.met, r.from, o, d)
          BY <5>1 DEF InRound, RoundTrail
        <5>3. d \in 0..(accounts - 1) /\ d + r.step >= r.round
          BY <1>1, <4>2, <5>2
        <5>4. d + r.step < accounts /\ Reached(r.met, cand, o, d + r.step)
          <6>1. r.met \in SUBSET Account /\ r.met # Account
            BY <1>1, <2>1, <2>3
          <6>2. /\ d + r.step < accounts => Reached(r.met, After(r.from, r.step), o, d + r.step)
                /\ d + r.step >= accounts => r.met = Account
            BY <4>2, <5>2, <5>3, <6>1, Joined
          <6> QED
            BY <1>1, <4>2, <4>3, <5>3, <6>1, <6>2
        <5>5. d + r.step \in r.round..(accounts - 1)
          BY <1>1, <4>2, <5>3, <5>4
        <5>6. RoundTrail(e, e.at, e.round)
          <6> DEFINE m == d + r.step
          <6>1. m \in e.round..(accounts - 1) /\ Reached(e.met, e.at, o, m)
            BY <2>1, <5>4, <5>5
          <6> HIDE DEF m
          <6> QED
            BY <5>2, <6>1 DEF RoundTrail
        <5> QED
          BY <2>1, <4>5, <5>6 DEF AtStore
      <4> QED
        BY <1>1, <3>2, <4>4, <4>5
    <3> QED
      BY <3>1, <3>2
  <2>4. CallInv(e)
    BY <1>1, <1>3, <2>1, <2>2, <2>3 DEF CallInv
  <2> QED
    BY <1>3, <2>4 DEF e
<1> QED
  BY <1>2, <1>3

\* An account at rest, with others still to look at.
LEMMA PassedKeeps ==
  ASSUME AccountsType, NEW r, CallInv(r), r.pc = "probe", r.step + 1 < accounts
  PROVE  CallInv([r EXCEPT !.met = @ \cup {(r.from + r.step) % accounts}, !.step = @ + 1])
<1> DEFINE cand == (r.from + r.step) % accounts
<1> DEFINE e == [r EXCEPT !.met = @ \cup {cand}, !.step = @ + 1]
<1>1. /\ r \in CallRecords /\ r.met \subseteq Account /\ r.out = "none" /\ cand \in Account
      /\ r.from \in Account /\ r.start \in Account /\ r.at \in Account /\ cand \in Nat
      /\ r.step \in Nat /\ r.tries \in Nat /\ r.round \in Nat \ {0} /\ accounts \in Nat \ {0}
      /\ r.pick = "round" => provider = "apple"
      /\ r.pick \in {"current", "next", "round"}
  BY ZeroAccount, CandidateIs DEF CallInv, CallRecords
<1>2. /\ e \in CallRecords /\ e.pc = "probe" /\ e.at = r.at /\ e.out = "none"
      /\ e.pick = r.pick /\ e.from = r.from /\ e.step = r.step + 1 /\ e.met = r.met \cup {cand}
      /\ e.start = r.start /\ e.tries = r.tries /\ e.round = r.round
  <2> DEFINE S == r.met \cup {cand}
  <2> DEFINE n == r.step + 1
  <2>1. S \in SUBSET Nat /\ n \in Nat
    <3> HIDE DEF cand
    <3> QED
      BY <1>1 DEF CallRecords
  <2> HIDE DEF S, n
  <2> DEFINE f == [r EXCEPT !.met = S, !.step = n]
  <2>2. /\ f \in CallRecords /\ f.pc = "probe" /\ f.at = r.at /\ f.out = "none"
        /\ f.pick = r.pick /\ f.from = r.from /\ f.step = n /\ f.met = S
        /\ f.start = r.start /\ f.tries = r.tries /\ f.round = r.round
    BY <1>1, <2>1 DEF CallRecords
  <2>3. e = f
    BY DEF S, n
  <2> HIDE DEF e, f
  <2> QED
    BY <2>2, <2>3 DEF S, n
<1>3. cand = After(r.from, r.step)
  BY DEF After
<1>4. e.met \subseteq Account /\ r.met \subseteq e.met
      /\ (e.met # Account => r.met # Account)
  <2> HIDE DEF cand, e
  <2> QED
    BY <1>1, <1>2
<1> HIDE DEF cand, e
<1>5. Covered(r.met, r.from, r.step) => Covered(e.met, e.from, e.step)
  BY <1>1, <1>2, <1>3 DEF Covered
<1>6. e.step \in 1..(accounts - 1)
  BY <1>1, <1>2
<1>7. \A i, o, d : Reached(r.met, i, o, d) => Reached(e.met, i, o, d)
  BY <1>4 DEF Reached, Covered
<1>8. e.pick = "current" => AtFirst(e)
  BY <1>1, <1>2, <1>5, <1>6 DEF CallInv, AtFirst
<1>9. ASSUME e.met # Account, e.pick # "current" PROVE AtProbe(e)
  <2>1. AtProbe(r)
    BY <1>2, <1>4, <1>9 DEF CallInv
  <2>2. InRound(r) => InRound(e)
    BY <1>2, <1>4, <1>7 DEF InRound, RoundTrail
  <2>3. Trail(r, r.at, r.tries) => Trail(e, e.at, e.tries)
    <3> SUFFICES ASSUME Trail(r, r.at, r.tries) PROVE Trail(e, e.at, e.tries)
      OBVIOUS
    <3>1. PICK o \in Account, d \in r.tries..(accounts - 1) :
            Reached(r.met, r.at, o, d) /\ (provider = "musixmatch" => o = r.start)
      BY DEF Trail
    <3>2. d \in e.tries..(accounts - 1) /\ Reached(e.met, e.at, o, d)
          /\ (provider = "musixmatch" => o = e.start)
      BY <1>2, <1>7, <3>1
    <3> QED
      BY <3>2 DEF Trail
  <2> QED
    BY <1>2, <1>5, <1>6, <2>1, <2>2, <2>3 DEF AtProbe
<1>10. e.step # 0
  BY <1>1, <1>2
<1>11. CallInv(e)
  BY <1>1, <1>2, <1>4, <1>8, <1>9, <1>10 DEF CallInv
<1> QED
  BY <1>11 DEF e, cand

\* The last account, at rest too: CurrentIndex stays, Next has met them all.
LEMMA LastKeeps ==
  ASSUME AccountsType, NEW r, CallInv(r), r.pc = "probe", r.step + 1 >= accounts
  PROVE  LET seen == [r EXCEPT !.met = @ \cup {(r.from + r.step) % accounts}]
         IN  CallInv(IF r.pick = "current" THEN Took(seen, r.from)
                     ELSE [seen EXCEPT !.pc = "store", !.at = (r.from + 1) % accounts])
<1> DEFINE cand == (r.from + r.step) % accounts
<1> DEFINE e == [r EXCEPT !.met = @ \cup {cand}]
<1>1. /\ r \in CallRecords /\ r.met \subseteq Account /\ r.out = "none" /\ cand \in Account
      /\ r.from \in Account /\ r.start \in Account /\ r.at \in Account /\ cand \in Nat
      /\ r.step \in Nat /\ accounts \in Nat \ {0}
      /\ r.pick = "round" => provider = "apple"
      /\ r.pick \in {"current", "next", "round"}
  BY ZeroAccount, CandidateIs DEF CallInv, CallRecords
<1>2. /\ e \in CallRecords /\ e.pc = "probe" /\ e.at = r.at /\ e.out = "none"
      /\ e.pick = r.pick /\ e.from = r.from /\ e.step = r.step /\ e.met = r.met \cup {cand}
      /\ e.start = r.start /\ e.tries = r.tries /\ e.round = r.round
  <2> HIDE DEF cand
  <2> QED
    BY <1>1 DEF CallRecords
<1>3. cand = After(r.from, r.step)
  BY DEF After
<1> HIDE DEF cand, e
<1>4. e.met \subseteq Account
  BY <1>1, <1>2
<1>5. CASE r.pick = "current"
  <2>1. e.tries = 0 /\ e.round = 1
    BY <1>2, <1>5 DEF CallInv, AtFirst
  <2>2. CallInv(Took(e, r.from))
    BY <1>1, <1>2, <1>4, <2>1, TookKeeps
  <2> QED
    BY <1>5, <2>2 DEF e, cand
<1>6. CASE r.pick # "current"
  <2>1. e.met = Account
    <3> SUFFICES ASSUME e.met # Account PROVE FALSE
      OBVIOUS
    <3>1. AtProbe(r)
      BY <1>1, <1>2, <1>6 DEF CallInv
    <3>2. r.step = accounts - 1 /\ Covered(r.met, r.from, r.step)
      BY <1>1, <3>1 DEF AtProbe
    <3>3. Covered(e.met, r.from, accounts)
      BY <1>1, <1>2, <1>3, <3>2 DEF Covered
    <3> QED
      BY <1>1, <1>4, <3>3, CoversAll
  <2> DEFINE i == (r.from + 1) % accounts
  <2>2. i \in Account /\ i \in Nat
    BY <1>1, CandidateIs, ZeroAccount
  <2> HIDE DEF i
  <2> DEFINE f == [e EXCEPT !.pc = "store", !.at = i]
  <2>3. /\ f \in CallRecords /\ f.pc = "store" /\ f.at = i /\ f.out = "none"
        /\ f.pick = e.pick /\ f.from = e.from /\ f.met = e.met /\ f.start = e.start
    BY <1>2, <2>2 DEF CallRecords
  <2> HIDE DEF f
  <2>4. CallInv(f)
    BY <1>1, <1>2, <1>4, <1>6, <2>1, <2>2, <2>3 DEF CallInv
  <2> QED
    BY <1>6, <2>4 DEF f, e, cand, i
<1> QED
  BY <1>5, <1>6 DEF e, cand

LEMMA StoreKeeps ==
  ASSUME AccountsType, NEW r, CallInv(r), r.pc = "store"
  PROVE  CallInv(IF r.pick = "current" THEN Took(r, r.at) ELSE Advance(r, r.at))
<1>1. /\ r \in CallRecords /\ r.at \in Account /\ r.met \subseteq Account /\ r.out = "none"
      /\ r.from \in Account /\ r.pick \in {"current", "next", "round"}
  BY DEF CallInv, CallRecords
<1>2. CASE r.pick = "current"
  <2>1. AtFirst(r)
    BY <1>2 DEF CallInv
  <2> QED
    BY <1>1, <1>2, <2>1, FirstKeeps
<1>3. CASE r.pick # "current"
  BY <1>1, <1>3, AdvanceKeeps
<1> QED
  BY <1>2, <1>3

\* The call asked the account at hand: it has met it now.
NowMet(r) == [r EXCEPT !.met = @ \cup {r.at}]

LEMMA NowMetIs ==
  ASSUME AccountsType, NEW r, CallInv(r), r.pc = "ask"
  PROVE  /\ NowMet(r) \in CallRecords
         /\ NowMet(r).pc = "ask" /\ NowMet(r).out = "none"
         /\ NowMet(r).at = r.at /\ NowMet(r).from = r.from /\ NowMet(r).start = r.start
         /\ NowMet(r).tries = r.tries /\ NowMet(r).round = r.round
         /\ NowMet(r).waited = r.waited
         /\ NowMet(r).at \in Account /\ NowMet(r).from \in Account
         /\ NowMet(r).start \in Account
         /\ NowMet(r).met \subseteq Account /\ NowMet(r).at \in NowMet(r).met
         /\ NowMet(r).met # Account =>
              Trail(NowMet(r), r.at, r.tries) /\ InRound(NowMet(r))
<1> DEFINE e == NowMet(r)
<1>1. /\ r \in CallRecords /\ r.at \in Account /\ r.met \subseteq Account /\ r.out = "none"
      /\ r.from \in Account /\ r.start \in Account /\ r.at \in Nat
  BY ZeroAccount DEF CallInv, CallRecords
<1>2. /\ e \in CallRecords /\ e.pc = "ask" /\ e.out = "none" /\ e.met = r.met \cup {r.at}
      /\ e.at = r.at /\ e.from = r.from /\ e.start = r.start
      /\ e.tries = r.tries /\ e.round = r.round /\ e.waited = r.waited
  BY <1>1 DEF CallRecords, NowMet
<1> HIDE DEF e
<1>3. e.met \subseteq Account /\ e.at \in e.met /\ (e.met # Account => r.met # Account)
  BY <1>1, <1>2
<1>4. \A i, o, d : Reached(r.met, i, o, d) => Reached(e.met, i, o, d)
  BY <1>2 DEF Reached, Covered
<1>5. ASSUME e.met # Account PROVE Trail(e, r.at, r.tries) /\ InRound(e)
  <2>1. AtAsk(r)
    BY <1>3, <1>5 DEF CallInv
  <2>2. PICK o \in Account, d \in r.tries..(accounts - 1) :
          Reached(r.met, r.at, o, d) /\ (provider = "musixmatch" => o = r.start)
    BY <2>1 DEF AtAsk, Trail
  <2>3. Reached(e.met, r.at, o, d) /\ (provider = "musixmatch" => o = e.start)
    BY <1>2, <1>4, <2>2
  <2>4. provider = "apple" => RoundTrail(e, e.start, e.round - 1) /\ e.start \in e.met
    BY <1>2, <1>4, <2>1 DEF AtAsk, RoundTrail
  <2> QED
    BY <2>2, <2>3, <2>4 DEF Trail, InRound
<1> QED
  BY <1>1, <1>2, <1>3, <1>5 DEF e

\* With one account there is no other: the call has met them all.
LEMMA OnlyOne ==
  ASSUME AccountsType, accounts = 1, NEW S, S \subseteq Account, NEW i \in S
  PROVE  S = Account
<1>1. \A a \in Account : a = 0
  BY DEF Account
<1>2. 0 \in S
  BY <1>1
<1> QED
  BY <1>1, <1>2

LEMMA RefusedKeeps ==
  ASSUME AccountsType, NEW r, CallInv(r), r.pc = "ask"
  PROVE  CallInv(AfterRefusal(NowMet(r)))
<1> DEFINE e == NowMet(r)
<1>1. /\ e \in CallRecords /\ e.pc = "ask" /\ e.out = "none" /\ e.at = r.at
      /\ e.at \in Account /\ e.from \in Account /\ e.start \in Account /\ e.tries = r.tries
      /\ e.met \subseteq Account /\ e.at \in e.met /\ e.tries \in Nat
      /\ e.met # Account => Trail(e, e.at, e.tries) /\ InRound(e)
  BY NowMetIs DEF CallRecords
<1> HIDE DEF e
<1>2. CASE accounts = 1
  <2>1. CallInv(CallOver(e, "refused"))
    BY <1>1, <1>2, OnlyOne, OverKeeps
  <2> QED
    BY <1>2, <2>1 DEF AfterRefusal, e
<1>3. CASE accounts # 1 /\ provider \in {"spotify", "apple"} /\ e.tries >= MaxRetries
  <2>1. ASSUME e.met # Account PROVE Cardinality(e.met) > MaxRetries
    <3>1. PICK o \in Account, d \in e.tries..(accounts - 1) : Reached(e.met, e.at, o, d)
      BY <1>1, <2>1 DEF Trail
    <3>2. d \in 0..(accounts - 1) /\ d >= MaxRetries /\ accounts \in Nat /\ MaxRetries \in Nat
          /\ d + 1 \in 0..accounts /\ 1 \in 0..accounts
      BY <1>1, <1>3, <3>1, ZeroAccount, AccountsAssumption
    <3>3. Covered(e.met, o, d + 1)
      <4>1. e.at = After(o, d) /\ Covered(e.met, o, d)
        BY <3>1 DEF Reached
      <4>2. \A k \in 0..((d + 1) - 1) : k \in 0..(d - 1) \/ k = d
        BY <3>2
      <4> QED
        BY <1>1, <4>1, <4>2 DEF Covered
    <3>4. Cardinality(e.met) \in Nat /\ Cardinality(e.met) >= d + 1
      BY <1>1, <3>2, <3>3, TrailCounts
    <3> QED
      BY <3>2, <3>4
  <2>2. CallInv(CallOver(e, "refused"))
    BY <1>1, <1>3, <2>1, OverKeeps
  <2> QED
    BY <1>3, <2>2 DEF AfterRefusal, e
<1>4. CASE accounts # 1 /\ ~(provider \in {"spotify", "apple"} /\ e.tries >= MaxRetries)
  <2>1. CallInv(Seek(e, e.at))
    BY <1>1, <1>4, SeekNext
  <2> QED
    BY <1>4, <2>1 DEF AfterRefusal, e
<1> QED
  BY <1>2, <1>3, <1>4

LEMMA AbsentKeeps ==
  ASSUME AccountsType, NEW r, CallInv(r), r.pc = "ask"
  PROVE  CallInv(AfterAbsent(NowMet(r)))
<1> DEFINE e == NowMet(r)
<1>1. /\ e \in CallRecords /\ e.out = "none" /\ e.at = r.at
      /\ e.at \in Account /\ e.from \in Account /\ e.start \in Account
      /\ e.met \subseteq Account /\ e.at \in e.met
      /\ e.met # Account => InRound(e)
  BY NowMetIs
<1> HIDE DEF e
<1>2. CASE provider # "apple" \/ accounts = 1
  <2>1. provider = "apple" => e.met = Account
    BY <1>1, <1>2, OnlyOne
  <2>2. CallInv(CallOver(e, "absent"))
    BY <1>1, <2>1, OverKeeps
  <2> QED
    BY <1>2, <2>2 DEF AfterAbsent, e
<1>3. CASE provider = "apple" /\ accounts # 1
  <2>1. CallInv(Elsewhere(e))
    BY <1>1, <1>3, SeekRound
  <2> QED
    BY <1>3, <2>1 DEF AfterAbsent, Elsewhere, e
<1> QED
  BY <1>2, <1>3

\* A 503 of Apple, asked again after a moment.
LEMMA WaitedKeeps ==
  ASSUME AccountsType, NEW r, CallInv(r), r.pc = "ask"
  PROVE  CallInv([NowMet(r) EXCEPT !.waited = TRUE])
<1> DEFINE e == NowMet(r)
<1>1. /\ e \in CallRecords /\ e.pc = "ask" /\ e.out = "none" /\ e.at = r.at
      /\ e.at \in Account /\ e.from \in Account /\ e.start \in Account /\ e.tries = r.tries
      /\ e.met \subseteq Account
      /\ e.met # Account => Trail(e, e.at, e.tries) /\ InRound(e)
  BY NowMetIs
<1> HIDE DEF e
<1> DEFINE f == [e EXCEPT !.waited = TRUE]
<1>2. /\ f \in CallRecords /\ f.pc = "ask" /\ f.out = "none" /\ f.at = e.at
      /\ f.from = e.from /\ f.start = e.start /\ f.tries = e.tries /\ f.round = e.round
      /\ f.met = e.met
  BY <1>1 DEF CallRecords
<1> HIDE DEF f
<1>3. ASSUME f.met # Account PROVE AtAsk(f)
  BY <1>1, <1>2, <1>3 DEF AtAsk, Trail, InRound, RoundTrail
<1>4. CallInv(f)
  BY <1>1, <1>2, <1>3, AskKeeps
<1> QED
  BY <1>4 DEF f, e

LEMMA InitAccounts == AccountsInit => AccountsInv
<1> SUFFICES ASSUME AccountsInit PROVE AccountsInv
  OBVIOUS
<1>1. AccountsType
  <2>1. IdleCall \in CallRecords
    BY DEF IdleCall, CallRecords
  <2>2. accounts \in Nat \ {0} /\ 0 \in Account
    BY AccountsAssumption DEF AccountsInit, Account
  <2> QED
    BY <2>1, <2>2 DEF AccountsInit, AccountsType
<1>2. CallInv(IdleCall)
  <2> DEFINE e == IdleCall
  <2>1. /\ e \in CallRecords /\ e.pc = "idle" /\ e.at = 0 /\ e.from = 0 /\ e.start = 0
        /\ e.met = {} /\ e.out = "none"
    BY DEF IdleCall, CallRecords
  <2>2. e = IdleCall
    OBVIOUS
  <2> HIDE DEF e
  <2>3. CallInv(e)
    BY <1>1, <2>1, <2>2, ZeroAccount DEF CallInv
  <2> QED
    BY <2>3 DEF e
<1> QED
  BY <1>1, <1>2 DEF AccountsInit, AccountsInv

\* What is known of the call stays true while the accounts are the same.
LEMMA Carry ==
  ASSUME AccountsType, UNCHANGED <<provider, accounts>>, CallInv(call'), current' \in Account
  PROVE  AccountsInv'
<1>1. Account' = Account
  BY DEF Account
<1>2. \A o, k : After(o, k)' = After(o, k)
  BY DEF After
<1>3. CallInv(call)'
  BY DEF CallInv, GivenUp, AtFirst, AtProbe, AtStore, AtAsk, Trail, RoundTrail, InRound,
         Reached, Covered, After, Account
<1> QED
  BY <1>1, <1>3 DEF AccountsInv, AccountsType, CallInv

LEMMA AccountsStep == AccountsInv /\ [AccountsNext]_accountsVars => AccountsInv'
<1> SUFFICES ASSUME AccountsInv, [AccountsNext]_accountsVars PROVE AccountsInv'
  OBVIOUS
<1> USE DEF AccountsInv
<1>1. current \in Account /\ call \in CallRecords
  BY DEF AccountsType
<1>2. CASE Begin
  <2> DEFINE idle == IdleCall
  <2> DEFINE e == [idle EXCEPT !.pc = "probe", !.pick = "current", !.from = current]
  <2>1. call = IdleCall /\ current \in Nat
    BY <1>1, <1>2, ZeroAccount DEF Begin, CallInv
  <2>9. /\ idle \in CallRecords /\ idle.step = 0 /\ idle.tries = 0 /\ idle.round = 1
        /\ idle.out = "none" /\ idle.met = {} /\ idle.at = 0 /\ idle.start = 0
    BY DEF IdleCall, CallRecords
  <2>10. e = call'
    BY <1>2, <2>1 DEF Begin
  <2> HIDE DEF idle
  <2>2. /\ e \in CallRecords /\ e.pc = "probe" /\ e.pick = "current" /\ e.from = current
        /\ e.step = 0 /\ e.tries = 0 /\ e.round = 1 /\ e.out = "none" /\ e.met = {}
        /\ e.at = 0 /\ e.start = 0
    BY <2>1, <2>9 DEF CallRecords
  <2> HIDE DEF e
  <2>4. AtFirst(e)
    BY <2>2, ZeroAccount DEF AtFirst, Covered
  <2>5. CallInv(e)
    BY <1>1, <2>2, <2>4, ZeroAccount DEF CallInv
  <2> QED
    BY <1>1, <1>2, <2>10, <2>5, Carry DEF Begin
<1>3. CASE Probe
  <2> DEFINE cand == (call.from + call.step) % accounts
  <2>1. CASE cand \notin resting /\ call' = IF call.step = 0 THEN Took(call, cand)
                                            ELSE [call EXCEPT !.pc = "store", !.at = cand]
    <3>1. CallInv(call')
      BY <1>3, <2>1, FreeKeeps DEF Probe
    <3> QED
      BY <1>1, <1>3, <3>1, Carry DEF Probe
  <2>2. CASE /\ call.step + 1 < accounts
             /\ call' = [call EXCEPT !.met = @ \cup {cand}, !.step = @ + 1]
    <3>1. CallInv(call')
      BY <1>3, <2>2, PassedKeeps DEF Probe
    <3> QED
      BY <1>1, <1>3, <3>1, Carry DEF Probe
  <2>3. CASE /\ call.step + 1 >= accounts
             /\ LET seen == [call EXCEPT !.met = @ \cup {cand}]
                IN  call' = IF call.pick = "current" THEN Took(seen, call.from)
                            ELSE [seen EXCEPT !.pc = "store", !.at = (call.from + 1) % accounts]
    <3>1. CallInv(call')
      BY <1>3, <2>3, LastKeeps DEF Probe
    <3> QED
      BY <1>1, <1>3, <3>1, Carry DEF Probe
  <2>4. call.step \in Nat /\ accounts \in Nat
    BY <1>1, ZeroAccount DEF CallRecords
  <2>5. ~(call.step + 1 >= accounts) => call.step + 1 < accounts
    BY <2>4
  <2> HIDE DEF cand
  <2>6. \/ cand \notin resting /\ call' = IF call.step = 0 THEN Took(call, cand)
                                           ELSE [call EXCEPT !.pc = "store", !.at = cand]
        \/ /\ call.step + 1 < accounts
           /\ call' = [call EXCEPT !.met = @ \cup {cand}, !.step = @ + 1]
        \/ /\ call.step + 1 >= accounts
           /\ LET seen == [call EXCEPT !.met = @ \cup {cand}]
              IN  call' = IF call.pick = "current" THEN Took(seen, call.from)
                          ELSE [seen EXCEPT !.pc = "store", !.at = (call.from + 1) % accounts]
    BY <1>3, <2>5 DEF Probe, cand
  <2> QED
    BY <2>1, <2>2, <2>3, <2>6
<1>4. CASE Store
  <2>1. CallInv(call')
    BY <1>4, StoreKeeps DEF Store
  <2>2. current' \in Account
    BY <1>4 DEF Store, CallInv
  <2> QED
    BY <1>4, <2>1, <2>2, Carry DEF Store
<1>5. CASE AccountAnswers
  <2> DEFINE e == NowMet(call)
  <2>1. call.pc = "ask" /\ UNCHANGED <<provider, accounts, current>>
    BY <1>5 DEF AccountAnswers
  <2>2. \/ call' = CallOver(e, "ok") \/ call' = CallOver(e, "broken")
        \/ call' = AfterAbsent(e) \/ call' = AfterRefusal(e)
        \/ call' = [e EXCEPT !.waited = TRUE]
    BY <1>5 DEF AccountAnswers, NowMet
  <2>3. e \in CallRecords /\ e.met \subseteq Account
    BY <2>1, NowMetIs
  <2>4. CallInv(CallOver(e, "ok")) /\ CallInv(CallOver(e, "broken"))
    BY <2>3, OverKeeps
  <2>5. CallInv(call')
    BY <2>1, <2>2, <2>4, AbsentKeeps, RefusedKeeps, WaitedKeeps
  <2> QED
    BY <1>1, <2>1, <2>5, Carry
<1>6. CASE Others
  <2>1. UNCHANGED <<provider, accounts, call>> /\ current' \in Account
    BY <1>1, <1>6 DEF Others
  <2> QED
    BY <2>1, Carry
<1>7. CASE \E a \in Account : Rested(a)
  BY <1>1, <1>7, Carry DEF Rested
<1>8. CASE UNCHANGED accountsVars
  BY <1>1, <1>8, Carry DEF accountsVars
<1> QED
  BY <1>2, <1>3, <1>4, <1>5, <1>6, <1>7, <1>8 DEF AccountsNext

\* A call gives up only after it met every account, however the other calls
\* move the shared index and put accounts to rest meanwhile, or, where retries
\* are counted, after more accounts than it has retries.
THEOREM GivesUpAtTheEnd == AccountsSpec => []GivesUpAfterAll
<1>1. AccountsInv => GivesUpAfterAll
  BY DEF AccountsInv, CallInv, GivenUp, GivesUpAfterAll
<1> QED
  BY <1>1, InitAccounts, AccountsStep, PTL DEF AccountsSpec

=============================================================================
