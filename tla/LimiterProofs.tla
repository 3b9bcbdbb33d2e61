---------------------------- MODULE LimiterProofs ----------------------------
(***************************************************************************)
(* Proofs about Limiter, for every finite set of callers, every set of     *)
(* sources and every pair of limits.                                       *)
(*                                                                         *)
(* LimiterInv is the inductive invariant.  Besides the properties it says  *)
(* that nobody is in a queue twice: whoever is given a permit has left the *)
(* queue for good.                                                         *)
(***************************************************************************)
EXTENDS Limiter, FiniteSetTheorems, TLAPS

Waits(c, m) == IF m = global THEN pc[c] = "globalQ" ELSE pc[c] = "srcQ" /\ src[c] = m

\* Only those who wait are in the queue, each of them once.
QueueExact ==
  \A m \in Sem :
    /\ \A i \in 1..Len(queue[m]) : Waits(queue[m][i], m)
    /\ \A i, j \in 1..Len(queue[m]) : queue[m][i] = queue[m][j] => i = j

\* Permits are given out up to the limit, and nobody waits below it.
Filled ==
  \A m \in Sem :
    /\ cur[m] <= Size(m)
    /\ queue[m] # <<>> => cur[m] = Size(m)

LimiterInv == TypeOK /\ PermitsExact /\ QueueExact /\ Filled

-----------------------------------------------------------------------------
(* Sequences and finite sets *)

\* What Append does to the elements of a queue.
LEMMA Appended ==
  ASSUME NEW S, NEW q \in Seq(S), NEW x \in S
  PROVE  /\ Append(q, x) \in Seq(S)
         /\ Append(q, x) # <<>>
         /\ Len(Append(q, x)) = Len(q) + 1
         /\ Len(q) \in Nat
         /\ \A i \in 1..Len(q) : Append(q, x)[i] = q[i]
         /\ Append(q, x)[Len(q) + 1] = x
OBVIOUS

\* What taking the first leaves of a queue.
LEMMA Behead ==
  ASSUME NEW S, NEW q \in Seq(S), q # <<>>
  PROVE  /\ Head(q) = q[1] /\ Head(q) \in S
         /\ Tail(q) \in Seq(S)
         /\ Len(q) \in Nat \ {0}
         /\ Len(Tail(q)) = Len(q) - 1
         /\ \A i \in 1..Len(Tail(q)) : Tail(q)[i] = q[i + 1]
OBVIOUS

\* The elements of two sequences, one after the other.
LEMMA Joined ==
  ASSUME NEW S, NEW a \in Seq(S), NEW b \in Seq(S)
  PROVE  /\ a \o b \in Seq(S)
         /\ Len(a \o b) = Len(a) + Len(b)
         /\ \A i \in 1..(Len(a) + Len(b)) :
              (a \o b)[i] = IF i <= Len(a) THEN a[i] ELSE b[i - Len(a)]
OBVIOUS

\* What is left of a queue when its k-th element leaves it.
LEMMA Without ==
  ASSUME NEW S, NEW q \in Seq(S), NEW k \in 1..Len(q)
  PROVE  /\ RemoveAt(q, k) \in Seq(S)
         /\ Len(RemoveAt(q, k)) = Len(q) - 1
         /\ q # <<>>
         /\ Len(q) \in Nat
         /\ \A i \in 1..Len(RemoveAt(q, k)) :
              RemoveAt(q, k)[i] = q[IF i < k THEN i ELSE i + 1]
<1> DEFINE a == SubSeq(q, 1, k - 1)
           b == SubSeq(q, k + 1, Len(q))
<1>1. Len(q) \in Nat /\ k \in Nat /\ 1 <= k /\ k <= Len(q)
  OBVIOUS
<1>2. /\ a \in Seq(S) /\ Len(a) = k - 1
      /\ \A i \in 1..(k - 1) : a[i] = q[i]
  BY <1>1
<1>3. /\ b \in Seq(S) /\ Len(b) = Len(q) - k
      /\ \A i \in 1..(Len(q) - k) : b[i] = q[k + i]
  BY <1>1
<1>4. RemoveAt(q, k) = a \o b
  BY DEF RemoveAt
<1> HIDE DEF a, b
<1>5. /\ a \o b \in Seq(S) /\ Len(a \o b) = Len(q) - 1
      /\ \A i \in 1..(Len(q) - 1) : (a \o b)[i] = IF i < k THEN a[i] ELSE b[i - k + 1]
  <2>1. /\ a \o b \in Seq(S)
        /\ Len(a \o b) = Len(a) + Len(b)
        /\ \A i \in 1..(Len(a) + Len(b)) :
             (a \o b)[i] = IF i <= Len(a) THEN a[i] ELSE b[i - Len(a)]
    BY <1>2, <1>3, Joined
  <2>2. Len(a) + Len(b) = Len(q) - 1
    BY <1>1, <1>2, <1>3
  <2>3. ASSUME NEW i \in 1..(Len(q) - 1)
        PROVE  (a \o b)[i] = IF i < k THEN a[i] ELSE b[i - k + 1]
    <3>1. i <= Len(a) <=> i < k
      BY <1>1, <1>2
    <3>2. i - Len(a) = i - k + 1
      BY <1>1, <1>2
    <3> QED
      BY <2>1, <2>2, <3>1, <3>2
  <2> QED
    BY <2>1, <2>2, <2>3
<1>6. \A i \in 1..(Len(q) - 1) : (a \o b)[i] = q[IF i < k THEN i ELSE i + 1]
  <2> TAKE i \in 1..(Len(q) - 1)
  <2>1. CASE i < k
    BY <1>1, <1>2, <1>5, <2>1
  <2>2. CASE ~(i < k)
    <3>1. i - k + 1 \in 1..(Len(q) - k) /\ k + (i - k + 1) = i + 1
      BY <1>1, <2>2
    <3> QED
      BY <1>3, <1>5, <2>2, <3>1
  <2> QED
    BY <2>1, <2>2
<1>7. q # <<>>
  BY <1>1
<1> QED
  BY <1>1, <1>4, <1>5, <1>6, <1>7

\* Elements are as distinct in what remains as they were.
LEMMA DistinctWithout ==
  ASSUME NEW S, NEW q \in Seq(S), NEW k \in 1..Len(q),
         \A i, j \in 1..Len(q) : q[i] = q[j] => i = j
  PROVE  /\ \A i \in 1..Len(RemoveAt(q, k)) :
              \E j \in 1..Len(q) : j # k /\ RemoveAt(q, k)[i] = q[j]
         /\ \A i, j \in 1..Len(RemoveAt(q, k)) :
              RemoveAt(q, k)[i] = RemoveAt(q, k)[j] => i = j
<1> DEFINE p == RemoveAt(q, k)
           at(i) == IF i < k THEN i ELSE i + 1
<1>1. /\ Len(q) \in Nat /\ Len(p) = Len(q) - 1
      /\ \A i \in 1..Len(p) : p[i] = q[at(i)]
  BY Without
<1>2. \A i \in 1..Len(p) : at(i) \in 1..Len(q) /\ at(i) # k
  BY <1>1
<1>3. \A i, j \in 1..Len(p) : at(i) = at(j) => i = j
  BY <1>1
<1> QED
  BY <1>1, <1>2, <1>3

\* A set that gains an element, loses one, or exchanges one.
LEMMA Gained ==
  ASSUME NEW S, IsFiniteSet(S), NEW x, x \notin S
  PROVE  Cardinality(S \cup {x}) = Cardinality(S) + 1
BY FS_AddElement

LEMMA Lost ==
  ASSUME NEW S, IsFiniteSet(S), NEW x \in S
  PROVE  /\ Cardinality(S) \in Nat \ {0}
         /\ Cardinality(S \ {x}) = Cardinality(S) - 1
<1>1. IsFiniteSet(S \ {x}) /\ Cardinality(S \ {x}) = Cardinality(S) - 1
  BY FS_RemoveElement
<1>2. Cardinality(S) \in Nat /\ Cardinality(S \ {x}) \in Nat
  BY <1>1, FS_CardinalityType
<1> QED
  BY <1>1, <1>2

LEMMA Exchanged ==
  ASSUME NEW S, IsFiniteSet(S), NEW x \in S, NEW y, y \notin S
  PROVE  Cardinality((S \ {x}) \cup {y}) = Cardinality(S)
<1>1. IsFiniteSet(S \ {x})
  BY FS_RemoveElement
<1>2. Cardinality((S \ {x}) \cup {y}) = Cardinality(S \ {x}) + 1
  BY <1>1, Gained
<1>3. Cardinality(S) \in Nat \ {0} /\ Cardinality(S \ {x}) = Cardinality(S) - 1
  BY Lost
<1> QED
  BY <1>2, <1>3

LEMMA HoldersFinite ==
  ASSUME NEW m
  PROVE  IsFiniteSet(Holders(m))
<1>1. IsFiniteSet(Callers)
  BY LimiterAssumption DEF LimiterAssumption
<1>2. Holders(m) \in SUBSET Callers
  BY DEF Holders
<1> QED
  BY <1>1, <1>2, FS_Subset

-----------------------------------------------------------------------------
(* Permits: what an action does to the holders of one semaphore *)

\* Somebody new takes a permit.
LEMMA TakeIsExact ==
  ASSUME TypeOK, PermitsExact, NEW n \in Sem, NEW c,
         cur' = [cur EXCEPT ![n] = @ + 1],
         c \notin Holders(n),
         Holders(n)' = Holders(n) \cup {c},
         \A m \in Sem \ {n} : Holders(m)' = Holders(m)
  PROVE  PermitsExact'
<1>1. \A m \in Sem \ {n} : cur'[m] = Cardinality(Holders(m)')
  BY DEF TypeOK, PermitsExact
<1>2. cur'[n] = Cardinality(Holders(n)) + 1
  BY DEF TypeOK, PermitsExact
<1>3. Cardinality(Holders(n)') = Cardinality(Holders(n)) + 1
  BY HoldersFinite, Gained
<1> QED
  BY <1>1, <1>2, <1>3 DEF PermitsExact, Sem

\* Nobody takes or returns one.
LEMMA SameIsExact ==
  ASSUME PermitsExact, UNCHANGED cur, \A m \in Sem : Holders(m)' = Holders(m)
  PROVE  PermitsExact'
BY DEF PermitsExact, Sem

\* A holder returns its permit, to the semaphore or to the first in line.
LEMMA ReturnIsExact ==
  ASSUME TypeOK, PermitsExact, NEW n \in Sem, NEW c, NEW h,
         c \in Holders(n),
         \/ /\ cur' = [cur EXCEPT ![n] = @ - 1]
            /\ Holders(n)' = Holders(n) \ {c}
         \/ /\ UNCHANGED cur
            /\ h \notin Holders(n)
            /\ Holders(n)' = (Holders(n) \ {c}) \cup {h},
         \A m \in Sem \ {n} : Holders(m)' = Holders(m)
  PROVE  PermitsExact' /\ cur' \in [Sem -> Nat]
<1>1. \A m \in Sem \ {n} : cur'[m] = Cardinality(Holders(m)')
  BY DEF TypeOK, PermitsExact
<1>2. /\ Cardinality(Holders(n)) \in Nat \ {0}
      /\ Cardinality(Holders(n) \ {c}) = Cardinality(Holders(n)) - 1
      /\ h \notin Holders(n) => Cardinality((Holders(n) \ {c}) \cup {h}) = Cardinality(Holders(n))
  <2>1. IsFiniteSet(Holders(n))
    BY HoldersFinite
  <2>2. Cardinality(Holders(n)) \in Nat \ {0} /\ Cardinality(Holders(n) \ {c}) = Cardinality(Holders(n)) - 1
    BY <2>1, Lost
  <2>3. h \notin Holders(n) => Cardinality((Holders(n) \ {c}) \cup {h}) = Cardinality(Holders(n))
    BY <2>1, Exchanged
  <2> QED
    BY <2>2, <2>3
<1>3. cur[n] = Cardinality(Holders(n)) /\ cur \in [Sem -> Nat]
  BY DEF TypeOK, PermitsExact
<1>4. cur'[n] = Cardinality(Holders(n)') /\ cur' \in [Sem -> Nat]
  BY <1>2, <1>3
<1> QED
  BY <1>1, <1>4 DEF PermitsExact, Sem

-----------------------------------------------------------------------------
(* Queues: what an action does to those who wait *)

\* Nobody but c moves, and c does not wait.
StillBut(c, h) ==
  \A x \in Callers \ {c, h} : pc'[x] = pc[x] /\ src'[x] = src[x]

\* Waits, of a caller named now, in the next state.
WillWait(c, m) == IF m = global THEN pc'[c] = "globalQ" ELSE pc'[c] = "srcQ" /\ src'[c] = m

WaitsNowhere(c) == pc[c] \notin {"srcQ", "globalQ"}

\* One waits for one semaphore.
LEMMA WaitsForOne ==
  ASSUME NEW c, NEW m \in Sem, NEW n \in Sem, Waits(c, m), Waits(c, n)
  PROVE  m = n
BY DEF Waits

LEMMA NotWaiting ==
  ASSUME NEW c, WaitsNowhere(c), NEW m, Waits(c, m)
  PROVE  FALSE
BY DEF Waits, WaitsNowhere

\* The queue is left alone.
LEMMA SameQueue ==
  ASSUME TypeOK, QueueExact, UNCHANGED queue, NEW c, WaitsNowhere(c), StillBut(c, c)
  PROVE  QueueExact'
<1>1. ASSUME NEW m \in Sem, NEW i \in 1..Len(queue[m])
      PROVE  WillWait(queue[m][i], m)
  <2>1. queue[m][i] \in Callers
    BY DEF TypeOK
  <2>2. Waits(queue[m][i], m)
    BY DEF QueueExact
  <2>3. queue[m][i] # c
    BY <2>2, NotWaiting
  <2> QED
    BY <2>1, <2>2, <2>3 DEF StillBut, Waits, WillWait
<1> QED
  BY <1>1 DEF QueueExact, Sem, Waits, WillWait

\* c joins the queue of n.
LEMMA LongerQueue ==
  ASSUME TypeOK, QueueExact, NEW n \in Sem, NEW c \in Callers, WaitsNowhere(c),
         queue' = [queue EXCEPT ![n] = Append(@, c)], WillWait(c, n), StillBut(c, c)
  PROVE  QueueExact' /\ queue' \in [Sem -> Seq(Callers)]
<1> DEFINE q == queue[n]
           p == queue'[n]
<1>1. q \in Seq(Callers) /\ p = Append(q, c) /\ \A m \in Sem \ {n} : queue'[m] = queue[m]
  BY DEF TypeOK
<1>2. /\ p \in Seq(Callers) /\ Len(p) = Len(q) + 1 /\ Len(q) \in Nat
      /\ \A i \in 1..Len(q) : p[i] = q[i]
      /\ p[Len(q) + 1] = c
  BY <1>1, Appended
<1>3. ASSUME NEW m \in Sem, NEW i \in 1..Len(queue[m])
      PROVE  WillWait(queue[m][i], m) /\ queue[m][i] # c
  <2>1. queue[m][i] \in Callers
    BY DEF TypeOK
  <2>2. Waits(queue[m][i], m)
    BY DEF QueueExact
  <2>3. queue[m][i] # c
    BY <2>2, NotWaiting
  <2> QED
    BY <2>1, <2>2, <2>3 DEF StillBut, Waits, WillWait
<1>4. \A i \in 1..Len(p) : i \in 1..Len(q) \/ i = Len(q) + 1
  BY <1>2
<1>5. \A i \in 1..Len(p) : WillWait(p[i], n)
  BY <1>2, <1>3, <1>4
<1>6. \A i, j \in 1..Len(p) : p[i] = p[j] => i = j
  <2>1. \A i, j \in 1..Len(q) : q[i] = q[j] => i = j
    BY DEF QueueExact
  <2> QED
    BY <2>1, <1>2, <1>3, <1>4
<1>7. \A m \in Sem \ {n} :
        /\ \A i \in 1..Len(queue'[m]) : WillWait(queue'[m][i], m)
        /\ \A i, j \in 1..Len(queue'[m]) : queue'[m][i] = queue'[m][j] => i = j
  BY <1>1, <1>3 DEF QueueExact
<1>8. QueueExact'
  <2>1. \A m \in Sem :
          /\ \A i \in 1..Len(queue'[m]) : WillWait(queue'[m][i], m)
          /\ \A i, j \in 1..Len(queue'[m]) : queue'[m][i] = queue'[m][j] => i = j
    BY <1>5, <1>6, <1>7
  <2> QED
    BY <2>1 DEF QueueExact, Sem, Waits, WillWait
<1>9. queue' \in [Sem -> Seq(Callers)]
  BY <1>2 DEF TypeOK
<1> QED
  BY <1>8, <1>9

\* h leaves the queue of n, what remains is p; c, who may be h, does not wait
\* for another semaphore.
LEMMA ShorterQueue ==
  ASSUME TypeOK, QueueExact, NEW n \in Sem, NEW p \in Seq(Callers), NEW h, NEW c,
         queue' = [queue EXCEPT ![n] = p],
         Waits(h, n), c = h \/ WaitsNowhere(c), StillBut(c, h),
         \A i \in 1..Len(p) : p[i] # h /\ \E j \in 1..Len(queue[n]) : p[i] = queue[n][j],
         \A i, j \in 1..Len(p) : p[i] = p[j] => i = j
  PROVE  QueueExact' /\ queue' \in [Sem -> Seq(Callers)]
<1>1. queue'[n] = p /\ \A m \in Sem \ {n} : queue'[m] = queue[m]
  BY DEF TypeOK
<1>2. ASSUME NEW m \in Sem, NEW i \in 1..Len(queue[m]), queue[m][i] # h
      PROVE  WillWait(queue[m][i], m)
  <2>1. queue[m][i] \in Callers
    BY DEF TypeOK
  <2>2. Waits(queue[m][i], m)
    BY DEF QueueExact
  <2>3. queue[m][i] # c
    BY <1>2, <2>2, NotWaiting
  <2> QED
    BY <1>2, <2>1, <2>2, <2>3 DEF StillBut, Waits, WillWait
<1>3. \A i \in 1..Len(p) : WillWait(p[i], n)
  BY <1>2
<1>4. ASSUME NEW m \in Sem \ {n}, NEW i \in 1..Len(queue[m])
      PROVE  WillWait(queue[m][i], m)
  <2>1. Waits(queue[m][i], m)
    BY DEF QueueExact
  <2>2. queue[m][i] # h
    BY <2>1, WaitsForOne
  <2> QED
    BY <1>2, <2>2
<1>5. \A m \in Sem \ {n} : \A i, j \in 1..Len(queue[m]) : queue[m][i] = queue[m][j] => i = j
  BY DEF QueueExact
<1>6. QueueExact'
  <2>1. /\ \A i \in 1..Len(queue'[n]) : WillWait(queue'[n][i], n)
        /\ \A i, j \in 1..Len(queue'[n]) : queue'[n][i] = queue'[n][j] => i = j
    <3>1. queue'[n] = p
      BY <1>1
    <3>2. \A i, j \in 1..Len(p) : p[i] = p[j] => i = j
      OBVIOUS
    <3> QED
      BY ONLY <3>1, <3>2, <1>3
  <2>2. ASSUME NEW m \in Sem \ {n}
        PROVE  /\ \A i \in 1..Len(queue'[m]) : WillWait(queue'[m][i], m)
               /\ \A i, j \in 1..Len(queue'[m]) : queue'[m][i] = queue'[m][j] => i = j
    <3>1. queue'[m] = queue[m]
      BY <1>1
    <3>2. \A i \in 1..Len(queue[m]) : WillWait(queue[m][i], m)
      BY <1>4
    <3>3. \A i, j \in 1..Len(queue[m]) : queue[m][i] = queue[m][j] => i = j
      BY <1>5
    <3> QED
      BY ONLY <3>1, <3>2, <3>3
  <2>3. \A m \in Sem :
          /\ \A i \in 1..Len(queue'[m]) : WillWait(queue'[m][i], m)
          /\ \A i, j \in 1..Len(queue'[m]) : queue'[m][i] = queue'[m][j] => i = j
    BY <2>1, <2>2
  <2> QED
    BY <2>3 DEF QueueExact, Sem, Waits, WillWait
<1>7. queue' \in [Sem -> Seq(Callers)]
  BY DEF TypeOK
<1> QED
  BY <1>6, <1>7

\* The elements behind the first are others than it.
LEMMA DistinctBehind ==
  ASSUME NEW S, NEW q \in Seq(S), q # <<>>,
         \A i, j \in 1..Len(q) : q[i] = q[j] => i = j
  PROVE  /\ \A i \in 1..Len(Tail(q)) :
              Tail(q)[i] # Head(q) /\ \E j \in 1..Len(q) : Tail(q)[i] = q[j]
         /\ \A i, j \in 1..Len(Tail(q)) : Tail(q)[i] = Tail(q)[j] => i = j
<1> DEFINE p == Tail(q)
<1>1. /\ Head(q) = q[1] /\ Len(q) \in Nat \ {0} /\ Len(p) = Len(q) - 1
      /\ \A i \in 1..Len(p) : p[i] = q[i + 1]
  BY Behead
<1>2. \A i \in 1..Len(p) : i + 1 \in 1..Len(q) /\ i + 1 # 1
  BY <1>1
<1>3. 1 \in 1..Len(q)
  BY <1>1
<1>4. \A i \in 1..Len(p) : p[i] # Head(q) /\ \E j \in 1..Len(q) : p[i] = q[j]
  BY <1>1, <1>2, <1>3
<1>5. ASSUME NEW i \in 1..Len(p), NEW j \in 1..Len(p), p[i] = p[j]
      PROVE  i = j
  <2>1. i + 1 = j + 1
    BY <1>1, <1>2, <1>5
  <2> QED
    BY <1>1, <2>1
<1> QED
  BY <1>4, <1>5

-----------------------------------------------------------------------------
(* The ways to touch a semaphore *)

LEMMA SizePositive ==
  ASSUME NEW m
  PROVE  Size(m) \in Nat \ {0}
BY LimiterAssumption DEF LimiterAssumption, Size

SameHolders == \A m \in Sem : Holders(m)' = Holders(m)

TypesOfCallers == pc' \in [Callers -> State] /\ src' \in [Callers -> Sources]

\* c takes a permit of n.
LEMMA TakeStep ==
  ASSUME LimiterInv, TypesOfCallers, NEW n \in Sem, NEW c \in Callers,
         Room(n), Take(n), WaitsNowhere(c), StillBut(c, c),
         c \notin Holders(n), Holders(n)' = Holders(n) \cup {c},
         \A m \in Sem \ {n} : Holders(m)' = Holders(m)
  PROVE  LimiterInv'
<1>1. cur' = [cur EXCEPT ![n] = @ + 1] /\ UNCHANGED queue
  BY DEF Take
<1>2. PermitsExact'
  BY <1>1, TakeIsExact DEF LimiterInv
<1>3. QueueExact'
  BY <1>1, SameQueue DEF LimiterInv
<1>4. TypeOK'
  BY <1>1 DEF LimiterInv, TypeOK, TypesOfCallers
<1>5. cur[n] < Size(n) /\ queue[n] = <<>> /\ cur[n] \in Nat /\ Size(n) \in Nat
  BY SizePositive DEF Room, LimiterInv, TypeOK
<1>6. \A m \in Sem : cur'[m] = IF m = n THEN cur[n] + 1 ELSE cur[m]
  BY <1>1 DEF LimiterInv, TypeOK
<1>7. Filled'
  BY <1>1, <1>5, <1>6 DEF LimiterInv, Filled, Sem, Size
<1> QED
  BY <1>2, <1>3, <1>4, <1>7 DEF LimiterInv

\* c moves on without touching a semaphore.
LEMMA KeepStep ==
  ASSUME LimiterInv, TypesOfCallers, NEW c \in Callers,
         UNCHANGED <<cur, queue>>, WaitsNowhere(c), StillBut(c, c), SameHolders
  PROVE  LimiterInv'
<1>1. PermitsExact'
  BY SameIsExact DEF LimiterInv, SameHolders
<1>2. QueueExact'
  BY SameQueue DEF LimiterInv
<1>3. TypeOK' /\ Filled'
  BY DEF LimiterInv, TypeOK, TypesOfCallers, Filled, Sem, Size
<1> QED
  BY <1>1, <1>2, <1>3 DEF LimiterInv

\* c finds no room and joins the queue of n.
LEMMA JoinStep ==
  ASSUME LimiterInv, TypesOfCallers, NEW n \in Sem, NEW c \in Callers,
         ~Room(n), Enqueue(n, c), WaitsNowhere(c), WillWait(c, n), StillBut(c, c), SameHolders
  PROVE  LimiterInv'
<1>1. queue' = [queue EXCEPT ![n] = Append(@, c)] /\ UNCHANGED cur
  BY DEF Enqueue
<1>2. PermitsExact'
  BY <1>1, SameIsExact DEF LimiterInv, SameHolders
<1>3. QueueExact' /\ queue' \in [Sem -> Seq(Callers)]
  BY <1>1, LongerQueue DEF LimiterInv
<1>4. TypeOK'
  BY <1>1, <1>3 DEF LimiterInv, TypeOK, TypesOfCallers
<1>5. cur[n] <= Size(n) /\ cur[n] \in Nat /\ Size(n) \in Nat /\ (queue[n] # <<>> => cur[n] = Size(n))
  BY SizePositive DEF LimiterInv, TypeOK, Filled
<1>6. cur[n] = Size(n)
  BY <1>5 DEF Room
<1>7. \A m \in Sem \ {n} : queue'[m] = queue[m]
  BY <1>1 DEF LimiterInv, TypeOK
<1>8. Filled'
  BY <1>1, <1>6, <1>7, <1>5 DEF LimiterInv, Filled, Sem, Size
<1> QED
  BY <1>2, <1>3, <1>4, <1>8 DEF LimiterInv

\* c gives up waiting for n.
LEMMA LeaveStep ==
  ASSUME LimiterInv, TypesOfCallers, NEW n \in Sem, NEW c \in Callers, NEW next,
         Leave(n, c, next), StillBut(c, c), SameHolders
  PROVE  LimiterInv'
<1>1. PICK i \in 1..Len(queue[n]) : queue[n][i] = c /\ queue' = [queue EXCEPT ![n] = RemoveAt(@, i)]
  BY DEF Leave
<1>2. UNCHANGED cur
  BY DEF Leave
<1> DEFINE q == queue[n]
           p == RemoveAt(queue[n], i)
<1>3. q \in Seq(Callers) /\ \A j, k \in 1..Len(q) : q[j] = q[k] => j = k
  BY DEF LimiterInv, TypeOK, QueueExact
<1>4. p \in Seq(Callers) /\ q # <<>>
  BY <1>1, <1>3, Without
<1>5. /\ \A k \in 1..Len(p) : \E j \in 1..Len(q) : j # i /\ p[k] = q[j]
      /\ \A j, k \in 1..Len(p) : p[j] = p[k] => j = k
  BY <1>1, <1>3, DistinctWithout
<1>6. \A k \in 1..Len(p) : p[k] # c /\ \E j \in 1..Len(q) : p[k] = q[j]
  BY <1>1, <1>3, <1>5
<1>7. Waits(c, n)
  BY <1>1 DEF LimiterInv, QueueExact
<1>8. queue' = [queue EXCEPT ![n] = p]
  BY <1>1
<1> HIDE DEF p
<1>9. QueueExact' /\ queue' \in [Sem -> Seq(Callers)]
  BY <1>4, <1>5, <1>6, <1>7, <1>8, ShorterQueue DEF LimiterInv
<1>10. PermitsExact'
  BY <1>2, SameIsExact DEF LimiterInv, SameHolders
<1>11. TypeOK'
  BY <1>2, <1>9 DEF LimiterInv, TypeOK, TypesOfCallers
<1>12. \A m \in Sem \ {n} : queue'[m] = queue[m]
  BY <1>8 DEF LimiterInv, TypeOK
<1>13. Filled'
  BY <1>2, <1>4, <1>12 DEF LimiterInv, Filled, Sem, Size
<1> QED
  BY <1>9, <1>10, <1>11, <1>13 DEF LimiterInv

\* c returns a permit of n that nobody waits for.
LEMMA ReturnStep ==
  ASSUME LimiterInv, TypesOfCallers, NEW n \in Sem, NEW c \in Callers,
         queue[n] = <<>>, cur' = [cur EXCEPT ![n] = @ - 1], UNCHANGED queue,
         WaitsNowhere(c), StillBut(c, c),
         c \in Holders(n), Holders(n)' = Holders(n) \ {c},
         \A m \in Sem \ {n} : Holders(m)' = Holders(m)
  PROVE  LimiterInv'
<1>1. PermitsExact' /\ cur' \in [Sem -> Nat]
  BY ReturnIsExact DEF LimiterInv
<1>2. QueueExact'
  BY SameQueue DEF LimiterInv
<1>3. TypeOK'
  BY <1>1 DEF LimiterInv, TypeOK, TypesOfCallers
<1>4. cur[n] <= Size(n) /\ cur[n] \in Nat /\ Size(n) \in Nat
  BY SizePositive DEF LimiterInv, TypeOK, Filled
<1>5. \A m \in Sem : cur'[m] = IF m = n THEN cur[n] - 1 ELSE cur[m]
  BY DEF LimiterInv, TypeOK
<1>6. Filled'
  BY <1>4, <1>5 DEF LimiterInv, Filled, Sem, Size
<1> QED
  BY <1>1, <1>2, <1>3, <1>6 DEF LimiterInv

\* c passes its permit of n to h, the first in line.
LEMMA PassStep ==
  ASSUME LimiterInv, TypesOfCallers, NEW n \in Sem, NEW c \in Callers, NEW h,
         queue[n] # <<>>, h = Head(queue[n]),
         queue' = [queue EXCEPT ![n] = Tail(@)], UNCHANGED cur,
         WaitsNowhere(c), StillBut(c, h),
         c \in Holders(n), h \notin Holders(n), Holders(n)' = (Holders(n) \ {c}) \cup {h},
         \A m \in Sem \ {n} : Holders(m)' = Holders(m)
  PROVE  LimiterInv'
<1> DEFINE q == queue[n]
           p == Tail(queue[n])
<1>1. PermitsExact'
  BY ReturnIsExact DEF LimiterInv
<1>2. q \in Seq(Callers) /\ \A j, k \in 1..Len(q) : q[j] = q[k] => j = k
  BY DEF LimiterInv, TypeOK, QueueExact
<1>3. /\ p \in Seq(Callers)
      /\ \A k \in 1..Len(p) : p[k] # h /\ \E j \in 1..Len(q) : p[k] = q[j]
      /\ \A j, k \in 1..Len(p) : p[j] = p[k] => j = k
  BY <1>2, Behead, DistinctBehind
<1>4. Waits(h, n)
  <2>1. Head(q) = q[1] /\ 1 \in 1..Len(q)
    BY <1>2, Behead
  <2> QED
    BY <2>1 DEF LimiterInv, QueueExact
<1>5. queue' = [queue EXCEPT ![n] = p]
  OBVIOUS
<1> HIDE DEF p
<1>6. QueueExact' /\ queue' \in [Sem -> Seq(Callers)]
  BY <1>3, <1>4, <1>5, ShorterQueue DEF LimiterInv
<1>7. TypeOK'
  BY <1>6 DEF LimiterInv, TypeOK, TypesOfCallers
<1>8. \A m \in Sem \ {n} : queue'[m] = queue[m]
  BY <1>5 DEF LimiterInv, TypeOK
<1>9. Filled'
  BY <1>8 DEF LimiterInv, Filled, Sem, Size
<1> QED
  BY <1>1, <1>6, <1>7, <1>9 DEF LimiterInv

-----------------------------------------------------------------------------
(* The actions *)

\* What moving one caller, or two, does to the callers' types.
LEMMA Moves ==
  ASSUME TypeOK, NEW c \in Callers, NEW a \in State, NEW s \in Sources
  PROVE  /\ pc' = [pc EXCEPT ![c] = a] /\ UNCHANGED src =>
              TypesOfCallers /\ StillBut(c, c)
         /\ pc' = [pc EXCEPT ![c] = a] /\ src' = [src EXCEPT ![c] = s] =>
              TypesOfCallers /\ StillBut(c, c)
BY DEF TypeOK, TypesOfCallers, StillBut

LEMMA TrySourceStep ==
  ASSUME LimiterInv, NEW c \in Callers, NEW s \in Sources, TrySource(c, s)
  PROVE  LimiterInv'
<1>1. TypeOK /\ s \in Sem /\ s # global
  BY LimiterAssumption DEF LimiterInv, LimiterAssumption, Sem
<1>2. TypesOfCallers /\ StillBut(c, c) /\ WaitsNowhere(c)
  BY <1>1, Moves DEF TrySource, State, WaitsNowhere
<1>3. /\ c \notin Holders(s)
      /\ Holders(s)' = Holders(s) \cup {c}
      /\ \A m \in Sem \ {s} : Holders(m)' = Holders(m)
  BY <1>1 DEF TrySource, Holders, HoldsSource, TypeOK
<1> QED
  BY <1>1, <1>2, <1>3, TakeStep DEF TrySource

LEMMA TryGlobalStep ==
  ASSUME LimiterInv, NEW c \in Callers, TryGlobal(c)
  PROVE  LimiterInv'
<1>1. TypeOK /\ global \in Sem /\ global \notin Sources
  BY LimiterAssumption DEF LimiterInv, LimiterAssumption, Sem
<1>2. TypesOfCallers /\ StillBut(c, c) /\ WaitsNowhere(c)
  BY <1>1, Moves DEF TryGlobal, State, WaitsNowhere, TypeOK
<1>3. CASE Room(global)
  <2>1. /\ c \notin Holders(global)
        /\ Holders(global)' = Holders(global) \cup {c}
        /\ \A m \in Sem \ {global} : Holders(m)' = Holders(m)
    BY <1>1, <1>3 DEF TryGlobal, Holders, HoldsSource, TypeOK
  <2> QED
    BY <1>1, <1>2, <1>3, <2>1, TakeStep DEF TryGlobal
<1>4. CASE ~Room(global)
  <2>1. SameHolders
    BY <1>1, <1>4 DEF TryGlobal, SameHolders, Holders, HoldsSource, TypeOK
  <2> QED
    BY <1>2, <1>4, <2>1, KeepStep DEF TryGlobal
<1> QED
  BY <1>3, <1>4

LEMMA AcquireSourceStep ==
  ASSUME LimiterInv, NEW c \in Callers, NEW s \in Sources, AcquireSource(c, s)
  PROVE  LimiterInv'
<1>1. TypeOK /\ s \in Sem /\ s # global
  BY LimiterAssumption DEF LimiterInv, LimiterAssumption, Sem
<1>2. TypesOfCallers /\ StillBut(c, c) /\ WaitsNowhere(c)
  BY <1>1, Moves DEF AcquireSource, State, WaitsNowhere
<1>3. CASE Room(s)
  <2>1. /\ c \notin Holders(s)
        /\ Holders(s)' = Holders(s) \cup {c}
        /\ \A m \in Sem \ {s} : Holders(m)' = Holders(m)
    BY <1>1, <1>3 DEF AcquireSource, Holders, HoldsSource, TypeOK
  <2> QED
    BY <1>1, <1>2, <1>3, <2>1, TakeStep DEF AcquireSource
<1>4. CASE ~Room(s)
  <2>1. SameHolders
    BY <1>1, <1>4 DEF AcquireSource, SameHolders, Holders, HoldsSource, TypeOK
  <2>2. WillWait(c, s)
    BY <1>1, <1>4 DEF AcquireSource, WillWait, TypeOK
  <2> QED
    BY <1>1, <1>2, <1>4, <2>1, <2>2, JoinStep DEF AcquireSource
<1> QED
  BY <1>3, <1>4

LEMMA AcquireGlobalStep ==
  ASSUME LimiterInv, NEW c \in Callers, AcquireGlobal(c)
  PROVE  LimiterInv'
<1>1. TypeOK /\ global \in Sem /\ global \notin Sources
  BY LimiterAssumption DEF LimiterInv, LimiterAssumption, Sem
<1>2. TypesOfCallers /\ StillBut(c, c) /\ WaitsNowhere(c)
  BY <1>1, Moves DEF AcquireGlobal, State, WaitsNowhere, TypeOK
<1>3. CASE Room(global)
  <2>1. /\ c \notin Holders(global)
        /\ Holders(global)' = Holders(global) \cup {c}
        /\ \A m \in Sem \ {global} : Holders(m)' = Holders(m)
    BY <1>1, <1>3 DEF AcquireGlobal, Holders, HoldsSource, TypeOK
  <2> QED
    BY <1>1, <1>2, <1>3, <2>1, TakeStep DEF AcquireGlobal
<1>4. CASE ~Room(global)
  <2>1. SameHolders
    BY <1>1, <1>4 DEF AcquireGlobal, SameHolders, Holders, HoldsSource, TypeOK
  <2>2. WillWait(c, global)
    BY <1>1, <1>4 DEF AcquireGlobal, WillWait, TypeOK
  <2> QED
    BY <1>1, <1>2, <1>4, <2>1, <2>2, JoinStep DEF AcquireGlobal
<1> QED
  BY <1>3, <1>4

LEMMA TimeoutStep ==
  ASSUME LimiterInv, NEW c \in Callers, Timeout(c)
  PROVE  LimiterInv'
<1>1. TypeOK /\ src[c] \in Sem /\ global \in Sem /\ global \notin Sources /\ src[c] \in Sources
  BY LimiterAssumption DEF LimiterInv, LimiterAssumption, Sem, TypeOK
<1>2. CASE SourceTimeout(c)
  <2>1. TypesOfCallers /\ StillBut(c, c)
    BY <1>1, <1>2, Moves DEF SourceTimeout, Leave, State
  <2>2. SameHolders
    BY <1>1, <1>2 DEF SourceTimeout, Leave, SameHolders, Holders, HoldsSource, TypeOK
  <2> QED
    BY <1>1, <1>2, <2>1, <2>2, LeaveStep DEF SourceTimeout
<1>3. CASE GlobalTimeout(c)
  <2>1. TypesOfCallers /\ StillBut(c, c)
    BY <1>1, <1>3, Moves DEF GlobalTimeout, Leave, State
  <2>2. SameHolders
    BY <1>1, <1>3 DEF GlobalTimeout, Leave, SameHolders, Holders, HoldsSource, TypeOK
  <2> QED
    BY <1>1, <1>3, <2>1, <2>2, LeaveStep DEF GlobalTimeout
<1>4. CASE Withdraw(c)
  <2>1. TypesOfCallers /\ StillBut(c, c) /\ WaitsNowhere(c)
    BY <1>1, <1>4, Moves DEF Withdraw, State, WaitsNowhere
  <2>2. SameHolders
    BY <1>1, <1>4 DEF Withdraw, SameHolders, Holders, HoldsSource, TypeOK
  <2> QED
    BY <1>4, <2>1, <2>2, KeepStep DEF Withdraw
<1> QED
  BY <1>2, <1>3, <1>4 DEF Timeout

\* The first in line waits, so it is neither the one that returns the permit
\* nor a holder.
LEMMA FirstInLine ==
  ASSUME LimiterInv, NEW n \in Sem, queue[n] # <<>>
  PROVE  Head(queue[n]) \in Callers /\ Waits(Head(queue[n]), n)
<1>1. queue[n] \in Seq(Callers)
  BY DEF LimiterInv, TypeOK
<1>2. Head(queue[n]) = queue[n][1] /\ Head(queue[n]) \in Callers /\ 1 \in 1..Len(queue[n])
  BY <1>1, Behead
<1> QED
  BY <1>2 DEF LimiterInv, QueueExact

LEMMA ReleaseGlobalStep ==
  ASSUME LimiterInv, NEW c \in Callers, ReleaseGlobal(c)
  PROVE  LimiterInv'
<1>1. TypeOK /\ global \in Sem /\ global \notin Sources /\ WaitsNowhere(c)
  BY LimiterAssumption DEF LimiterInv, LimiterAssumption, Sem, ReleaseGlobal, WaitsNowhere
<1>2. CASE queue[global] = <<>>
  <2>1. /\ cur' = [cur EXCEPT ![global] = @ - 1] /\ UNCHANGED queue
        /\ TypesOfCallers /\ StillBut(c, c)
    BY <1>1, <1>2, Moves DEF ReleaseGlobal, Release, State, TypeOK
  <2>2. /\ c \in Holders(global)
        /\ Holders(global)' = Holders(global) \ {c}
        /\ \A m \in Sem \ {global} : Holders(m)' = Holders(m)
    BY <1>1, <1>2 DEF ReleaseGlobal, Release, Holders, HoldsSource, TypeOK
  <2> QED
    BY <1>1, <1>2, <2>1, <2>2, ReturnStep
<1>3. CASE queue[global] # <<>>
  <2> DEFINE h == Head(queue[global])
  <2>1. h \in Callers /\ pc[h] = "globalQ"
    BY <1>1, <1>3, FirstInLine DEF Waits
  <2>2. /\ queue' = [queue EXCEPT ![global] = Tail(@)] /\ UNCHANGED <<src, cur>>
        /\ pc' = [pc EXCEPT ![c] = "undo", ![h] = "held"]
    BY <1>3 DEF ReleaseGlobal, Release
  <2> HIDE DEF h
  <2>3. TypesOfCallers /\ StillBut(c, h)
    BY <1>1, <2>1, <2>2 DEF TypesOfCallers, StillBut, State, TypeOK
  <2>4. /\ c \in Holders(global) /\ h \notin Holders(global)
        /\ Holders(global)' = (Holders(global) \ {c}) \cup {h}
        /\ \A m \in Sem \ {global} : Holders(m)' = Holders(m)
    BY <1>1, <2>1, <2>2 DEF ReleaseGlobal, Holders, HoldsSource, TypeOK
  <2> QED
    BY <1>1, <1>3, <2>2, <2>3, <2>4, PassStep DEF h
<1> QED
  BY <1>2, <1>3

LEMMA ReleaseSourceStep ==
  ASSUME LimiterInv, NEW c \in Callers, ReleaseSource(c)
  PROVE  LimiterInv'
<1>0. PICK n \in Sources : n = src[c]
  BY DEF LimiterInv, TypeOK
<1>1. TypeOK /\ n \in Sem /\ n # global /\ WaitsNowhere(c)
  BY LimiterAssumption DEF LimiterInv, LimiterAssumption, Sem, ReleaseSource, WaitsNowhere
<1>2. CASE queue[n] = <<>>
  <2>1. /\ cur' = [cur EXCEPT ![n] = @ - 1] /\ UNCHANGED queue
        /\ TypesOfCallers /\ StillBut(c, c)
    BY <1>0, <1>1, <1>2, Moves DEF ReleaseSource, Release, State, TypeOK
  <2>2. /\ c \in Holders(n)
        /\ Holders(n)' = Holders(n) \ {c}
        /\ \A m \in Sem \ {n} : Holders(m)' = Holders(m)
    BY <1>0, <1>1, <1>2 DEF ReleaseSource, Release, Holders, HoldsSource, TypeOK
  <2> QED
    BY <1>0, <1>1, <1>2, <2>1, <2>2, ReturnStep
<1>3. CASE queue[n] # <<>>
  <2> DEFINE h == Head(queue[n])
  <2>1. h \in Callers /\ pc[h] = "srcQ" /\ src[h] = n
    BY <1>0, <1>1, <1>3, FirstInLine DEF Waits
  <2>2. /\ queue' = [queue EXCEPT ![n] = Tail(@)] /\ UNCHANGED <<src, cur>>
        /\ pc' = [pc EXCEPT ![c] = "idle", ![h] = "ask"]
    BY <1>0, <1>3 DEF ReleaseSource, Release
  <2> HIDE DEF h
  <2>3. TypesOfCallers /\ StillBut(c, h)
    BY <1>0, <1>1, <2>1, <2>2 DEF TypesOfCallers, StillBut, State, TypeOK
  <2>4. /\ c \in Holders(n) /\ h \notin Holders(n)
        /\ Holders(n)' = (Holders(n) \ {c}) \cup {h}
        /\ \A m \in Sem \ {n} : Holders(m)' = Holders(m)
    BY <1>0, <1>1, <2>1, <2>2 DEF ReleaseSource, Holders, HoldsSource, TypeOK
  <2> QED
    BY <1>0, <1>1, <1>3, <2>2, <2>3, <2>4, PassStep DEF h
<1> QED
  BY <1>2, <1>3

-----------------------------------------------------------------------------
(* The theorems *)

LEMMA InitInv == Init => LimiterInv
<1> SUFFICES ASSUME Init PROVE LimiterInv
  OBVIOUS
<1>1. TypeOK
  BY DEF Init, TypeOK, State
<1>2. \A m \in Sem : Holders(m) = {}
  BY DEF Init, Holders, HoldsSource
<1>3. PermitsExact
  BY <1>2, FS_EmptySet DEF Init, PermitsExact
<1>4. QueueExact
  BY DEF Init, QueueExact
<1>5. Filled
  BY SizePositive DEF Init, Filled
<1> QED
  BY <1>1, <1>3, <1>4, <1>5 DEF LimiterInv

LEMMA NextInv == LimiterInv /\ [Next]_vars => LimiterInv'
<1> SUFFICES ASSUME LimiterInv, [Next]_vars PROVE LimiterInv'
  OBVIOUS
<1>1. ASSUME NEW c \in Callers, NEW s \in Sources, TrySource(c, s) \/ AcquireSource(c, s)
      PROVE  LimiterInv'
  BY <1>1, TrySourceStep, AcquireSourceStep
<1>2. ASSUME NEW c \in Callers, Call(c)
      PROVE  LimiterInv'
  BY <1>2, TryGlobalStep, AcquireGlobalStep, ReleaseGlobalStep, ReleaseSourceStep DEF Call
<1>3. ASSUME NEW c \in Callers, Timeout(c)
      PROVE  LimiterInv'
  BY <1>3, TimeoutStep
<1>4. CASE UNCHANGED vars
  <2>1. UNCHANGED <<pc, src, cur, queue>>
    BY <1>4 DEF vars
  <2>2. TypeOK' /\ Filled'
    BY <2>1 DEF LimiterInv, TypeOK, Filled, Sem, Size
  <2>3. \A m \in Sem : Holders(m)' = Holders(m)
    BY <2>1 DEF Holders
  <2>4. PermitsExact'
    BY <2>1, <2>3, SameIsExact DEF LimiterInv
  <2>5. QueueExact'
    BY <2>1 DEF LimiterInv, QueueExact, Waits, Sem
  <2> QED
    BY <2>2, <2>4, <2>5 DEF LimiterInv
<1> QED
  BY <1>1, <1>2, <1>3, <1>4 DEF Next

LEMMA AlwaysInv == Spec => []LimiterInv
BY InitInv, NextInv, PTL DEF Spec

\* Types, for any number of callers and sources (the counts of permits never
\* go below zero, where Release would panic).
THEOREM TypeCorrect == Spec => []TypeOK
<1>1. LimiterInv => TypeOK
  BY DEF LimiterInv
<1> QED
  BY <1>1, AlwaysInv, PTL

\* No permit leaks and none is returned twice (limiter.go:87-98, 109-121).
THEOREM NoPermitLeaks == Spec => []PermitsExact
<1>1. LimiterInv => PermitsExact
  BY DEF LimiterInv
<1> QED
  BY <1>1, AlwaysInv, PTL

\* Never more provider calls than either limit allows
\* (TestLimiterBoundedConcurrentFetches).
THEOREM LimitsHold == Spec => []WithinLimits
<1>1. ASSUME LimiterInv
      PROVE  WithinLimits
  <2>1. \A m \in Sem : Cardinality(Holders(m)) <= Size(m)
    BY <1>1 DEF LimiterInv, PermitsExact, Filled
  <2>2. Cardinality(Holders(global)) <= Global /\ Holders(global) = {c \in Callers : pc[c] = "held"}
    BY <2>1 DEF Sem, Size, Holders
  <2>3. ASSUME NEW s \in Sources
        PROVE  Cardinality({c \in Callers : pc[c] = "held" /\ src[c] = s}) <= PerSource
    <3> DEFINE H == {c \in Callers : pc[c] = "held" /\ src[c] = s}
    <3>1. s # global /\ s \in Sem /\ PerSource \in Nat
      BY LimiterAssumption DEF LimiterAssumption, Sem
    <3>2. H \subseteq Holders(s)
      BY <3>1 DEF Holders, HoldsSource
    <3>3. Cardinality(Holders(s)) <= PerSource
      BY <2>1, <3>1 DEF Size
    <3> HIDE DEF H
    <3>4. IsFiniteSet(Holders(s)) /\ Cardinality(Holders(s)) \in Nat
      BY HoldersFinite, FS_CardinalityType
    <3>5. IsFiniteSet(H) /\ Cardinality(H) <= Cardinality(Holders(s))
      BY <3>2, <3>4, FS_Subset
    <3>6. Cardinality(H) \in Nat
      BY <3>5, FS_CardinalityType
    <3>7. Cardinality(H) <= PerSource
      BY <3>1, <3>3, <3>4, <3>5, <3>6
    <3> QED
      BY <3>7 DEF H
  <2> QED
    BY <2>2, <2>3 DEF WithinLimits
<1>2. LimiterInv => WithinLimits
  BY <1>1
<1> QED
  BY <1>2, AlwaysInv, PTL

\* Nobody waits while a permit is free, and only those who wait are in line.
THEOREM NobodyWaitsIdly == Spec => []NoIdlePermit
<1>1. LimiterInv => NoIdlePermit
  BY DEF LimiterInv, QueueExact, Filled, NoIdlePermit, Waits
<1> QED
  BY <1>1, AlwaysInv, PTL
=============================================================================
