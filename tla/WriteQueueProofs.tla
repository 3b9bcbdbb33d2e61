-------------------------- MODULE WriteQueueProofs --------------------------
(***************************************************************************)
(* Proofs about WriteQueue, for every number of jobs and workers and every *)
(* capacity.                                                               *)
(*                                                                         *)
(* QueueInv is the inductive invariant.  Besides the properties it says    *)
(* why a worker that has left cannot leave a job behind: it left an empty  *)
(* channel that was closed, and nobody sends on a closed channel.          *)
(***************************************************************************)
EXTENDS WriteQueue, TLAPS

WorkersLeaveEmpty ==
  \A w \in Workers : running[w] = "gone" => Closed /\ queue = <<>>

DoneMeansGone == closing = "done" => \A w \in Workers : running[w] = "gone"

ClosesOnce == store = "open" => closing = "no"

QueueInv ==
  /\ TypeOK
  /\ JobsAccounted
  /\ NoSendOnClosed
  /\ WorkersLeaveEmpty
  /\ DoneMeansGone
  /\ ClosesOnce

-----------------------------------------------------------------------------
\* What taking the first job leaves behind.
LEMMA TailElements ==
  ASSUME NEW S, NEW q \in Seq(S), q # <<>>
  PROVE  /\ Head(q) = q[1]
         /\ Head(q) \in S
         /\ Tail(q) \in Seq(S)
         /\ Len(q) \in Nat \ {0}
         /\ Len(Tail(q)) = Len(q) - 1
         /\ \A i \in 1..Len(Tail(q)) : Tail(q)[i] = q[i + 1]
OBVIOUS

\* Sending to a channel with room keeps it within its capacity.
LEMMA AppendFits ==
  ASSUME NEW S, NEW q \in Seq(S), NEW x \in S, NEW n \in Nat, Len(q) < n
  PROVE  /\ Append(q, x) \in Seq(S)
         /\ Len(Append(q, x)) <= n
OBVIOUS

\* So does taking from it.
LEMMA TailFits ==
  ASSUME NEW S, NEW q \in Seq(S), NEW n \in Nat, Len(q) <= n, q # <<>>
  PROVE  /\ Head(q) \in S
         /\ Tail(q) \in Seq(S)
         /\ Len(Tail(q)) <= n
OBVIOUS

LEMMA TypeStep ==
  ASSUME TypeOK, [Next]_vars
  PROVE  TypeOK'
<1>0. queue \in Seq(Jobs) /\ Len(queue) <= Capacity /\ Capacity \in Nat
  BY WriteQueueAssumption DEF TypeOK, WriteQueueAssumption
<1> USE DEF TypeOK, Phase
<1>1. ASSUME NEW j \in Jobs, Enter(j) \/ Retry(j)
      PROVE  TypeOK'
  BY <1>1 DEF Enter, Retry
<1>2. ASSUME NEW j \in Jobs, Push(j)
      PROVE  TypeOK'
  <2>1. CASE Len(queue) < Capacity
    <3>1. queue' = Append(queue, j)
      BY <1>2, <2>1 DEF Push
    <3>2. queue' \in Seq(Jobs) /\ Len(queue') <= Capacity
      BY ONLY <1>0, <2>1, <3>1, j \in Jobs, AppendFits
    <3>3. QED
      BY <1>2, <2>1, <3>2 DEF Push
  <2>2. CASE ~(Len(queue) < Capacity)
    BY <1>2, <2>2 DEF Push
  <2>3. QED
    BY <2>1, <2>2
<1>3. ASSUME NEW j \in Jobs, Shed(j)
      PROVE  TypeOK'
  <2>1. CASE queue # <<>>
    <3>0. queue' = Tail(queue)
      BY <1>3, <2>1 DEF Shed
    <3>1. queue' \in Seq(Jobs) /\ Len(queue') <= Capacity
      BY ONLY <1>0, <2>1, <3>0, TailFits
    <3>2. phase' \in [Jobs -> Phase]
      BY <1>3, <2>1 DEF Shed
    <3>3. QED
      BY <1>3, <3>1, <3>2 DEF Shed
  <2>2. CASE queue = <<>>
    <3>1. phase' \in [Jobs -> Phase]
      BY <1>3, <2>2 DEF Shed
    <3>2. QED
      BY <1>3, <2>2, <3>1 DEF Shed
  <2>3. QED
    BY <2>1, <2>2
<1>4. ASSUME NEW w \in Workers, Receive(w)
      PROVE  TypeOK'
  <2>1. queue # <<>> /\ queue' = Tail(queue)
    BY <1>4 DEF Receive
  <2>2. Head(queue) \in Jobs /\ queue' \in Seq(Jobs) /\ Len(queue') <= Capacity
    BY ONLY <1>0, <2>1, TailFits
  <2>3. phase' \in [Jobs -> Phase]
    BY <1>4 DEF Receive
  <2>4. running' \in [Workers -> Jobs \cup {"none", "gone"}]
    BY <1>4, <2>2 DEF Receive
  <2>5. QED
    BY <1>4, <2>2, <2>3, <2>4 DEF Receive
<1>5. ASSUME NEW w \in Workers, Finish(w) \/ Exit(w)
      PROVE  TypeOK'
  BY <1>5 DEF Finish, Exit
<1>6. CASE BeginClose \/ Close \/ CloseStore
  BY <1>6 DEF BeginClose, Close, CloseChannel, WorkersDone, CloseStore
<1>7. CASE UNCHANGED vars
  BY <1>7 DEF vars
<1>8. QED
  BY <1>1, <1>2, <1>3, <1>4, <1>5, <1>6, <1>7 DEF Next, Submit, Worker

\* Type correctness; the channel never holds more than its capacity
\* (writequeue.go:37-39).
THEOREM TypeCorrect == Spec => []TypeOK
<1>1. Init => TypeOK
  BY WriteQueueAssumption DEF Init, TypeOK, Phase, WriteQueueAssumption
<1>2. TypeOK /\ [Next]_vars => TypeOK'
  BY TypeStep
<1>3. QED
  BY <1>1, <1>2, PTL DEF Spec

-----------------------------------------------------------------------------
(* JobsAccounted is kept by every step *)

\* A step that moves no job into or out of the channel or a worker.
LEMMA PhaseOnly ==
  ASSUME JobsAccounted, queue' = queue, running' = running,
         \A j \in Jobs : /\ phase'[j] = "queued" <=> phase[j] = "queued"
                         /\ phase'[j] = "running" <=> phase[j] = "running"
  PROVE  JobsAccounted'
BY DEF JobsAccounted

LEMMA EnterAccounts ==
  ASSUME QueueInv, NEW j \in Jobs, Enter(j) \/ Retry(j)
  PROVE  JobsAccounted'
<1>1. \A d \in Jobs : /\ phase'[d] = "queued" <=> phase[d] = "queued"
                      /\ phase'[d] = "running" <=> phase[d] = "running"
  BY DEF QueueInv, TypeOK, Enter, Retry
<1>2. queue' = queue /\ running' = running
  BY DEF Enter, Retry
<1>3. QED
  BY <1>1, <1>2, PhaseOnly DEF QueueInv

LEMMA PushAccounts ==
  ASSUME QueueInv, NEW j \in Jobs, Push(j)
  PROVE  JobsAccounted'
<1> USE DEF QueueInv, TypeOK, JobsAccounted, Push
<1>1. CASE Len(queue) < Capacity
  <2>1. /\ Len(queue') = Len(queue) + 1
        /\ queue'[Len(queue) + 1] = j
        /\ \A i \in 1..Len(queue) : queue'[i] = queue[i]
    BY <1>1
  <2>2. \A i, k \in 1..Len(queue') : queue'[i] = queue'[k] => i = k
    BY <1>1, <2>1
  <2>3. \A d \in Jobs : phase'[d] = "queued" <=> \E i \in 1..Len(queue') : queue'[i] = d
    BY <1>1, <2>1
  <2>4. QED
    BY <1>1, <2>2, <2>3
<1>2. CASE ~(Len(queue) < Capacity)
  BY <1>2, PhaseOnly
<1>3. QED
  BY <1>1, <1>2

\* Taking the first job out of a channel without duplicates takes exactly
\* that job out.
LEMMA TakeFirst ==
  ASSUME NEW S, NEW q \in Seq(S), q # <<>>,
         \A i, k \in 1..Len(q) : q[i] = q[k] => i = k
  PROVE  LET t == Tail(q) IN
         /\ \A i, k \in 1..Len(t) : t[i] = t[k] => i = k
         /\ \A x \in S : (\E i \in 1..Len(t) : t[i] = x)
                           <=> x # Head(q) /\ \E i \in 1..Len(q) : q[i] = x
         /\ Head(q) \in S
         /\ \E i \in 1..Len(q) : q[i] = Head(q)
<1> DEFINE t == Tail(q)
<1>1. /\ Head(q) = q[1]
      /\ Head(q) \in S
      /\ Len(q) \in Nat \ {0}
      /\ Len(t) = Len(q) - 1
      /\ \A i \in 1..Len(t) : t[i] = q[i + 1]
  BY TailElements
<1> HIDE DEF t
<1>2. \A i, k \in 1..Len(t) : t[i] = t[k] => i = k
  BY <1>1
<1>3. ASSUME NEW x \in S
      PROVE  (\E i \in 1..Len(t) : t[i] = x)
               <=> x # Head(q) /\ \E i \in 1..Len(q) : q[i] = x
  <2>1. ASSUME NEW i \in 1..Len(q), q[i] = x, x # Head(q)
        PROVE  i - 1 \in 1..Len(t) /\ t[i - 1] = x
    BY <1>1, <2>1
  <2>2. ASSUME NEW i \in 1..Len(t), t[i] = x
        PROVE  i + 1 \in 1..Len(q) /\ q[i + 1] = x /\ x # Head(q)
    BY <1>1, <2>2
  <2>3. QED
    BY <2>1, <2>2
<1>4. 1 \in 1..Len(q) /\ q[1] = Head(q)
  BY <1>1
<1>5. QED
  BY <1>1, <1>2, <1>3, <1>4 DEF t

LEMMA ShedAccounts ==
  ASSUME QueueInv, NEW j \in Jobs, Shed(j)
  PROVE  JobsAccounted'
<1>0. queue \in Seq(Jobs) /\ phase \in [Jobs -> Phase] /\ phase[j] = "full"
  BY DEF QueueInv, TypeOK, Shed
<1>1. CASE queue # <<>>
  <2> DEFINE victim == Head(queue)
  <2>1. /\ queue' = Tail(queue)
        /\ phase' = [phase EXCEPT ![j] = "push", ![victim] = "shed"]
        /\ running' = running
    BY <1>1 DEF Shed
  <2>2. \A i, k \in 1..Len(queue) : queue[i] = queue[k] => i = k
    BY DEF QueueInv, JobsAccounted
  <2>3. /\ \A i, k \in 1..Len(queue') : queue'[i] = queue'[k] => i = k
        /\ \A d \in Jobs : (\E i \in 1..Len(queue') : queue'[i] = d)
             <=> d # victim /\ \E i \in 1..Len(queue) : queue[i] = d
        /\ victim \in Jobs
        /\ \E i \in 1..Len(queue) : queue[i] = victim
    <3>1. queue \in Seq(Jobs) /\ queue # <<>>
      BY ONLY <1>0, <1>1, <2>1
    <3>2. /\ \A i, k \in 1..Len(Tail(queue)) : Tail(queue)[i] = Tail(queue)[k] => i = k
          /\ \A x \in Jobs : (\E i \in 1..Len(Tail(queue)) : Tail(queue)[i] = x)
               <=> x # Head(queue) /\ \E i \in 1..Len(queue) : queue[i] = x
          /\ Head(queue) \in Jobs
          /\ \E i \in 1..Len(queue) : queue[i] = Head(queue)
      BY ONLY <3>1, <2>2, TakeFirst
    <3>3. queue' = Tail(queue) /\ victim = Head(queue)
      BY ONLY <1>0, <1>1, <2>1 DEF victim
    <3> QED
      BY ONLY <3>2, <3>3
  <2> HIDE DEF victim
  <2>4. phase[victim] = "queued"
    BY <2>3 DEF QueueInv, JobsAccounted
  <2>5. \A d \in Jobs : /\ phase'[d] = "queued" <=> phase[d] = "queued" /\ d # victim
                        /\ phase'[d] = "running" <=> phase[d] = "running"
    BY ONLY <1>0, <2>1, <2>3, <2>4
  <2>6. \A d \in Jobs : /\ phase[d] = "queued" <=> \E i \in 1..Len(queue) : queue[i] = d
                        /\ phase[d] = "running" <=> \E w \in Workers : running[w] = d
    BY DEF QueueInv, JobsAccounted
  <2>7. \A d \in Jobs : phase'[d] = "queued" <=> \E i \in 1..Len(queue') : queue'[i] = d
    <3>1. TAKE d \in Jobs
    <3>2. (\E i \in 1..Len(queue') : queue'[i] = d)
            <=> d # victim /\ \E i \in 1..Len(queue) : queue[i] = d
      BY ONLY <2>3, <3>1
    <3>3. phase'[d] = "queued" <=> phase[d] = "queued" /\ d # victim
      BY ONLY <2>5, <3>1
    <3>4. phase[d] = "queued" <=> \E i \in 1..Len(queue) : queue[i] = d
      BY ONLY <2>6, <3>1
    <3> QED
      BY ONLY <3>2, <3>3, <3>4
  <2>8. \A d \in Jobs : phase'[d] = "running" <=> \E w \in Workers : running'[w] = d
    <3>1. TAKE d \in Jobs
    <3>2. phase'[d] = "running" <=> phase[d] = "running"
      BY ONLY <2>5, <3>1
    <3>3. phase[d] = "running" <=> \E w \in Workers : running[w] = d
      BY ONLY <2>6, <3>1
    <3>4. running' = running
      BY <2>1
    <3> QED
      BY ONLY <3>2, <3>3, <3>4
  <2>9. \A v, w \in Workers : running'[v] = running'[w] /\ running'[v] \in Jobs => v = w
    <3>1. \A v, w \in Workers : running[v] = running[w] /\ running[v] \in Jobs => v = w
      BY DEF QueueInv, JobsAccounted
    <3> QED
      BY ONLY <3>1, <2>1
  <2>10. \A i, k \in 1..Len(queue') : queue'[i] = queue'[k] => i = k
    BY ONLY <2>3
  <2>11. \A d \in Jobs :
           /\ phase'[d] = "queued" <=> \E i \in 1..Len(queue') : queue'[i] = d
           /\ phase'[d] = "running" <=> \E w \in Workers : running'[w] = d
    BY ONLY <2>7, <2>8
  <2>12. QED
    BY ONLY <2>9, <2>10, <2>11 DEF JobsAccounted
<1>2. CASE queue = <<>>
  <2>1. /\ queue' = queue /\ running' = running
        /\ phase' = [phase EXCEPT ![j] = "pause"]
    BY <1>2 DEF Shed
  <2>2. QED
    BY <1>0, <2>1, PhaseOnly DEF QueueInv
<1>3. QED
  BY <1>1, <1>2

LEMMA ReceiveAccounts ==
  ASSUME QueueInv, NEW w \in Workers, Receive(w)
  PROVE  JobsAccounted'
<1> DEFINE job == Head(queue)
<1>1. /\ queue \in Seq(Jobs) /\ queue # <<>> /\ queue' = Tail(queue)
      /\ phase \in [Jobs -> Phase]
      /\ phase' = [phase EXCEPT ![job] = "running"]
      /\ running \in [Workers -> Jobs \cup {"none", "gone"}]
      /\ running[w] = "none"
      /\ running' = [running EXCEPT ![w] = job]
  BY DEF QueueInv, TypeOK, Receive
<1>2. \A i, k \in 1..Len(queue) : queue[i] = queue[k] => i = k
  BY DEF QueueInv, JobsAccounted
<1>3. /\ \A i, k \in 1..Len(queue') : queue'[i] = queue'[k] => i = k
      /\ \A d \in Jobs : (\E i \in 1..Len(queue') : queue'[i] = d)
           <=> d # job /\ \E i \in 1..Len(queue) : queue[i] = d
      /\ job \in Jobs
      /\ \E i \in 1..Len(queue) : queue[i] = job
  <2>1. queue \in Seq(Jobs) /\ queue # <<>>
    BY ONLY <1>1
  <2>2. /\ \A i, k \in 1..Len(Tail(queue)) : Tail(queue)[i] = Tail(queue)[k] => i = k
        /\ \A x \in Jobs : (\E i \in 1..Len(Tail(queue)) : Tail(queue)[i] = x)
             <=> x # Head(queue) /\ \E i \in 1..Len(queue) : queue[i] = x
        /\ Head(queue) \in Jobs
        /\ \E i \in 1..Len(queue) : queue[i] = Head(queue)
    BY ONLY <2>1, <1>2, TakeFirst
  <2>3. queue' = Tail(queue) /\ job = Head(queue)
    BY ONLY <1>1 DEF job
  <2> QED
    BY ONLY <2>2, <2>3
<1> HIDE DEF job
<1>4. phase[job] = "queued" /\ job # "none" /\ \A v \in Workers : running[v] # job
  BY <1>3, WriteQueueAssumption DEF QueueInv, JobsAccounted, WriteQueueAssumption
<1>5. \A d \in Jobs : /\ phase'[d] = "queued" <=> phase[d] = "queued" /\ d # job
                      /\ phase'[d] = "running" <=> phase[d] = "running" \/ d = job
  BY <1>1, <1>3
<1>6. \A v \in Workers : running'[v] = IF v = w THEN job ELSE running[v]
  BY <1>1
<1>7. \A d \in Jobs : phase'[d] = "running" <=> \E v \in Workers : running'[v] = d
  <2> SUFFICES ASSUME NEW d \in Jobs
               PROVE  phase'[d] = "running" <=> \E v \in Workers : running'[v] = d
    OBVIOUS
  <2>1. phase[d] = "running" <=> \E v \in Workers : running[v] = d
    BY DEF QueueInv, JobsAccounted
  <2>2. d # "none"
    BY WriteQueueAssumption DEF WriteQueueAssumption
  <2>3. QED
    BY <1>1, <1>5, <1>6, <2>1, <2>2
<1>8. \A u, v \in Workers : running'[u] = running'[v] /\ running'[u] \in Jobs => u = v
  BY <1>4, <1>6 DEF QueueInv, JobsAccounted
<1>9. QED
  BY <1>3, <1>5, <1>7, <1>8 DEF QueueInv, JobsAccounted

LEMMA FinishAccounts ==
  ASSUME QueueInv, NEW w \in Workers, Finish(w)
  PROVE  JobsAccounted'
<1> DEFINE job == running[w]
<1>1. PICK end \in {"ran", "late"} :
        /\ queue' = queue
        /\ phase \in [Jobs -> Phase]
        /\ job \in Jobs
        /\ phase' = [phase EXCEPT ![job] = end]
        /\ running \in [Workers -> Jobs \cup {"none", "gone"}]
        /\ running' = [running EXCEPT ![w] = "none"]
  BY DEF QueueInv, TypeOK, Finish
<1>2. "none" \notin Jobs
  BY WriteQueueAssumption DEF WriteQueueAssumption
<1>3. phase[job] = "running" /\ \A v \in Workers : running[v] = job => v = w
  BY <1>1 DEF QueueInv, JobsAccounted
<1>4. \A d \in Jobs : /\ phase'[d] = "queued" <=> phase[d] = "queued"
                      /\ phase'[d] = "running" <=> phase[d] = "running" /\ d # job
  BY <1>1, <1>3
<1>5. \A v \in Workers : running'[v] = IF v = w THEN "none" ELSE running[v]
  BY <1>1
<1>6. \A d \in Jobs : (\E v \in Workers : running'[v] = d)
        <=> d # job /\ \E v \in Workers : running[v] = d
  BY <1>2, <1>3, <1>5
<1>7. \A u, v \in Workers : running'[u] = running'[v] /\ running'[u] \in Jobs => u = v
  BY <1>2, <1>5 DEF QueueInv, JobsAccounted
<1>8. QED
  BY <1>1, <1>4, <1>6, <1>7 DEF QueueInv, JobsAccounted

LEMMA ExitAccounts ==
  ASSUME QueueInv, NEW w \in Workers, Exit(w)
  PROVE  JobsAccounted'
<1>1. /\ queue' = queue /\ phase' = phase
      /\ running \in [Workers -> Jobs \cup {"none", "gone"}]
      /\ running[w] = "none"
      /\ running' = [running EXCEPT ![w] = "gone"]
  BY DEF QueueInv, TypeOK, Exit
<1>2. "none" \notin Jobs /\ "gone" \notin Jobs
  BY WriteQueueAssumption DEF WriteQueueAssumption
<1>3. \A v \in Workers : running'[v] = IF v = w THEN "gone" ELSE running[v]
  BY <1>1
<1>4. \A d \in Jobs : (\E v \in Workers : running'[v] = d)
        <=> \E v \in Workers : running[v] = d
  BY <1>1, <1>2, <1>3
<1>5. \A u, v \in Workers : running'[u] = running'[v] /\ running'[u] \in Jobs => u = v
  BY <1>2, <1>3 DEF QueueInv, JobsAccounted
<1>6. QED
  BY <1>1, <1>4, <1>5 DEF QueueInv, JobsAccounted

-----------------------------------------------------------------------------
LEMMA AccountsStep ==
  ASSUME QueueInv, [Next]_vars
  PROVE  JobsAccounted'
<1>1. CASE BeginClose \/ Close \/ CloseStore \/ UNCHANGED vars
  <2>1. phase' = phase /\ queue' = queue /\ running' = running
    BY <1>1 DEF BeginClose, Close, CloseChannel, WorkersDone, CloseStore, vars
  <2>2. QED
    BY <2>1, PhaseOnly DEF QueueInv
<1>2. QED
  BY <1>1, EnterAccounts, PushAccounts, ShedAccounts, ReceiveAccounts,
     FinishAccounts, ExitAccounts DEF Next, Submit, Worker

LEMMA QueueInvStep ==
  ASSUME QueueInv, [Next]_vars
  PROVE  QueueInv'
<1>1. TypeOK' /\ JobsAccounted'
  BY TypeStep, AccountsStep DEF QueueInv
<1> USE <1>1 DEF QueueInv, TypeOK, NoSendOnClosed, WorkersLeaveEmpty,
                 DoneMeansGone, ClosesOnce, Closed, Submitting
<1>2. ASSUME NEW j \in Jobs, Enter(j)
      PROVE  QueueInv'
  BY <1>2 DEF Enter
<1>3. ASSUME NEW j \in Jobs, Push(j) \/ Retry(j)
      PROVE  QueueInv'
  BY <1>3 DEF Push, Retry
<1>4. ASSUME NEW j \in Jobs, Shed(j)
      PROVE  QueueInv'
  BY <1>4 DEF Shed
<1>5. ASSUME NEW w \in Workers, Receive(w)
      PROVE  QueueInv'
  <2>1. Head(queue) \in Jobs
    BY <1>5, TailElements DEF Receive
  <2>2. QED
    BY <1>5, <2>1, WriteQueueAssumption DEF Receive, WriteQueueAssumption
<1>6. ASSUME NEW w \in Workers, Finish(w) \/ Exit(w)
      PROVE  QueueInv'
  <2>1. CASE Finish(w)
    <3>1. /\ queue' = queue /\ closing' = closing
          /\ \A j \in Jobs : phase'[j] \in Submitting => phase[j] \in Submitting
          /\ \A v \in Workers : running'[v] = "gone" => running[v] = "gone"
      BY <2>1 DEF Finish
    <3>2. running[w] # "gone"
      BY <2>1, WriteQueueAssumption DEF Finish, WriteQueueAssumption
    <3>3. NoSendOnClosed' /\ WorkersLeaveEmpty'
      BY <3>1
    <3>4. DoneMeansGone'
      BY <3>1, <3>2
    <3>5. QED
      BY <1>1, <2>1, <3>3, <3>4 DEF Finish
  <2>2. CASE Exit(w)
    BY <2>2 DEF Exit
  <2>3. QED
    BY <1>6, <2>1, <2>2
<1>7. CASE BeginClose \/ Close \/ CloseStore
  <2>1. CASE BeginClose
    BY <2>1 DEF BeginClose
  <2>2. CASE Close \/ CloseStore
    BY <2>2 DEF Close, CloseChannel, WorkersDone, CloseStore
  <2>3. QED
    BY <1>7, <2>1, <2>2
<1>8. CASE UNCHANGED vars
  BY <1>8 DEF vars
<1>9. QED
  BY <1>2, <1>3, <1>4, <1>5, <1>6, <1>7, <1>8 DEF Next, Submit, Worker

THEOREM QueueInvariant == Spec => []QueueInv
<1>1. Init => QueueInv
  <2> SUFFICES ASSUME Init
               PROVE  QueueInv
    OBVIOUS
  <2>1. TypeOK
    BY WriteQueueAssumption DEF Init, TypeOK, Phase, WriteQueueAssumption
  <2>2. JobsAccounted
    <3>1. Len(queue) = 0 /\ \A j \in Jobs : phase[j] = "new"
      BY DEF Init
    <3>2. \A w \in Workers : running[w] = "none" /\ "none" \notin Jobs
      BY WriteQueueAssumption DEF Init, WriteQueueAssumption
    <3>3. QED
      BY <3>1, <3>2 DEF JobsAccounted
  <2>3. QED
    BY <2>1, <2>2 DEF Init, QueueInv, NoSendOnClosed, WorkersLeaveEmpty,
                      DoneMeansGone, ClosesOnce, Closed, Submitting
<1>2. QueueInv /\ [Next]_vars => QueueInv'
  BY QueueInvStep
<1>3. QED
  BY <1>1, <1>2, PTL DEF Spec

-----------------------------------------------------------------------------
(* The properties *)

\* No job is lost, duplicated or run twice (writequeue.go:47-112).
THEOREM EveryJobAccounted == Spec => []JobsAccounted
BY QueueInvariant, PTL DEF QueueInv

\* Nobody can send on the closed channel (writequeue.go:83-90, 118-122).
THEOREM ClosedChannelIsQuiet == Spec => []NoSendOnClosed
BY QueueInvariant, PTL DEF QueueInv

\* Close returns only when every accepted job has run or was shed
\* (writequeue.go:47-52, 114-125).
THEOREM CloseDrains == Spec => []DrainedOnClose
<1>1. QueueInv => DrainedOnClose
  <2> SUFFICES ASSUME QueueInv, closing = "done", NEW j \in Jobs
               PROVE  phase[j] \notin {"queued", "running"}
    BY DEF DrainedOnClose
  <2>1. \A w \in Workers : running[w] = "gone"
    BY DEF QueueInv, DoneMeansGone
  <2>2. queue = <<>>
    BY <2>1, WriteQueueAssumption DEF QueueInv, WorkersLeaveEmpty, WriteQueueAssumption
  <2>3. phase[j] # "queued"
    BY <2>2 DEF QueueInv, JobsAccounted
  <2>4. phase[j] # "running"
    BY <2>1, WriteQueueAssumption DEF QueueInv, JobsAccounted, WriteQueueAssumption
  <2>5. QED
    BY <2>3, <2>4
<1>2. QED
  BY <1>1, QueueInvariant, PTL
=============================================================================
