------------------------ MODULE ReliableQueueProofs ------------------------
(***************************************************************************)
(* Proofs about ReliableQueue, for any number of jobs and workers.         *)
(***************************************************************************)
EXTENDS ReliableQueue, TLAPS

NoRepeat(s) == \A k, m \in 1..Len(s) : s[k] = s[m] => k = m

-----------------------------------------------------------------------------
(* What the operations on lists do to the set of their elements. *)

\* The empty list has no element.
LEMMA EmptyList ==
  /\ ToSet(<<>>) = {}
  /\ NoRepeat(<<>>)
BY DEF ToSet, NoRepeat

\* The elements of a list of jobs are jobs.
LEMMA ToSetIn ==
  ASSUME NEW S, NEW s \in Seq(S)
  PROVE  ToSet(s) \subseteq S
BY DEF ToSet

\* Taking the head of a list without repetitions removes its element.
LEMMA TailElements ==
  ASSUME NEW S, NEW s \in Seq(S), s # <<>>
  PROVE  /\ Tail(s) \in Seq(S)
         /\ Head(s) \in S
         /\ Head(s) \in ToSet(s)
         /\ NoRepeat(s) => /\ NoRepeat(Tail(s))
                           /\ ToSet(Tail(s)) = ToSet(s) \ {Head(s)}
<1>1. /\ Len(s) \in Nat \ {0}
      /\ Head(s) = s[1]
      /\ Tail(s) \in Seq(S)
      /\ Len(Tail(s)) = Len(s) - 1
      /\ \A k \in 1..(Len(s) - 1) : Tail(s)[k] = s[k + 1]
      /\ DOMAIN s = 1..Len(s)
      /\ DOMAIN Tail(s) = 1..(Len(s) - 1)
  OBVIOUS
<1>2. Head(s) \in S /\ Head(s) \in ToSet(s)
  BY <1>1 DEF ToSet
<1>3. ASSUME NoRepeat(s)
      PROVE  NoRepeat(Tail(s)) /\ ToSet(Tail(s)) = ToSet(s) \ {Head(s)}
  <2>1. NoRepeat(Tail(s))
    BY <1>1, <1>3 DEF NoRepeat
  <2>2. ASSUME NEW k \in 1..Len(s), s[k] # s[1]
        PROVE  s[k] \in ToSet(Tail(s))
    <3>1. k - 1 \in 1..(Len(s) - 1) /\ Tail(s)[k - 1] = s[k]
      BY <1>1, <2>2
    <3>2. QED BY <1>1, <3>1 DEF ToSet
  <2>3. ASSUME NEW k \in 1..(Len(s) - 1)
        PROVE  Tail(s)[k] \in ToSet(s) \ {Head(s)}
    <3>1. k + 1 \in 1..Len(s) /\ Tail(s)[k] = s[k + 1] /\ k + 1 # 1
      BY <1>1, <2>3
    <3>2. QED BY <1>1, <1>3, <3>1 DEF NoRepeat, ToSet
  <2>4. QED BY <1>1, <2>1, <2>2, <2>3 DEF ToSet
<1>4. QED BY <1>1, <1>2, <1>3

\* LPUSH adds an element.
LEMMA AppendElements ==
  ASSUME NEW S, NEW s \in Seq(S), NEW x \in S
  PROVE  /\ Append(s, x) \in Seq(S)
         /\ ToSet(Append(s, x)) = ToSet(s) \cup {x}
         /\ NoRepeat(s) /\ x \notin ToSet(s) => NoRepeat(Append(s, x))
<1> DEFINE r == Append(s, x)
<1>1. /\ Len(s) \in Nat
      /\ r \in Seq(S)
      /\ Len(r) = Len(s) + 1
      /\ \A k \in 1..Len(s) : r[k] = s[k]
      /\ r[Len(s) + 1] = x
      /\ DOMAIN s = 1..Len(s)
      /\ DOMAIN r = 1..(Len(s) + 1)
  OBVIOUS
<1>2. ToSet(r) = ToSet(s) \cup {x}
  BY <1>1 DEF ToSet
<1>3. ASSUME NoRepeat(s), x \notin ToSet(s)
      PROVE  NoRepeat(r)
  <2>1. \A k \in 1..Len(s) : s[k] # x
    BY <1>1, <1>3 DEF ToSet
  <2>2. QED BY <1>1, <1>3, <2>1 DEF NoRepeat
<1>4. QED BY <1>1, <1>2, <1>3

\* RPUSH adds an element.
LEMMA PushElements ==
  ASSUME NEW S, NEW s \in Seq(S), NEW x \in S
  PROVE  /\ <<x>> \o s \in Seq(S)
         /\ ToSet(<<x>> \o s) = ToSet(s) \cup {x}
         /\ NoRepeat(s) /\ x \notin ToSet(s) => NoRepeat(<<x>> \o s)
<1> DEFINE r == <<x>> \o s
<1>1. /\ Len(s) \in Nat
      /\ r \in Seq(S)
      /\ Len(r) = Len(s) + 1
      /\ \A k \in 2..(Len(s) + 1) : r[k] = s[k - 1]
      /\ r[1] = x
      /\ DOMAIN s = 1..Len(s)
      /\ DOMAIN r = 1..(Len(s) + 1)
  OBVIOUS
<1> HIDE DEF r
<1>2. ToSet(r) = ToSet(s) \cup {x}
  <2>1. ASSUME NEW k \in DOMAIN s PROVE s[k] \in ToSet(r)
    <3>1. k + 1 \in DOMAIN r
      BY <1>1, <2>1
    <3>2. r[k + 1] = s[k]
      BY <1>1, <2>1
    <3>3. QED BY <3>1, <3>2 DEF ToSet
  <2>2. ASSUME NEW k \in DOMAIN r PROVE r[k] \in ToSet(s) \cup {x}
    <3>1. CASE k = 1 BY <1>1, <3>1
    <3>2. CASE k # 1
      <4>1. k - 1 \in DOMAIN s
        BY <1>1, <2>2, <3>2
      <4>2. r[k] = s[k - 1]
        BY <1>1, <2>2, <3>2
      <4>3. QED BY <4>1, <4>2 DEF ToSet
    <3>3. QED BY <3>1, <3>2
  <2>3. x \in ToSet(r)
    <3>1. 1 \in DOMAIN r
      BY <1>1
    <3>2. QED BY <1>1, <3>1 DEF ToSet
  <2>4. ToSet(s) \subseteq ToSet(r)
    BY <2>1 DEF ToSet
  <2>5. ToSet(r) \subseteq ToSet(s) \cup {x}
    BY <2>2 DEF ToSet
  <2>6. QED BY <2>3, <2>4, <2>5
<1>3. ASSUME NoRepeat(s), x \notin ToSet(s)
      PROVE  NoRepeat(r)
  <2>1. \A k \in 1..Len(s) : s[k] # x
    BY <1>1, <1>3 DEF ToSet
  <2>2. \A k \in 2..(Len(s) + 1) : k - 1 \in 1..Len(s) /\ r[k] = s[k - 1]
    BY <1>1
  <2>3. ASSUME NEW k \in 1..Len(r), NEW m \in 1..Len(r), r[k] = r[m]
        PROVE  k = m
    <3>1. CASE k = 1 /\ m = 1 BY <3>1
    <3>2. CASE k = 1 /\ m # 1
      BY <1>1, <2>1, <2>2, <2>3, <3>2
    <3>3. CASE k # 1 /\ m = 1
      BY <1>1, <2>1, <2>2, <2>3, <3>3
    <3>4. CASE k # 1 /\ m # 1
      <4>1. s[k - 1] = s[m - 1] /\ k - 1 \in 1..Len(s) /\ m - 1 \in 1..Len(s)
        BY <1>1, <2>2, <2>3, <3>4
      <4>2. k - 1 = m - 1 BY <1>3, <4>1 DEF NoRepeat
      <4>3. QED BY <1>1, <4>2
    <3>5. QED BY <3>1, <3>2, <3>3, <3>4
  <2>4. QED BY <2>3 DEF NoRepeat
<1>4. QED BY <1>1, <1>2, <1>3 DEF r

\* LREM returns a list of jobs.
LEMMA LremType ==
  ASSUME NEW S, NEW s \in Seq(S), NEW t
  PROVE  Lrem(s, t) \in Seq(S)
<1>1. CASE t \notin ToSet(s)
  BY <1>1 DEF Lrem
<1>2. CASE t \in ToSet(s)
  <2> DEFINE i == CHOOSE k \in 1..Len(s) :
                    s[k] = t /\ \A m \in 1..Len(s) : s[m] = t => m <= k
             r == [k \in 1..(Len(s) - 1) |-> IF k < i THEN s[k] ELSE s[k + 1]]
  <2>1. Len(s) \in Nat \ {0}
    BY <1>2 DEF ToSet
  <2>2. Lrem(s, t) = r
    BY <1>2 DEF Lrem
  <2> HIDE DEF i
  <2>3. \A k \in 1..(Len(s) - 1) : s[k] \in S /\ s[k + 1] \in S
    BY <2>1
  <2>4. r \in [1..(Len(s) - 1) -> S]
    BY <2>3
  <2>5. r \in Seq(S)
    BY <2>1, <2>4
  <2>6. QED BY <2>2, <2>5
<1>3. QED BY <1>1, <1>2

\* LREM removes the element it is given from a list without repetitions.
LEMMA LremElements ==
  ASSUME NEW S, NEW s \in Seq(S), NEW t, NoRepeat(s)
  PROVE  /\ ToSet(Lrem(s, t)) = ToSet(s) \ {t}
         /\ NoRepeat(Lrem(s, t))
<1>1. CASE t \notin ToSet(s)
  BY <1>1 DEF Lrem
<1>2. CASE t \in ToSet(s)
  <2> DEFINE i == CHOOSE k \in 1..Len(s) :
                    s[k] = t /\ \A m \in 1..Len(s) : s[m] = t => m <= k
             r == [k \in 1..(Len(s) - 1) |-> IF k < i THEN s[k] ELSE s[k + 1]]
  <2>1. Len(s) \in Nat \ {0} /\ DOMAIN s = 1..Len(s)
    BY <1>2 DEF ToSet
  <2>2. i \in 1..Len(s) /\ s[i] = t
    <3>1. PICK k \in 1..Len(s) : s[k] = t
      BY <1>2, <2>1 DEF ToSet
    <3>2. \A m \in 1..Len(s) : s[m] = t => m <= k
      BY <3>1, <2>1 DEF NoRepeat
    <3>3. QED BY <3>1, <3>2
  <2>3. Lrem(s, t) = r
    BY <1>2 DEF Lrem
  <2> HIDE DEF i
  <2>4. /\ DOMAIN r = 1..(Len(s) - 1)
        /\ Len(r) = Len(s) - 1
        /\ \A k \in 1..(Len(s) - 1) :
             r[k] = IF k < i THEN s[k] ELSE s[k + 1]
    BY <2>1
  <2> HIDE DEF r
  <2>5. ASSUME NEW k \in 1..(Len(s) - 1)
        PROVE  r[k] \in ToSet(s) \ {t}
    <3>1. CASE k < i
      BY <3>1, <2>1, <2>2, <2>4 DEF ToSet, NoRepeat
    <3>2. CASE ~(k < i)
      <4>1. k + 1 \in 1..Len(s) /\ k + 1 # i /\ r[k] = s[k + 1]
        BY <3>2, <2>1, <2>2, <2>4
      <4>2. QED BY <4>1, <2>1, <2>2 DEF ToSet, NoRepeat
    <3>3. QED BY <3>1, <3>2
  <2>6. ASSUME NEW k \in 1..Len(s), s[k] # t
        PROVE  s[k] \in ToSet(r)
    <3>1. CASE k < i
      <4>1. k \in 1..(Len(s) - 1) /\ r[k] = s[k]
        BY <3>1, <2>1, <2>2, <2>4
      <4>2. QED BY <4>1, <2>4 DEF ToSet
    <3>2. CASE ~(k < i)
      <4>1. k - 1 \in 1..(Len(s) - 1) /\ ~(k - 1 < i) /\ (k - 1) + 1 = k
        BY <3>2, <2>6, <2>1, <2>2
      <4>2. r[k - 1] = s[k]
        BY <4>1, <2>4
      <4>3. QED BY <4>1, <4>2, <2>4 DEF ToSet
    <3>3. QED BY <3>1, <3>2
  <2>7. ToSet(r) = ToSet(s) \ {t}
    BY <2>1, <2>4, <2>5, <2>6 DEF ToSet
  <2>8. NoRepeat(r)
    <3>1. SUFFICES ASSUME NEW k \in 1..(Len(s) - 1), NEW m \in 1..(Len(s) - 1),
                          r[k] = r[m]
                   PROVE  k = m
      BY <2>4 DEF NoRepeat
    <3> DEFINE p(n) == IF n < i THEN n ELSE n + 1
    <3>2. p(k) \in 1..Len(s) /\ p(m) \in 1..Len(s)
      BY <2>1, <2>2
    <3>3. r[k] = s[p(k)] /\ r[m] = s[p(m)]
      BY <2>4
    <3>4. p(k) = p(m)
      BY <3>1, <3>2, <3>3 DEF NoRepeat
    <3>5. QED BY <3>4, <2>2
  <2>9. QED BY <2>3, <2>7, <2>8
<1>3. QED BY <1>1, <1>2
-----------------------------------------------------------------------------
(* Type correctness. *)

\* The head of a list of jobs is a job.
LEMMA HeadInJobs ==
  ASSUME NEW s \in Seq(Jobs), s # <<>>
  PROVE  Head(s) \in Jobs /\ Tail(s) \in Seq(Jobs)
BY TailElements

\* The initial state has the right types.
LEMMA InitType == Init => TypeOK
<1> SUFFICES ASSUME Init PROVE TypeOK
  OBVIOUS
<1>1. <<>> \in Seq(Jobs)
  OBVIOUS
<1>2. QED
  BY <1>1 DEF Init, TypeOK, Owns, OwnerPCs, LivePCs, RecoveryPCs

\* BRPOPLPUSH moves a job between lists of jobs.
LEMMA TakeType ==
  ASSUME TypeOK, NEW w \in Workers, Take(w)
  PROVE  /\ Head(queue) \in Jobs
         /\ queue' \in Seq(Jobs)
         /\ processing' \in [Workers -> Seq(Jobs)]
         /\ taken' \subseteq Jobs
<1>1. Head(queue) \in Jobs /\ Tail(queue) \in Seq(Jobs)
  BY HeadInJobs DEF TypeOK, Take
<1>2. Append(processing[w], Head(queue)) \in Seq(Jobs)
  BY <1>1, AppendElements DEF TypeOK
<1>3. QED BY <1>1, <1>2 DEF TypeOK, Take

\* acknowledge leaves lists of jobs.
LEMMA RemoveReceiptType ==
  ASSUME TypeOK, NEW w \in Workers, RemoveReceipt(w)
  PROVE  processing' \in [Workers -> Seq(Jobs)]
<1>1. Lrem(processing[w], reserved[w]) \in Seq(Jobs)
  BY LremType DEF TypeOK
<1>2. QED BY <1>1 DEF TypeOK, RemoveReceipt

\* requeue leaves lists of jobs.
LEMMA PutBackType ==
  ASSUME TypeOK, NEW w \in Workers, Owns(w), PutBack(w)
  PROVE  processing' \in [Workers -> Seq(Jobs)] /\ queue' \in Seq(Jobs)
<1>1. reserved[w] \in Jobs
  BY DEF TypeOK
<1>2. <<reserved[w]>> \o queue \in Seq(Jobs)
  BY <1>1, PushElements DEF TypeOK
<1>3. QED BY <1>2, RemoveReceiptType DEF PutBack

\* Every step keeps the types.
LEMMA StepType == TypeOK /\ [Next]_vars => TypeOK'
<1> SUFFICES ASSUME TypeOK, [Next]_vars PROVE TypeOK'
  OBVIOUS
<1> USE DEF Owns, OwnerPCs, LivePCs, RecoveryPCs, Goto, redisVars,
        recoveryVars, historyVars
<1>1. ASSUME NEW j \in Jobs, Enqueue(j) PROVE TypeOK'
  <2>1. Append(queue, j) \in Seq(Jobs) /\ Append(sent, j) \in Seq(Jobs)
    BY AppendElements DEF TypeOK
  <2>2. QED BY <1>1, <2>1 DEF TypeOK, Enqueue
<1>2. ASSUME NEW w \in Workers, Recover(w) PROVE TypeOK'
  <2>1. ASSUME NEW v \in Workers, RecoverSkip(w, v) PROVE TypeOK'
    BY <2>1 DEF TypeOK, RecoverSkip
  <2>2. ASSUME NEW v \in Workers, RecoverClaim(w, v) PROVE TypeOK'
    BY <2>2, ConstantsAssumption DEF TypeOK, RecoverClaim
  <2>3. CASE RecoverPop(w)
    <3>1. victim[w] \in Workers
      BY <2>3 DEF RecoverPop, TypeOK
    <3>2. /\ Head(processing[victim[w]]) \in Jobs
          /\ Tail(processing[victim[w]]) \in Seq(Jobs)
      BY <2>3, <3>1, HeadInJobs DEF RecoverPop, TypeOK
    <3>3. QED BY <2>3, <3>1, <3>2, ConstantsAssumption DEF RecoverPop, TypeOK
  <2>4. CASE RecoverPush(w)
    <3>1. hand[w] \in Jobs
      BY <2>4 DEF RecoverPush, TypeOK
    <3>2. <<hand[w]>> \o queue \in Seq(Jobs)
      BY <3>1, PushElements DEF TypeOK
    <3>3. QED BY <2>4, <3>2 DEF RecoverPush, TypeOK
  <2>5. CASE RecoverDrained(w)
    BY <2>5 DEF RecoverDrained, TypeOK
  <2>6. CASE RecoverDelete(w)
    <3>1. <<>> \in Seq(Jobs)
      OBVIOUS
    <3>2. QED BY <2>6, <3>1 DEF RecoverDelete, TypeOK
  <2>7. CASE RecoverDone(w)
    BY <2>7 DEF RecoverDone, TypeOK
  <2>8. QED BY <1>2, <2>1, <2>2, <2>3, <2>4, <2>5, <2>6, <2>7 DEF Recover
<1>3. ASSUME NEW w \in Workers, MainLoop(w) PROVE TypeOK'
  <2>1. CASE StartWorker(w)
    BY <2>1 DEF StartWorker, BeginRecovery, TypeOK
  <2>2. CASE Loop(w)
    BY <2>2 DEF Loop, TypeOK
  <2>3. CASE Exit(w)
    BY <2>3 DEF Exit, TypeOK
  <2>4. CASE Reserve(w)
    <3>1. Take(w)
      BY <2>4 DEF Reserve
    <3>2. QED BY <2>4, <3>1, TakeType, ConstantsAssumption, ZenonT(40) DEF Reserve, Take, TypeOK
  <2>5. CASE ReserveMalformed(w)
    <3>1. Take(w)
      BY <2>5 DEF ReserveMalformed
    <3>2. QED BY <2>5, <3>1, TakeType DEF ReserveMalformed, Take, TypeOK
  <2>6. CASE ReserveTimeout(w)
    BY <2>6 DEF ReserveTimeout, BeginRecovery, TypeOK
  <2>7. CASE Ack(w)
    BY <2>7, RemoveReceiptType DEF Ack, TypeOK
  <2>8. CASE Requeue(w)
    <3>1. Owns(w)
      BY <2>8 DEF Requeue
    <3>2. QED BY <2>8, <3>1, PutBackType DEF Requeue, TypeOK
  <2>9. QED BY <1>3, <2>1, <2>2, <2>3, <2>4, <2>5, <2>6, <2>7, <2>8 DEF MainLoop
<1>4. ASSUME NEW w \in Workers, JobDone(w) PROVE TypeOK'
  <2>1. reserved[w] \in Jobs
    BY <1>4 DEF JobDone, TypeOK
  <2>2. QED BY <1>4, <2>1 DEF JobDone, TypeOK
<1>5. ASSUME NEW w \in Workers, JobRaises(w) PROVE TypeOK'
  BY <1>5 DEF JobRaises, TypeOK
<1>6. ASSUME NEW w \in Workers, Beat(w) PROVE TypeOK'
  BY <1>6 DEF Beat, TypeOK
<1>7. ASSUME NEW w \in Workers, Expire(w) PROVE TypeOK'
  BY <1>7 DEF Expire, TypeOK
<1>8. ASSUME NEW w \in Workers, Fault(w) PROVE TypeOK'
  <2>1. CASE RecoverAbort(w)
    BY <2>1 DEF RecoverAbort, TypeOK
  <2>2. CASE ReserveReplyLost(w)
    <3>1. Take(w)
      BY <2>2 DEF ReserveReplyLost
    <3>2. QED BY <2>2, <3>1, TakeType DEF ReserveReplyLost, Take, TypeOK
  <2>3. CASE AckFails(w)
    <3>1. processing' \in [Workers -> Seq(Jobs)]
      BY <2>3, RemoveReceiptType DEF AckFails, TypeOK
    <3>2. QED BY <2>3, <3>1 DEF AckFails, TypeOK
  <2>4. CASE RequeueFails(w)
    <3>1. Owns(w)
      BY <2>4 DEF RequeueFails
    <3>2. processing' \in [Workers -> Seq(Jobs)] /\ queue' \in Seq(Jobs)
      BY <2>4, <3>1, PutBackType DEF RequeueFails, TypeOK
    <3>3. heartbeat' \in [Workers -> BOOLEAN]
      BY <2>4 DEF RequeueFails, TypeOK
    <3>4. QED BY <2>4, <3>2, <3>3 DEF RequeueFails, TypeOK
  <2>5. CASE StopSignal(w)
    BY <2>5 DEF StopSignal, TypeOK
  <2>6. CASE Crash(w)
    BY <2>6 DEF Crash, Live, TypeOK
  <2>7. QED BY <1>8, <2>1, <2>2, <2>3, <2>4, <2>5, <2>6 DEF Fault
<1>9. CASE UNCHANGED vars
  BY <1>9 DEF vars, TypeOK
<1>10. QED
  BY <1>1, <1>2, <1>3, <1>4, <1>5, <1>6, <1>7, <1>8, <1>9
     DEF Next, WorkerStep

(* The variables keep their types, and a worker has a job in hand, a list  *)
(* being drained or a popped token exactly at the points of main and of    *)
(* recover_abandoned where the code has one.                               *)
THEOREM TypeCorrect == Spec => []TypeOK
<1>1. QED BY InitType, StepType, PTL DEF Spec
-----------------------------------------------------------------------------
(***************************************************************************)
(* The inductive invariant.  It holds while no live worker's heartbeat     *)
(* lapses and no worker is told to stop during a job (the heartbeat        *)
(* thread ends with the signal, the job does not).                         *)
(***************************************************************************)
HeartbeatsKept == Faults \cap {"lapse", "stop"} = {}

Queued == ToSet(queue)
Held(w) == ToSet(processing[w])

LiveHasHeartbeat == \A w \in Workers : Live(w) => heartbeat[w]

NeverStopped == stopped = {}

\* Recovery only drains the list of a worker that is dead for good.
VictimIsDead == \A w \in Workers : victim[w] # None => pc[victim[w]] = "dead"

ScansStarted ==
  \A w \in Workers : \A v \in toScan[w] : pc[v] # "off"

\* What recovery is about to delete is empty.
DrainedStaysEmpty ==
  \A w \in Workers : pc[w] = "delete" => processing[victim[w]] = <<>>

\* A token is in one place of one list.
OnePlace ==
  /\ NoRepeat(queue)
  /\ \A w \in Workers : NoRepeat(processing[w]) /\ Held(w) \cap Queued = {}
  /\ \A w, v \in Workers : w # v => Held(w) \cap Held(v) = {}

HandApart ==
  \A w \in Workers : hand[w] # None =>
    /\ hand[w] \notin Queued
    /\ \A v \in Workers : hand[w] \notin Held(v) /\ (v # w => hand[v] # hand[w])

\* What a worker works on no other worker has or can get.
OwnerApart ==
  \A w \in Workers : reserved[w] # None =>
    /\ reserved[w] \notin Queued
    /\ \A v \in Workers :
         /\ hand[v] # reserved[w]
         /\ v # w => reserved[w] \notin Held(v) /\ reserved[v] # reserved[w]

OwnerHolds ==
  \A w \in Workers : pc[w] \in {"job", "ack"} => reserved[w] \in Held(w)

AllSent ==
  /\ Queued \subseteq ToSet(sent)
  /\ \A w \in Workers :
       /\ Held(w) \subseteq ToSet(sent)
       /\ hand[w] # None => hand[w] \in ToSet(sent)
       /\ reserved[w] # None => reserved[w] \in ToSet(sent)

Processes == LiveHasHeartbeat /\ NeverStopped /\ VictimIsDead /\ ScansStarted
Places == OnePlace /\ HandApart /\ OwnerApart /\ OwnerHolds /\ AllSent

AckedIsCompleted == \A w \in Workers : pc[w] = "ack" => reserved[w] \in completed

IInv == TypeOK /\ Processes /\ DrainedStaysEmpty /\ Places /\ AckedIsCompleted
-----------------------------------------------------------------------------
\* The inductive invariant holds initially.
LEMMA InitIInv == Init => IInv
<1> SUFFICES ASSUME Init PROVE IInv
  OBVIOUS
<1>1. TypeOK
  BY InitType
<1>2. /\ Queued = {} /\ NoRepeat(queue)
      /\ \A w \in Workers : Held(w) = {} /\ NoRepeat(processing[w])
  BY EmptyList DEF Init, Queued, Held
<1>3. Processes /\ DrainedStaysEmpty /\ AckedIsCompleted
  BY DEF Init, Processes, LiveHasHeartbeat, NeverStopped, VictimIsDead,
         ScansStarted, DrainedStaysEmpty, AckedIsCompleted, Live, LivePCs,
         OwnerPCs, RecoveryPCs
<1>4. Places
  BY <1>2 DEF Init, Places, OnePlace, HandApart, OwnerApart, OwnerHolds,
              AllSent
<1>5. QED BY <1>1, <1>3, <1>4 DEF IInv

\* What keeping the heartbeats means for the faults.
LEMMA NoLapseNoStop == HeartbeatsKept => "lapse" \notin Faults /\ "stop" \notin Faults
BY DEF HeartbeatsKept

\* Every step keeps what the invariant says of processes.
LEMMA ProcessesStep ==
  ASSUME HeartbeatsKept, TypeOK, Processes, [Next]_vars
  PROVE  Processes'
<1> USE DEF Processes, LiveHasHeartbeat, NeverStopped, VictimIsDead,
        ScansStarted, Live, Owns, OwnerPCs, LivePCs, RecoveryPCs, Goto,
        redisVars, recoveryVars, historyVars, TypeOK
<1>1. ASSUME NEW j \in Jobs, Enqueue(j) PROVE Processes'
  BY <1>1 DEF Enqueue
<1>2. ASSUME NEW w \in Workers, Recover(w) PROVE Processes'
  <2>1. ASSUME NEW v \in Workers, RecoverSkip(w, v) PROVE Processes'
    BY <2>1 DEF RecoverSkip
  <2>2. ASSUME NEW v \in Workers, RecoverClaim(w, v) PROVE Processes'
    <3>1. pc[v] = "dead"
      BY <2>2 DEF RecoverClaim
    <3>2. QED BY <2>2, <3>1 DEF RecoverClaim
  <2>3. CASE RecoverPop(w) BY <2>3 DEF RecoverPop
  <2>4. CASE RecoverPush(w) BY <2>4 DEF RecoverPush
  <2>5. CASE RecoverDrained(w) BY <2>5 DEF RecoverDrained
  <2>6. CASE RecoverDelete(w) BY <2>6 DEF RecoverDelete
  <2>7. CASE RecoverDone(w) BY <2>7 DEF RecoverDone
  <2>8. QED BY <1>2, <2>1, <2>2, <2>3, <2>4, <2>5, <2>6, <2>7 DEF Recover
<1>3. ASSUME NEW w \in Workers, MainLoop(w) PROVE Processes'
  <2>1. CASE StartWorker(w) BY <2>1 DEF StartWorker, BeginRecovery
  <2>2. CASE Loop(w) BY <2>2 DEF Loop
  <2>3. CASE Exit(w) BY <2>3 DEF Exit
  <2>4. CASE Reserve(w) BY <2>4 DEF Reserve, Take
  <2>5. CASE ReserveMalformed(w) BY <2>5 DEF ReserveMalformed, Take
  <2>6. CASE ReserveTimeout(w) BY <2>6 DEF ReserveTimeout, BeginRecovery
  <2>7. CASE Ack(w) BY <2>7 DEF Ack
  <2>8. CASE Requeue(w) BY <2>8 DEF Requeue
  <2>9. QED BY <1>3, <2>1, <2>2, <2>3, <2>4, <2>5, <2>6, <2>7, <2>8 DEF MainLoop
<1>4. ASSUME NEW w \in Workers, JobDone(w) PROVE Processes'
  BY <1>4 DEF JobDone
<1>5. ASSUME NEW w \in Workers, JobRaises(w) PROVE Processes'
  BY <1>5 DEF JobRaises
<1>6. ASSUME NEW w \in Workers, Beat(w) PROVE Processes'
  BY <1>6 DEF Beat
<1>7. ASSUME NEW w \in Workers, Expire(w) PROVE Processes'
  <2>1. pc[w] = "dead"
    BY <1>7, NoLapseNoStop DEF Expire, Unrenewed
  <2>2. QED BY <1>7, <2>1 DEF Expire
<1>8. ASSUME NEW w \in Workers, Fault(w) PROVE Processes'
  <2>1. CASE RecoverAbort(w) BY <2>1 DEF RecoverAbort
  <2>2. CASE ReserveReplyLost(w) BY <2>2 DEF ReserveReplyLost, Take
  <2>3. CASE AckFails(w) BY <2>3 DEF AckFails
  <2>4. CASE RequeueFails(w)
    <3>1. \A v \in Workers \ {w} : heartbeat'[v] = heartbeat[v]
      BY <2>4 DEF RequeueFails
    <3>2. QED BY <2>4, <3>1 DEF RequeueFails
  <2>5. CASE StopSignal(w) BY <2>5, NoLapseNoStop DEF StopSignal
  <2>6. CASE Crash(w) BY <2>6 DEF Crash
  <2>7. QED BY <1>8, <2>1, <2>2, <2>3, <2>4, <2>5, <2>6 DEF Fault
<1>9. CASE UNCHANGED vars
  BY <1>9 DEF vars
<1>10. QED
  BY <1>1, <1>2, <1>3, <1>4, <1>5, <1>6, <1>7, <1>8, <1>9
     DEF Next, WorkerStep
-----------------------------------------------------------------------------
(* What the moves between lists do to the tokens each list holds. *)

\* BRPOPLPUSH moves the head of the queue to the worker's list.
LEMMA TakeEffect ==
  ASSUME TypeOK, OnePlace, NEW w \in Workers, Take(w)
  PROVE  /\ Head(queue) \in Queued
         /\ Head(queue) \in Jobs
         /\ Queued' = Queued \ {Head(queue)}
         /\ NoRepeat(queue')
         /\ \A v \in Workers :
              /\ Held(v)' = IF v = w THEN Held(v) \cup {Head(queue)} ELSE Held(v)
              /\ NoRepeat(processing'[v])
<1> DEFINE t == Head(queue)
<1>1. /\ t \in Queued /\ t \in Jobs
      /\ Queued' = Queued \ {t} /\ NoRepeat(queue')
  BY TailElements DEF TypeOK, Take, OnePlace, Queued
<1>2. /\ ToSet(Append(processing[w], t)) = Held(w) \cup {t}
      /\ NoRepeat(Append(processing[w], t))
  <2>1. t \notin ToSet(processing[w])
    BY <1>1 DEF OnePlace, Held
  <2>2. QED BY <1>1, <2>1, AppendElements DEF TypeOK, OnePlace, Held
<1>3. \A v \in Workers :
        processing'[v] = IF v = w THEN Append(processing[v], t) ELSE processing[v]
  BY DEF Take, TypeOK
<1>4. QED BY <1>1, <1>2, <1>3 DEF OnePlace, Held

\* acknowledge takes the reserved job off the worker's list.
LEMMA RemoveReceiptEffect ==
  ASSUME TypeOK, OnePlace, NEW w \in Workers, RemoveReceipt(w)
  PROVE  \A v \in Workers :
           /\ Held(v)' = IF v = w THEN Held(v) \ {reserved[w]} ELSE Held(v)
           /\ NoRepeat(processing'[v])
<1>1. /\ ToSet(Lrem(processing[w], reserved[w])) = Held(w) \ {reserved[w]}
      /\ NoRepeat(Lrem(processing[w], reserved[w]))
  BY LremElements DEF TypeOK, OnePlace, Held
<1>2. \A v \in Workers :
        processing'[v] = IF v = w THEN Lrem(processing[v], reserved[w])
                         ELSE processing[v]
  BY DEF RemoveReceipt, TypeOK
<1>3. QED BY <1>1, <1>2 DEF OnePlace, Held

\* requeue moves the reserved job from the worker's list to the queue.
LEMMA PutBackEffect ==
  ASSUME TypeOK, OnePlace, OwnerApart, NEW w \in Workers, Owns(w), PutBack(w)
  PROVE  /\ Queued' = Queued \cup {reserved[w]}
         /\ NoRepeat(queue')
         /\ \A v \in Workers :
              /\ Held(v)' = IF v = w THEN Held(v) \ {reserved[w]} ELSE Held(v)
              /\ NoRepeat(processing'[v])
<1>1. reserved[w] \in Jobs /\ reserved[w] \notin Queued
  BY ConstantsAssumption DEF TypeOK, OwnerApart
<1>2. Queued' = Queued \cup {reserved[w]} /\ NoRepeat(queue')
  BY <1>1, PushElements DEF TypeOK, OnePlace, Queued, PutBack
<1>3. QED BY <1>2, RemoveReceiptEffect DEF PutBack

\* RPOP moves a token from the victim's list to the hand.
LEMMA PopEffect ==
  ASSUME TypeOK, OnePlace, NEW w \in Workers, RecoverPop(w)
  PROVE  /\ victim[w] \in Workers
         /\ hand'[w] \in Held(victim[w])
         /\ hand'[w] \in Jobs
         /\ \A v \in Workers :
              /\ Held(v)' = IF v = victim[w] THEN Held(v) \ {hand'[w]} ELSE Held(v)
              /\ NoRepeat(processing'[v])
<1>1. victim[w] \in Workers
  BY DEF RecoverPop, TypeOK
<1>2. hand'[w] = Head(processing[victim[w]])
  BY DEF RecoverPop, TypeOK
<1>3. /\ hand'[w] \in Held(victim[w]) /\ hand'[w] \in Jobs
      /\ ToSet(Tail(processing[victim[w]])) = Held(victim[w]) \ {hand'[w]}
      /\ NoRepeat(Tail(processing[victim[w]]))
  BY <1>1, <1>2, TailElements DEF TypeOK, RecoverPop, OnePlace, Held
<1>4. \A v \in Workers :
        processing'[v] = IF v = victim[w] THEN Tail(processing[v])
                         ELSE processing[v]
  BY <1>1 DEF RecoverPop, TypeOK
<1>5. QED BY <1>1, <1>3, <1>4 DEF OnePlace, Held

\* RPUSH moves the token from the hand to the queue.
LEMMA PushEffect ==
  ASSUME TypeOK, OnePlace, HandApart, NEW w \in Workers, RecoverPush(w)
  PROVE  /\ hand[w] # None
         /\ Queued' = Queued \cup {hand[w]}
         /\ NoRepeat(queue')
<1>1. hand[w] # None /\ hand[w] \in Jobs /\ hand[w] \notin Queued
  BY DEF RecoverPush, TypeOK, HandApart
<1>2. QED BY <1>1, PushElements DEF TypeOK, RecoverPush, OnePlace, Queued

\* enqueue adds a job that was nowhere.
LEMMA EnqueueEffect ==
  ASSUME TypeOK, OnePlace, AllSent, NEW j \in Jobs, Enqueue(j)
  PROVE  /\ Queued' = Queued \cup {j}
         /\ ToSet(sent') = ToSet(sent) \cup {j}
         /\ NoRepeat(queue')
<1>1. j \notin Queued
  BY DEF Enqueue, AllSent
<1>2. QED BY <1>1, AppendElements DEF TypeOK, Enqueue, OnePlace, Queued

-----------------------------------------------------------------------------
\* A step that moves no token and takes none into a hand.
Still ==
  /\ UNCHANGED <<queue, processing, sent>>
  /\ \A w \in Workers :
       /\ hand'[w] \in {hand[w], None}
       /\ reserved'[w] \in {reserved[w], None}
       /\ pc'[w] \in {"job", "ack"} => /\ pc[w] \in {"job", "ack"}
                                      /\ reserved'[w] = reserved[w]

\* A still step keeps the tokens apart.
LEMMA StillPlaces == Places /\ Still => Places'
<1> SUFFICES ASSUME Places, Still PROVE Places'
  OBVIOUS
<1>1. Queued' = Queued /\ \A w \in Workers : Held(w)' = Held(w)
  BY DEF Still, Queued, Held
<1>2. QED
  BY <1>1 DEF Still, Places, OnePlace, HandApart, OwnerApart, OwnerHolds,
              AllSent

\* BRPOPLPUSH keeps the tokens apart, whether or not main sees its reply.
LEMMA TakePlaces ==
  ASSUME TypeOK, Places, NEW w \in Workers, Take(w), hand' = hand, sent' = sent,
         \/ reserved' = reserved /\ pc'[w] = "loop"
         \/ reserved' = [reserved EXCEPT ![w] = Head(queue)],
         \A v \in Workers \ {w} : pc'[v] = pc[v]
  PROVE  Places'
<1>1. /\ Head(queue) \in Queued
      /\ Head(queue) \in Jobs
      /\ Queued' = Queued \ {Head(queue)}
      /\ NoRepeat(queue')
      /\ \A v \in Workers :
           /\ Held(v)' = IF v = w THEN Held(v) \cup {Head(queue)} ELSE Held(v)
           /\ NoRepeat(processing'[v])
  BY TakeEffect DEF Places
<1>2. OnePlace'
  BY <1>1 DEF Places, OnePlace
<1>3. HandApart'
  BY <1>1 DEF Places, HandApart
<1>4. reserved[w] = None
  BY DEF Take, TypeOK, Owns, OwnerPCs
<1>5. OwnerApart'
  <2>1. CASE reserved' = reserved
    BY <1>1, <1>4, <2>1 DEF Places, OwnerApart
  <2>2. CASE reserved' = [reserved EXCEPT ![w] = Head(queue)]
    <3>1. \A v \in Workers :
            reserved'[v] = IF v = w THEN Head(queue) ELSE reserved[v]
      BY <2>2 DEF TypeOK
    <3>2. \A v \in Workers :
            /\ Head(queue) # reserved[v] /\ Head(queue) # hand[v]
            /\ Head(queue) \notin Held(v)
      BY <1>1, ConstantsAssumption DEF Places, OwnerApart, HandApart, OnePlace
    <3>3. QED BY <1>1, <3>1, <3>2 DEF Places, OwnerApart
  <2>3. QED BY <2>1, <2>2
<1>6. OwnerHolds'
  BY <1>1 DEF Places, OwnerHolds, TypeOK
<1>7. AllSent'
  <2>1. \A v \in Workers : reserved'[v] \in {reserved[v], Head(queue)}
    BY DEF TypeOK
  <2>2. Head(queue) \in ToSet(sent)
    BY <1>1 DEF Places, AllSent
  <2>3. QED BY <1>1, <2>1, <2>2 DEF Places, AllSent
<1>8. QED BY <1>2, <1>3, <1>5, <1>6, <1>7 DEF Places

\* acknowledge keeps the tokens apart.
LEMMA ReleasePlaces ==
  ASSUME TypeOK, Places, NEW w \in Workers, RemoveReceipt(w),
         queue' = queue, hand' = hand, sent' = sent,
         reserved' = reserved \/ reserved' = [reserved EXCEPT ![w] = None],
         pc'[w] \notin {"job", "ack"},
         \A v \in Workers \ {w} : pc'[v] = pc[v]
  PROVE  Places'
<1>1. Queued' = Queued
  BY DEF Queued
<1>2. \A v \in Workers :
        /\ Held(v)' = IF v = w THEN Held(v) \ {reserved[w]} ELSE Held(v)
        /\ NoRepeat(processing'[v])
  BY RemoveReceiptEffect DEF Places
<1>3. \A v \in Workers :
        reserved'[v] \in {reserved[v], None} /\ (v # w => reserved'[v] = reserved[v])
  BY DEF TypeOK
<1>4. OnePlace' /\ HandApart' /\ AllSent'
  BY <1>1, <1>2, <1>3 DEF Places, OnePlace, HandApart, AllSent
<1>5. OwnerApart'
  BY <1>1, <1>2, <1>3 DEF Places, OwnerApart
<1>6. OwnerHolds'
  BY <1>2, <1>3 DEF Places, OwnerHolds
<1>7. QED BY <1>4, <1>5, <1>6 DEF Places

\* requeue keeps the tokens apart.
LEMMA PutBackPlaces ==
  ASSUME TypeOK, Places, NEW w \in Workers, Owns(w), PutBack(w),
         hand' = hand, sent' = sent,
         reserved' = [reserved EXCEPT ![w] = None],
         pc'[w] \notin {"job", "ack"},
         \A v \in Workers \ {w} : pc'[v] = pc[v]
  PROVE  Places'
<1>1. /\ Queued' = Queued \cup {reserved[w]}
      /\ NoRepeat(queue')
      /\ \A v \in Workers :
           /\ Held(v)' = IF v = w THEN Held(v) \ {reserved[w]} ELSE Held(v)
           /\ NoRepeat(processing'[v])
  BY PutBackEffect DEF Places
<1>2. reserved[w] # None
  BY DEF TypeOK
<1>3. \A v \in Workers :
        reserved'[v] = IF v = w THEN None ELSE reserved[v]
  BY DEF TypeOK
<1>4. \A v \in Workers :
        /\ hand[v] # reserved[w]
        /\ v # w => reserved[w] \notin Held(v) /\ reserved[v] # reserved[w]
  BY <1>2 DEF Places, OwnerApart
<1>5. OnePlace'
  BY <1>1, <1>4 DEF Places, OnePlace
<1>6. HandApart'
  BY <1>1, <1>4 DEF Places, HandApart
<1>7. OwnerApart'
  BY <1>1, <1>3, <1>4 DEF Places, OwnerApart
<1>8. OwnerHolds'
  BY <1>1, <1>3 DEF Places, OwnerHolds
<1>9. AllSent'
  BY <1>1, <1>2, <1>3 DEF Places, AllSent
<1>10. QED BY <1>5, <1>6, <1>7, <1>8, <1>9 DEF Places

\* RPOP keeps the tokens apart, since its victim is dead.
LEMMA PopPlaces ==
  ASSUME TypeOK, VictimIsDead, Places, NEW w \in Workers, RecoverPop(w)
  PROVE  Places'
<1>1. /\ victim[w] \in Workers
      /\ hand'[w] \in Held(victim[w])
      /\ hand'[w] \in Jobs
      /\ \A v \in Workers :
           /\ Held(v)' = IF v = victim[w] THEN Held(v) \ {hand'[w]} ELSE Held(v)
           /\ NoRepeat(processing'[v])
  BY PopEffect DEF Places
<1>2. Queued' = Queued /\ reserved' = reserved /\ sent' = sent
  BY DEF RecoverPop, historyVars, Queued
<1>3. \A v \in Workers \ {w} : hand'[v] = hand[v]
  BY DEF RecoverPop, TypeOK
<1>4. pc[victim[w]] = "dead" /\ reserved[victim[w]] = None
  BY <1>1, ConstantsAssumption DEF VictimIsDead, TypeOK, Owns, OwnerPCs
<1>5. OnePlace'
  BY <1>1, <1>2 DEF Places, OnePlace, RecoverPop
<1>6. HandApart'
  BY <1>1, <1>2, <1>3, ConstantsAssumption DEF Places, HandApart, OnePlace
<1>7. OwnerApart'
  BY <1>1, <1>2, <1>3, <1>4 DEF Places, OwnerApart
<1>8. OwnerHolds'
  <2>1. \A v \in Workers :
          pc'[v] \in {"job", "ack"} => pc[v] \in {"job", "ack"} /\ v # victim[w]
    BY <1>4 DEF RecoverPop, Goto, TypeOK
  <2>2. QED BY <1>1, <1>2, <2>1 DEF Places, OwnerHolds
<1>9. AllSent'
  BY <1>1, <1>2, <1>3 DEF Places, AllSent
<1>10. QED BY <1>5, <1>6, <1>7, <1>8, <1>9 DEF Places

\* RPUSH keeps the tokens apart.
LEMMA PushPlaces ==
  ASSUME TypeOK, Places, NEW w \in Workers, RecoverPush(w)
  PROVE  Places'
<1>1. hand[w] # None /\ Queued' = Queued \cup {hand[w]} /\ NoRepeat(queue')
  BY PushEffect DEF Places
<1>2. /\ reserved' = reserved /\ sent' = sent /\ processing' = processing
      /\ \A v \in Workers : Held(v)' = Held(v)
  BY DEF RecoverPush, historyVars, Held
<1>3. \A v \in Workers : hand'[v] = IF v = w THEN None ELSE hand[v]
  BY DEF RecoverPush, TypeOK
<1>4. OnePlace' /\ HandApart'
  BY <1>1, <1>2, <1>3 DEF Places, OnePlace, HandApart
<1>5. OwnerApart'
  BY <1>1, <1>2, <1>3 DEF Places, OwnerApart
<1>6. OwnerHolds'
  BY <1>2 DEF Places, OwnerHolds, RecoverPush, Goto, TypeOK
<1>7. AllSent'
  BY <1>1, <1>2, <1>3 DEF Places, AllSent
<1>8. QED BY <1>4, <1>5, <1>6, <1>7 DEF Places

\* enqueue keeps the tokens apart.
LEMMA EnqueuePlaces ==
  ASSUME TypeOK, Places, NEW j \in Jobs, Enqueue(j)
  PROVE  Places'
<1>1. /\ Queued' = Queued \cup {j}
      /\ ToSet(sent') = ToSet(sent) \cup {j}
      /\ NoRepeat(queue')
  BY EnqueueEffect DEF Places
<1>2. /\ reserved' = reserved /\ hand' = hand /\ pc' = pc
      /\ processing' = processing
      /\ \A v \in Workers : Held(v)' = Held(v)
  BY DEF Enqueue, recoveryVars, Held
<1>3. j \notin ToSet(sent)
  BY DEF Enqueue
<1>4. QED
  BY <1>1, <1>2, <1>3 DEF Places, OnePlace, HandApart, OwnerApart, OwnerHolds,
                          AllSent

-----------------------------------------------------------------------------
(* Each step keeps the tokens apart. *)

\* recover_abandoned keeps the tokens apart.
LEMMA RecoverKeepsPlaces ==
  ASSUME TypeOK, VictimIsDead, DrainedStaysEmpty, Places,
         NEW w \in Workers, Recover(w)
  PROVE  Places'
<1> USE DEF Goto, redisVars, recoveryVars, historyVars
<1>1. ASSUME NEW v \in Workers, RecoverSkip(w, v) PROVE Still
  BY <1>1 DEF RecoverSkip, Still
<1>2. ASSUME NEW v \in Workers, RecoverClaim(w, v) PROVE Still
  BY <1>2 DEF RecoverClaim, Still, TypeOK
<1>3. CASE RecoverPop(w)
  BY <1>3, PopPlaces
<1>4. CASE RecoverPush(w)
  BY <1>4, PushPlaces
<1>5. CASE RecoverDrained(w)
  <2>1. Still
    BY <1>5 DEF RecoverDrained, Still, TypeOK
  <2>2. QED BY <2>1, StillPlaces
<1>6. CASE RecoverDelete(w)
  <2>1. processing' = processing
    BY <1>6 DEF RecoverDelete, DrainedStaysEmpty, TypeOK
  <2>2. Still
    BY <1>6, <2>1 DEF RecoverDelete, Still, TypeOK
  <2>3. QED BY <2>2, StillPlaces
<1>7. CASE RecoverDone(w)
  <2>1. Still
    BY <1>7 DEF RecoverDone, Still, TypeOK
  <2>2. QED BY <2>1, StillPlaces
<1>8. QED
  BY <1>1, <1>2, <1>3, <1>4, <1>5, <1>6, <1>7, StillPlaces DEF Recover

\* The loop of main keeps the tokens apart.
LEMMA MainLoopKeepsPlaces ==
  ASSUME TypeOK, Places, NEW w \in Workers, MainLoop(w)
  PROVE  Places'
<1> USE DEF Goto, redisVars, recoveryVars, historyVars
<1>1. CASE StartWorker(w)
  <2>1. Still
    BY <1>1 DEF StartWorker, BeginRecovery, Still, TypeOK
  <2>2. QED BY <2>1, StillPlaces
<1>2. CASE Loop(w)
  <2>1. Still
    BY <1>2 DEF Loop, Still, TypeOK
  <2>2. QED BY <2>1, StillPlaces
<1>3. CASE Exit(w)
  <2>1. Still
    BY <1>3 DEF Exit, Still, TypeOK
  <2>2. QED BY <2>1, StillPlaces
<1>4. CASE Reserve(w)
  <2>1. /\ Take(w) /\ hand' = hand /\ sent' = sent
        /\ reserved' = [reserved EXCEPT ![w] = Head(queue)]
        /\ \A v \in Workers \ {w} : pc'[v] = pc[v]
    BY <1>4 DEF Reserve, TypeOK
  <2>2. QED BY <2>1, TakePlaces
<1>5. CASE ReserveMalformed(w)
  <2>1. /\ Take(w) /\ hand' = hand /\ sent' = sent
        /\ reserved' = reserved /\ pc'[w] = "loop"
        /\ \A v \in Workers \ {w} : pc'[v] = pc[v]
    BY <1>5 DEF ReserveMalformed, TypeOK
  <2>2. QED BY <2>1, TakePlaces
<1>6. CASE ReserveTimeout(w)
  <2>1. Still
    BY <1>6 DEF ReserveTimeout, BeginRecovery, Still, TypeOK
  <2>2. QED BY <2>1, StillPlaces
<1>7. CASE Ack(w)
  <2>1. /\ RemoveReceipt(w) /\ queue' = queue /\ hand' = hand /\ sent' = sent
        /\ reserved' = [reserved EXCEPT ![w] = None]
        /\ pc'[w] \notin {"job", "ack"}
        /\ \A v \in Workers \ {w} : pc'[v] = pc[v]
    BY <1>7 DEF Ack, TypeOK
  <2>2. QED BY <2>1, ReleasePlaces
<1>8. CASE Requeue(w)
  <2>1. /\ PutBack(w) /\ Owns(w) /\ hand' = hand /\ sent' = sent
        /\ reserved' = [reserved EXCEPT ![w] = None]
        /\ pc'[w] \notin {"job", "ack"}
        /\ \A v \in Workers \ {w} : pc'[v] = pc[v]
    BY <1>8 DEF Requeue, TypeOK, Owns, OwnerPCs
  <2>2. QED BY <2>1, PutBackPlaces
<1>9. QED
  BY <1>1, <1>2, <1>3, <1>4, <1>5, <1>6, <1>7, <1>8 DEF MainLoop

\* The faults keep the tokens apart.
LEMMA FaultKeepsPlaces ==
  ASSUME TypeOK, Places, NEW w \in Workers, Fault(w)
  PROVE  Places'
<1> USE DEF Goto, redisVars, recoveryVars, historyVars
<1>1. CASE RecoverAbort(w)
  <2>1. Still
    BY <1>1 DEF RecoverAbort, Still, TypeOK
  <2>2. QED BY <2>1, StillPlaces
<1>2. CASE ReserveReplyLost(w)
  <2>1. /\ Take(w) /\ hand' = hand /\ sent' = sent
        /\ reserved' = reserved /\ pc'[w] = "loop"
        /\ \A v \in Workers \ {w} : pc'[v] = pc[v]
    BY <1>2 DEF ReserveReplyLost, TypeOK
  <2>2. QED BY <2>1, TakePlaces
<1>3. CASE AckFails(w)
  <2>1. /\ queue' = queue /\ hand' = hand /\ sent' = sent
        /\ reserved' = reserved /\ pc'[w] \notin {"job", "ack"}
        /\ \A v \in Workers \ {w} : pc'[v] = pc[v]
    BY <1>3 DEF AckFails, TypeOK
  <2>2. CASE RemoveReceipt(w)
    BY <2>1, <2>2, ReleasePlaces
  <2>3. CASE UNCHANGED processing
    <3>1. Still
      BY <2>1, <2>3 DEF Still
    <3>2. QED BY <3>1, StillPlaces
  <2>4. QED BY <1>3, <2>2, <2>3 DEF AckFails
<1>4. CASE RequeueFails(w)
  <2>1. /\ Owns(w) /\ hand' = hand /\ sent' = sent
        /\ reserved' = [reserved EXCEPT ![w] = None]
        /\ pc'[w] \notin {"job", "ack"}
        /\ \A v \in Workers \ {w} : pc'[v] = pc[v]
    BY <1>4 DEF RequeueFails, TypeOK, Owns, OwnerPCs
  <2>2. CASE PutBack(w)
    BY <2>1, <2>2, PutBackPlaces
  <2>3. CASE UNCHANGED <<queue, processing>>
    <3>1. Still
      BY <2>1, <2>3 DEF Still, TypeOK
    <3>2. QED BY <3>1, StillPlaces
  <2>4. QED BY <1>4, <2>2, <2>3 DEF RequeueFails
<1>5. CASE StopSignal(w)
  <2>1. Still
    BY <1>5 DEF StopSignal, Still, TypeOK
  <2>2. QED BY <2>1, StillPlaces
<1>6. CASE Crash(w)
  <2>1. Still
    BY <1>6 DEF Crash, Still, TypeOK
  <2>2. QED BY <2>1, StillPlaces
<1>7. QED
  BY <1>1, <1>2, <1>3, <1>4, <1>5, <1>6 DEF Fault

\* Every step keeps the tokens apart.
LEMMA PlacesStep ==
  ASSUME TypeOK, VictimIsDead, DrainedStaysEmpty, Places, [Next]_vars
  PROVE  Places'
<1> USE DEF redisVars, recoveryVars, historyVars, Goto
<1>1. ASSUME NEW w \in Workers, JobDone(w) PROVE Still
  BY <1>1 DEF JobDone, Still, TypeOK
<1>2. ASSUME NEW w \in Workers, JobRaises(w) PROVE Still
  BY <1>2 DEF JobRaises, Still, TypeOK
<1>3. ASSUME NEW w \in Workers, Beat(w) PROVE Still
  BY <1>3 DEF Beat, Still
<1>4. ASSUME NEW w \in Workers, Expire(w) PROVE Still
  BY <1>4 DEF Expire, Still
<1>5. ASSUME UNCHANGED vars PROVE Still
  BY <1>5 DEF vars, Still
<1>6. QED
  BY <1>1, <1>2, <1>3, <1>4, <1>5, StillPlaces, EnqueuePlaces,
     RecoverKeepsPlaces, MainLoopKeepsPlaces, FaultKeepsPlaces
     DEF Next, WorkerStep

-----------------------------------------------------------------------------
\* A drained list stays empty until it is deleted: its worker is dead.
LEMMA DrainedStep ==
  ASSUME TypeOK, VictimIsDead, DrainedStaysEmpty, [Next]_vars
  PROVE  DrainedStaysEmpty'
<1> USE DEF DrainedStaysEmpty, VictimIsDead, TypeOK, Goto, redisVars,
        recoveryVars, historyVars, Owns, OwnerPCs, Live, LivePCs, RecoveryPCs
<1>1. ASSUME NEW w \in Workers,
             \A v \in Workers : /\ processing'[v] = processing[v]
                                /\ v # w => pc'[v] = pc[v],
             pc'[w] # "delete",
             \A v \in Workers : v # w => victim'[v] = victim[v]
      PROVE  DrainedStaysEmpty'
  <2>1. SUFFICES ASSUME NEW u \in Workers, pc'[u] = "delete"
                 PROVE  processing'[victim'[u]] = <<>>
    OBVIOUS
  <2>2. u # w /\ pc[u] = "delete" /\ victim'[u] = victim[u]
    BY <1>1, <2>1
  <2>3. victim[u] \in Workers
    BY <2>2
  <2>4. QED BY <1>1, <2>2, <2>3
<1>2. ASSUME NEW w \in Workers, pc[w] \in {"poll", "ack", "requeue"},
             pc'[w] # "delete", victim' = victim,
             \A v \in Workers \ {w} :
               processing'[v] = processing[v] /\ pc'[v] = pc[v]
      PROVE  DrainedStaysEmpty'
  <2>1. SUFFICES ASSUME NEW u \in Workers, pc'[u] = "delete"
                 PROVE  processing'[victim'[u]] = <<>>
    OBVIOUS
  <2>2. u # w /\ pc[u] = "delete"
    BY <1>2, <2>1
  <2>3. victim[u] \in Workers /\ victim[u] # w
    BY <1>2, <2>2
  <2>4. QED BY <1>2, <2>2, <2>3
<1>3. ASSUME NEW j \in Jobs, Enqueue(j) PROVE DrainedStaysEmpty'
  BY <1>3 DEF Enqueue
<1>4. ASSUME NEW w \in Workers, Recover(w) PROVE DrainedStaysEmpty'
  <2>1. ASSUME NEW v \in Workers, RecoverSkip(w, v) PROVE DrainedStaysEmpty'
    BY <2>1 DEF RecoverSkip
  <2>2. ASSUME NEW v \in Workers, RecoverClaim(w, v) PROVE DrainedStaysEmpty'
    BY <2>2, <1>1 DEF RecoverClaim
  <2>3. CASE RecoverPop(w)
    <3>1. \A v \in Workers : processing[v] = <<>> => processing'[v] = <<>>
      BY <2>3 DEF RecoverPop
    <3>2. QED BY <2>3, <3>1 DEF RecoverPop
  <2>4. CASE RecoverPush(w) BY <2>4, <1>1 DEF RecoverPush
  <2>5. CASE RecoverDrained(w) BY <2>5 DEF RecoverDrained
  <2>6. CASE RecoverDelete(w)
    <3>1. \A v \in Workers : processing[v] = <<>> => processing'[v] = <<>>
      BY <2>6 DEF RecoverDelete
    <3>2. QED BY <2>6, <3>1 DEF RecoverDelete
  <2>7. CASE RecoverDone(w) BY <2>7, <1>1 DEF RecoverDone
  <2>8. QED BY <1>4, <2>1, <2>2, <2>3, <2>4, <2>5, <2>6, <2>7 DEF Recover
<1>5. ASSUME NEW w \in Workers, MainLoop(w) PROVE DrainedStaysEmpty'
  <2>1. CASE StartWorker(w) BY <2>1, <1>1 DEF StartWorker, BeginRecovery
  <2>2. CASE Loop(w) BY <2>2, <1>1 DEF Loop
  <2>3. CASE Exit(w) BY <2>3, <1>1 DEF Exit
  <2>4. CASE Reserve(w) BY <2>4, <1>2 DEF Reserve, Take
  <2>5. CASE ReserveMalformed(w) BY <2>5, <1>2 DEF ReserveMalformed, Take
  <2>6. CASE ReserveTimeout(w) BY <2>6, <1>1 DEF ReserveTimeout, BeginRecovery
  <2>7. CASE Ack(w) BY <2>7, <1>2 DEF Ack, RemoveReceipt
  <2>8. CASE Requeue(w) BY <2>8, <1>2 DEF Requeue, PutBack, RemoveReceipt
  <2>9. QED BY <1>5, <2>1, <2>2, <2>3, <2>4, <2>5, <2>6, <2>7, <2>8 DEF MainLoop
<1>6. ASSUME NEW w \in Workers, JobDone(w) PROVE DrainedStaysEmpty'
  BY <1>6, <1>1 DEF JobDone
<1>7. ASSUME NEW w \in Workers, JobRaises(w) PROVE DrainedStaysEmpty'
  BY <1>7, <1>1 DEF JobRaises
<1>8. ASSUME NEW w \in Workers, Beat(w) \/ Expire(w) PROVE DrainedStaysEmpty'
  BY <1>8 DEF Beat, Expire
<1>9. ASSUME NEW w \in Workers, Fault(w) PROVE DrainedStaysEmpty'
  <2>1. CASE RecoverAbort(w) BY <2>1, <1>1 DEF RecoverAbort
  <2>2. CASE ReserveReplyLost(w) BY <2>2, <1>2 DEF ReserveReplyLost, Take
  <2>3. CASE AckFails(w) BY <2>3, <1>2 DEF AckFails, RemoveReceipt
  <2>4. CASE RequeueFails(w)
    BY <2>4, <1>2 DEF RequeueFails, PutBack, RemoveReceipt
  <2>5. CASE StopSignal(w) BY <2>5 DEF StopSignal
  <2>6. CASE Crash(w) BY <2>6, <1>1 DEF Crash
  <2>7. QED BY <1>9, <2>1, <2>2, <2>3, <2>4, <2>5, <2>6 DEF Fault
<1>10. CASE UNCHANGED vars
  BY <1>10 DEF vars
<1>11. QED
  BY <1>3, <1>4, <1>5, <1>6, <1>7, <1>8, <1>9, <1>10 DEF Next, WorkerStep

\* Only a job that process_job has returned from is acknowledged.
LEMMA AckedStep ==
  ASSUME TypeOK, AckedIsCompleted, [Next]_vars
  PROVE  AckedIsCompleted'
<1> USE DEF AckedIsCompleted, TypeOK, Goto, redisVars, recoveryVars, historyVars
<1>1. ASSUME completed \subseteq completed',
             \A w \in Workers : pc'[w] = "ack" =>
               pc[w] = "ack" /\ reserved'[w] = reserved[w]
      PROVE  AckedIsCompleted'
  BY <1>1
<1>2. ASSUME NEW j \in Jobs, Enqueue(j) PROVE AckedIsCompleted'
  BY <1>2 DEF Enqueue
<1>3. ASSUME NEW w \in Workers, Recover(w) PROVE AckedIsCompleted'
  BY <1>1, <1>3 DEF Recover, RecoverSkip, RecoverClaim, RecoverPop,
                    RecoverPush, RecoverDrained, RecoverDelete, RecoverDone
<1>4. ASSUME NEW w \in Workers, MainLoop(w) PROVE AckedIsCompleted'
  BY <1>1, <1>4 DEF MainLoop, StartWorker, BeginRecovery, Loop, Exit, Reserve,
                    Take, ReserveMalformed, ReserveTimeout, Ack, Requeue
<1>5. ASSUME NEW w \in Workers, JobDone(w) PROVE AckedIsCompleted'
  BY <1>5 DEF JobDone
<1>6. ASSUME NEW w \in Workers, JobRaises(w) \/ Beat(w) \/ Expire(w)
      PROVE  AckedIsCompleted'
  BY <1>6 DEF JobRaises, Beat, Expire
<1>7. ASSUME NEW w \in Workers, Fault(w) PROVE AckedIsCompleted'
  BY <1>1, <1>7 DEF Fault, RecoverAbort, ReserveReplyLost, Take, AckFails,
                    RequeueFails, StopSignal, Crash
<1>8. CASE UNCHANGED vars
  BY <1>8 DEF vars
<1>9. QED
  BY <1>2, <1>3, <1>4, <1>5, <1>6, <1>7, <1>8 DEF Next, WorkerStep

\* Every step keeps the inductive invariant.
LEMMA IInvStep ==
  ASSUME HeartbeatsKept
  PROVE  IInv /\ [Next]_vars => IInv'
<1> SUFFICES ASSUME IInv, [Next]_vars PROVE IInv'
  OBVIOUS
<1>1. TypeOK /\ Processes /\ VictimIsDead /\ DrainedStaysEmpty /\ Places
      /\ AckedIsCompleted
  BY DEF IInv, Processes
<1>2. TypeOK'
  BY <1>1, StepType
<1>3. Processes'
  BY <1>1, ProcessesStep
<1>4. DrainedStaysEmpty'
  BY <1>1, DrainedStep
<1>5. Places'
  BY <1>1, PlacesStep
<1>6. AckedIsCompleted'
  BY <1>1, AckedStep
<1>7. QED BY <1>2, <1>3, <1>4, <1>5, <1>6 DEF IInv

\* While heartbeats are kept, a token is in one place, a worker alone has what
\* it works on, and recovery drains only the lists of dead workers.
THEOREM Inductive == ASSUME HeartbeatsKept PROVE Spec => []IInv
<1>1. QED BY InitIInv, IInvStep, PTL DEF Spec

(* With the heartbeats kept, recovery never hands out a job that a worker  *)
(* still runs: two workers in process_job work on different jobs.          *)
THEOREM ExclusiveExecutionHolds ==
  ASSUME HeartbeatsKept PROVE Spec => []ExclusiveExecution
<1>1. IInv => ExclusiveExecution
  BY ConstantsAssumption
     DEF IInv, Places, OwnerApart, ExclusiveExecution, TypeOK, Owns, OwnerPCs
<1>2. QED BY <1>1, Inductive, PTL

(* With the heartbeats kept, the list of a worker still holds the job it   *)
(* runs: acknowledge and requeue find it, and a crash leaves it there.     *)
THEOREM RunningJobIsHeldHolds ==
  ASSUME HeartbeatsKept PROVE Spec => []RunningJobIsHeld
<1>1. IInv => RunningJobIsHeld
  BY DEF IInv, Places, OwnerHolds, RunningJobIsHeld, Held
<1>2. QED BY <1>1, Inductive, PTL

-----------------------------------------------------------------------------
(* Nothing is lost, if no worker dies between recovery's RPOP and RPUSH.   *)

Somewhere(j) ==
  \/ j \in Queued
  \/ \E w \in Workers : j \in Held(w) \/ hand[w] = j

\* A step that adds nothing to the lists and leaves the hands alone.
Unmoved == UNCHANGED <<queue, processing, hand>>

\* BRPOPLPUSH, requeue and acknowledge: what they do to the places of a token.
LEMMA UnmovedSomewhere == ASSUME Unmoved, NEW j, Somewhere(j) PROVE Somewhere(j)'
<1>1. Queued' = Queued /\ \A v \in Workers : Held(v)' = Held(v)
  BY DEF Unmoved, Queued, Held
<1>2. QED BY <1>1 DEF Unmoved, Somewhere

LEMMA TakeSomewhere ==
  ASSUME IInv, NEW w \in Workers, Take(w), hand' = hand, NEW j, Somewhere(j)
  PROVE  Somewhere(j)'
<1>1. /\ Head(queue) \in Queued
      /\ Queued' = Queued \ {Head(queue)}
      /\ \A v \in Workers :
           Held(v)' = IF v = w THEN Held(v) \cup {Head(queue)} ELSE Held(v)
  BY TakeEffect DEF IInv, Places
<1>2. QED BY <1>1 DEF Somewhere

LEMMA PutBackSomewhere ==
  ASSUME IInv, NEW w \in Workers, Owns(w), PutBack(w), hand' = hand,
         NEW j, Somewhere(j)
  PROVE  Somewhere(j)'
<1>1. /\ Queued' = Queued \cup {reserved[w]}
      /\ \A v \in Workers :
           Held(v)' = IF v = w THEN Held(v) \ {reserved[w]} ELSE Held(v)
  BY PutBackEffect DEF IInv, Places
<1>2. QED BY <1>1 DEF Somewhere

LEMMA ReceiptSomewhere ==
  ASSUME IInv, NEW w \in Workers, RemoveReceipt(w), UNCHANGED <<queue, hand>>,
         NEW j, j # reserved[w], Somewhere(j)
  PROVE  Somewhere(j)'
<1>1. /\ Queued' = Queued
      /\ \A v \in Workers :
           Held(v)' = IF v = w THEN Held(v) \ {reserved[w]} ELSE Held(v)
  BY RemoveReceiptEffect DEF IInv, Places, Queued
<1>2. QED BY <1>1 DEF Somewhere

\* Recovery moves tokens without losing them, unless it is torn.
LEMMA RecoverSomewhere ==
  ASSUME IInv, NEW w \in Workers, Recover(w), NEW j \in Jobs, Somewhere(j)
  PROVE  Somewhere(j)'
<1> USE DEF Goto, redisVars, recoveryVars, historyVars
<1>1. TypeOK /\ OnePlace /\ HandApart /\ DrainedStaysEmpty
  BY DEF IInv, Places
<1>2. ASSUME NEW v \in Workers, RecoverSkip(w, v) \/ RecoverClaim(w, v)
      PROVE  Unmoved
  BY <1>2 DEF RecoverSkip, RecoverClaim, Unmoved
<1>3. CASE RecoverPop(w)
  <2>1. /\ victim[w] \in Workers
        /\ hand'[w] \in Held(victim[w])
        /\ \A v \in Workers :
             Held(v)' = IF v = victim[w] THEN Held(v) \ {hand'[w]} ELSE Held(v)
    BY <1>1, <1>3, PopEffect
  <2>2. /\ Queued' = Queued /\ hand[w] = None
        /\ \A v \in Workers \ {w} : hand'[v] = hand[v]
    BY <1>1, <1>3 DEF RecoverPop, TypeOK, Queued
  <2>3. QED BY <2>1, <2>2, ConstantsAssumption DEF Somewhere
<1>4. CASE RecoverPush(w)
  <2>1. Queued' = Queued \cup {hand[w]}
    BY <1>1, <1>4, PushEffect
  <2>2. /\ \A v \in Workers : Held(v)' = Held(v)
        /\ \A v \in Workers \ {w} : hand'[v] = hand[v]
    BY <1>1, <1>4 DEF RecoverPush, TypeOK, Held
  <2>3. QED BY <2>1, <2>2 DEF Somewhere
<1>5. ASSUME RecoverDelete(w) PROVE Unmoved
  <2>1. processing' = processing
    BY <1>1, <1>5 DEF RecoverDelete, DrainedStaysEmpty, TypeOK
  <2>2. QED BY <1>5, <2>1 DEF RecoverDelete, Unmoved
<1>6. ASSUME RecoverDrained(w) \/ RecoverDone(w) PROVE Unmoved
  BY <1>6 DEF RecoverDrained, RecoverDone, Unmoved
<1>7. QED
  BY <1>2, <1>3, <1>4, <1>5, <1>6, UnmovedSomewhere DEF Recover

\* Every step but a torn recovery leaves a token somewhere, unless the worker
\* that acknowledges it takes it away.
LEMMA SomewhereStep ==
  ASSUME IInv, "recovery_torn" \notin Faults, [Next]_vars,
         NEW j \in Jobs, Somewhere(j)
  PROVE  Somewhere(j)' \/ \E w \in Workers : pc[w] = "ack" /\ reserved[w] = j
<1> USE DEF Goto, redisVars, recoveryVars, historyVars
<1>1. TypeOK /\ OnePlace /\ AllSent
  BY DEF IInv, Places
<1>2. ASSUME NEW i \in Jobs, Enqueue(i) PROVE Somewhere(j)'
  <2>1. Queued' = Queued \cup {i}
    BY <1>1, <1>2, EnqueueEffect
  <2>2. hand' = hand /\ \A v \in Workers : Held(v)' = Held(v)
    BY <1>2 DEF Enqueue, Held
  <2>3. QED BY <2>1, <2>2 DEF Somewhere
<1>3. ASSUME NEW w \in Workers, MainLoop(w), ~(pc[w] = "ack" /\ reserved[w] = j)
      PROVE  Somewhere(j)'
  <2>1. ASSUME StartWorker(w) \/ Loop(w) \/ Exit(w) \/ ReserveTimeout(w)
        PROVE  Unmoved
    BY <2>1 DEF StartWorker, Loop, Exit, ReserveTimeout, Unmoved
  <2>2. CASE Reserve(w) \/ ReserveMalformed(w)
    BY <2>2, TakeSomewhere DEF Reserve, ReserveMalformed
  <2>3. CASE Ack(w)
    BY <1>3, <2>3, ReceiptSomewhere DEF Ack
  <2>4. CASE Requeue(w)
    BY <2>4, PutBackSomewhere DEF Requeue, Owns, OwnerPCs
  <2>5. QED BY <1>3, <2>1, <2>2, <2>3, <2>4, UnmovedSomewhere DEF MainLoop
<1>4. ASSUME NEW w \in Workers, JobDone(w) \/ JobRaises(w) \/ Beat(w) \/ Expire(w)
      PROVE  Unmoved
  BY <1>4 DEF JobDone, JobRaises, Beat, Expire, Unmoved
<1>5. ASSUME NEW w \in Workers, Fault(w), ~(pc[w] = "ack" /\ reserved[w] = j)
      PROVE  Somewhere(j)'
  <2>1. ~RecoverAbort(w)
    BY DEF RecoverAbort
  <2>2. CASE ReserveReplyLost(w)
    BY <2>2, TakeSomewhere DEF ReserveReplyLost
  <2>3. CASE AckFails(w)
    BY <1>5, <2>3, ReceiptSomewhere, UnmovedSomewhere DEF AckFails, Unmoved
  <2>4. CASE RequeueFails(w)
    BY <2>4, PutBackSomewhere, UnmovedSomewhere
       DEF RequeueFails, Owns, OwnerPCs, Unmoved
  <2>5. ASSUME StopSignal(w) PROVE Unmoved
    BY <2>5 DEF StopSignal, Unmoved
  <2>6. ASSUME Crash(w) PROVE Unmoved
    BY <1>1, <2>6 DEF Crash, TypeOK, Unmoved
  <2>7. QED
    BY <1>5, <2>1, <2>2, <2>3, <2>4, <2>5, <2>6, UnmovedSomewhere DEF Fault
<1>6. ASSUME UNCHANGED vars PROVE Unmoved
  BY <1>6 DEF vars, Unmoved
<1>7. QED
  BY <1>2, <1>3, <1>4, <1>5, <1>6, RecoverSomewhere, UnmovedSomewhere
     DEF Next, WorkerStep

\* What a step adds to what was sent it puts in the queue.
LEMMA SentStep ==
  ASSUME IInv, [Next]_vars
  PROVE  completed \subseteq completed' /\ ToSet(sent') \subseteq ToSet(sent) \cup Queued'
<1>1. ASSUME NEW i \in Jobs, Enqueue(i) PROVE ToSet(sent') \subseteq ToSet(sent) \cup Queued'
  BY <1>1, EnqueueEffect DEF IInv, Places
<1>2. /\ (\E i \in Jobs : Enqueue(i)) \/ sent' = sent
      /\ completed \subseteq completed'
  <2> DEFINE Kept == sent' = sent /\ completed \subseteq completed'
  <2>1. ASSUME NEW w \in Workers, Recover(w) PROVE Kept
    BY <2>1 DEF Recover, historyVars, RecoverSkip, RecoverClaim, RecoverPop,
                RecoverPush, RecoverDrained, RecoverDelete, RecoverDone
  <2>2. ASSUME NEW w \in Workers, MainLoop(w) \/ JobDone(w) \/ JobRaises(w)
        PROVE  Kept
    <3>1. ASSUME Loop(w) \/ Exit(w) \/ Ack(w) \/ Requeue(w) \/ StartWorker(w) PROVE Kept
      BY <3>1 DEF historyVars, Loop, Exit, Ack, Requeue, StartWorker
    <3>2. ASSUME Reserve(w) \/ ReserveMalformed(w) \/ ReserveTimeout(w) PROVE Kept
      BY <3>2 DEF historyVars, Reserve, ReserveMalformed, ReserveTimeout
    <3>3. ASSUME JobDone(w) \/ JobRaises(w) PROVE Kept
      BY <3>3 DEF historyVars, JobDone, JobRaises
    <3> HIDE DEF Kept
    <3>4. QED BY <2>2, <3>1, <3>2, <3>3 DEF MainLoop
  <2>3. ASSUME NEW w \in Workers, StartWorker(w) \/ Beat(w) \/ Expire(w) PROVE Kept
    BY <2>3 DEF historyVars, StartWorker, Beat, Expire
  <2>4. ASSUME NEW w \in Workers, Fault(w) PROVE Kept
    BY <2>4 DEF Fault, historyVars, Expire, RecoverAbort, ReserveReplyLost, AckFails,
                RequeueFails, StopSignal, Crash
  <2>5. ASSUME NEW i \in Jobs, Enqueue(i) PROVE completed' = completed
    BY <2>5 DEF Enqueue
  <2>6. (UNCHANGED vars) => Kept
    BY DEF vars, historyVars
  <2> HIDE DEF Kept
  <2>7. (\E i \in Jobs : Enqueue(i)) \/ Kept
    BY <2>1, <2>2, <2>3, <2>4, <2>6 DEF Next, WorkerStep
  <2>8. QED BY <2>5, <2>7 DEF Kept
<1>3. QED BY <1>1, <1>2

\* Every step but a torn recovery keeps every unfinished job somewhere.
LEMMA NothingLostStep ==
  ASSUME IInv, NothingLost, "recovery_torn" \notin Faults, [Next]_vars
  PROVE  NothingLost'
<1>1. \A j \in ToSet(sent) \ completed : Somewhere(j)
  BY DEF NothingLost, InRedis, Somewhere, Queued, Held
<1>2. ASSUME NEW j \in ToSet(sent') \ completed' PROVE Somewhere(j)'
  <2>1. CASE j \in ToSet(sent)
    <3>1. j \in Jobs
      BY <2>1, ToSetIn DEF IInv, TypeOK
    <3>2. j \notin completed
      BY SentStep
    <3>3. ~\E w \in Workers : pc[w] = "ack" /\ reserved[w] = j
      BY <3>2 DEF IInv, AckedIsCompleted
    <3>4. QED BY <1>1, <2>1, <3>1, <3>2, <3>3, SomewhereStep
  <2>2. CASE j \notin ToSet(sent)
    BY <2>2, SentStep DEF Somewhere
  <2>3. QED BY <2>1, <2>2
<1>3. QED BY <1>2 DEF NothingLost, InRedis, Somewhere, Queued, Held

(* A crash at any other point, a lost reply or a job that raises loses no  *)
(* job: until process_job has returned from it, it is in the queue, in a   *)
(* worker's list, or between the two commands that move it back.           *)
THEOREM NothingLostHolds ==
  ASSUME HeartbeatsKept, "recovery_torn" \notin Faults
  PROVE  Spec => []NothingLost
<1>1. Init => NothingLost
  BY EmptyList DEF Init, NothingLost
<1>2. IInv /\ NothingLost /\ [Next]_vars => NothingLost'
  BY NothingLostStep
<1>3. QED BY <1>1, <1>2, Inductive, PTL DEF Spec

-----------------------------------------------------------------------------
(***************************************************************************)
(* The queue implements the pool of jobs.  Steps that only move tokens     *)
(* between lists stutter; a worker that lets its job go without having     *)
(* acknowledged it settles it or returns it, depending on whether Redis    *)
(* still has it, and NothingLost says it may only be missing when it ran   *)
(* to its end.                                                             *)
(***************************************************************************)

\* As long as Redis keeps what it has and workers what they hold, the pool
\* does not change.
LEMMA SamePool ==
  ASSUME UNCHANGED <<sent, reserved, completed>>,
         \A j \in ToSet(sent) : ~InHand(j) => (Somewhere(j)' <=> Somewhere(j))
  PROVE  UNCHANGED Pool!poolVars
<1>1. \A j : InHand(j)' <=> InHand(j)
  BY DEF InHand
<1>2. \A j : j \in Waiting <=> j \in ToSet(sent) /\ ~InHand(j) /\ Somewhere(j)
  BY DEF Waiting, InRedis, Somewhere, Queued, Held
<1>3. \A j : j \in Waiting' <=> j \in ToSet(sent') /\ ~InHand(j)' /\ Somewhere(j)'
  BY DEF Waiting, InRedis, Somewhere, Queued, Held
<1>4. Waiting' = Waiting
  BY <1>1, <1>2, <1>3
<1>5. QED BY <1>4 DEF Pool!poolVars

\* No step but recovery and its end touches what lists and hands contain.
LEMMA UntouchedPool ==
  ASSUME UNCHANGED <<queue, processing, hand, sent, reserved, completed>>
  PROVE  UNCHANGED Pool!poolVars
<1>1. \A j : Somewhere(j)' <=> Somewhere(j)
  BY DEF Somewhere, Queued, Held
<1>2. QED BY <1>1, SamePool

\* A worker lets go of its job: acknowledged or not, the pool takes a step.
LEMMA ReleaseInPool ==
  ASSUME IInv, NEW w \in Workers, NEW x \in Jobs, reserved[w] = x,
         reserved' = [reserved EXCEPT ![w] = None],
         UNCHANGED <<sent, completed>>,
         Somewhere(x)' \/ x \in completed,
         \A j \in ToSet(sent) : j # x => (Somewhere(j)' <=> Somewhere(j))
  PROVE  Pool!Settle(w) \/ Pool!Return(w)
<1>1. /\ x # None
      /\ x \in ToSet(sent)
      /\ \A v \in Workers \ {w} : reserved[v] # x
      /\ \A v \in Workers : reserved'[v] = IF v = w THEN None ELSE reserved[v]
  BY ConstantsAssumption DEF IInv, TypeOK, Places, AllSent, OwnerApart
<1>2. \A j \in ToSet(sent) : j # None
  BY ToSetIn, ConstantsAssumption DEF IInv, TypeOK
<1>3. ASSUME NEW j \in ToSet(sent), j # x PROVE InHand(j)' <=> InHand(j)
  BY <1>1, <1>2, <1>3 DEF InHand
<1>4. InHand(x) /\ ~InHand(x)'
  BY <1>1 DEF InHand
<1>5. \A j : j \in Waiting <=> j \in ToSet(sent) /\ ~InHand(j) /\ Somewhere(j)
  BY DEF Waiting, InRedis, Somewhere, Queued, Held
<1>6. \A j : j \in Waiting' <=> j \in ToSet(sent') /\ ~InHand(j)' /\ Somewhere(j)'
  BY DEF Waiting, InRedis, Somewhere, Queued, Held
<1>7. \A j : j # x => (j \in Waiting' <=> j \in Waiting)
  BY <1>3, <1>5, <1>6
<1>8. x \notin Waiting /\ (x \in Waiting' <=> Somewhere(x)')
  BY <1>1, <1>4, <1>5, <1>6
<1>9. CASE Somewhere(x)'
  <2>1. Waiting' = Waiting \cup {x}
    BY <1>7, <1>8, <1>9
  <2>2. QED BY <1>1, <2>1 DEF Pool!Return
<1>10. CASE ~Somewhere(x)'
  <2>1. Waiting' = Waiting
    BY <1>7, <1>8, <1>10
  <2>2. QED BY <1>10, <2>1 DEF Pool!Settle
<1>11. QED BY <1>9, <1>10

\* reserve delivers the job at the head of the queue.
LEMMA DeliverInPool ==
  ASSUME IInv, NEW w \in Workers, Take(w), NEW t \in Jobs, t = Head(queue),
         reserved' = [reserved EXCEPT ![w] = t],
         UNCHANGED <<hand, sent, completed>>
  PROVE  Pool!Deliver(w, t)
<1>1. /\ t \in Queued
      /\ Queued' = Queued \ {t}
      /\ \A v \in Workers :
           Held(v)' = IF v = w THEN Held(v) \cup {t} ELSE Held(v)
  BY TakeEffect DEF IInv, Places
<1>2. reserved[w] = None
  BY DEF IInv, Take, TypeOK, Owns, OwnerPCs
<1>3. t \in ToSet(sent) /\ ~InHand(t)
  BY <1>1, ConstantsAssumption DEF IInv, Places, AllSent, OwnerApart, InHand
<1>4. \A v \in Workers : reserved'[v] = IF v = w THEN t ELSE reserved[v]
  BY DEF IInv, TypeOK
<1>5. \A j \in ToSet(sent) : j # None
  BY ToSetIn, ConstantsAssumption DEF IInv, TypeOK
<1>6. ASSUME NEW j \in ToSet(sent), j # t PROVE InHand(j)' <=> InHand(j)
  BY <1>2, <1>4, <1>5, <1>6 DEF InHand
<1>7. InHand(t)'
  BY <1>4 DEF InHand
<1>8. \A j \in ToSet(sent) : j # t => (Somewhere(j)' <=> Somewhere(j))
  BY <1>1 DEF Somewhere
<1>9. \A j : j \in Waiting <=> j \in ToSet(sent) /\ ~InHand(j) /\ Somewhere(j)
  BY DEF Waiting, InRedis, Somewhere, Queued, Held
<1>10. \A j : j \in Waiting' <=> j \in ToSet(sent') /\ ~InHand(j)' /\ Somewhere(j)'
  BY DEF Waiting, InRedis, Somewhere, Queued, Held
<1>11. t \in Waiting
  BY <1>1, <1>3, <1>9 DEF Somewhere
<1>12. \A j : j \in Waiting' <=> j \in Waiting /\ j # t
  BY <1>6, <1>7, <1>8, <1>9, <1>10
<1>13. Waiting' = Waiting \ {t}
  BY <1>12
<1>14. QED BY <1>2, <1>11, <1>13 DEF Pool!Deliver

\* enqueue submits a job.
LEMMA SubmitInPool ==
  ASSUME IInv, NEW j \in Jobs, Enqueue(j)
  PROVE  Pool!Submit(j)
<1>1. /\ Queued' = Queued \cup {j}
      /\ ToSet(sent') = ToSet(sent) \cup {j}
  BY EnqueueEffect DEF IInv, Places
<1>2. /\ hand' = hand /\ reserved' = reserved /\ completed' = completed
      /\ j \notin ToSet(sent)
      /\ \A v \in Workers : Held(v)' = Held(v)
  BY DEF Enqueue, recoveryVars, Held
<1>3. ~InHand(j) /\ \A k : InHand(k)' <=> InHand(k)
  BY <1>2, ConstantsAssumption DEF IInv, Places, AllSent, InHand
<1>4. Somewhere(j)' /\ \A k \in ToSet(sent) : Somewhere(k)' <=> Somewhere(k)
  BY <1>1, <1>2 DEF Somewhere
<1>5. \A k : k \in Waiting <=> k \in ToSet(sent) /\ ~InHand(k) /\ Somewhere(k)
  BY DEF Waiting, InRedis, Somewhere, Queued, Held
<1>6. \A k : k \in Waiting' <=> k \in ToSet(sent') /\ ~InHand(k)' /\ Somewhere(k)'
  BY DEF Waiting, InRedis, Somewhere, Queued, Held
<1>7. Waiting' = Waiting \cup {j}
  BY <1>1, <1>2, <1>3, <1>4, <1>5, <1>6
<1>8. QED BY <1>1, <1>2, <1>7 DEF Pool!Submit

\* A job popped by recovery is in its hand, and pushed back from there.
LEMMA RecoverInPool ==
  ASSUME IInv, NEW w \in Workers, Recover(w)
  PROVE  UNCHANGED Pool!poolVars
<1> USE DEF Goto, redisVars, recoveryVars, historyVars
<1>1. TypeOK /\ OnePlace /\ HandApart /\ DrainedStaysEmpty
  BY DEF IInv, Places
<1>2. ASSUME NEW v \in Workers, RecoverSkip(w, v) \/ RecoverClaim(w, v)
      PROVE  UNCHANGED Pool!poolVars
  BY <1>2, UntouchedPool DEF RecoverSkip, RecoverClaim
<1>3. CASE RecoverPop(w)
  <2>1. PICK t \in Jobs : t = hand'[w]
    BY <1>1, <1>3, PopEffect
  <2>2. /\ victim[w] \in Workers
        /\ t \in Held(victim[w])
        /\ \A v \in Workers :
             Held(v)' = IF v = victim[w] THEN Held(v) \ {t} ELSE Held(v)
    BY <1>1, <1>3, <2>1, PopEffect
  <2>3. /\ Queued' = Queued /\ hand[w] = None
        /\ UNCHANGED <<sent, reserved, completed>>
        /\ \A v \in Workers \ {w} : hand'[v] = hand[v]
    BY <1>1, <1>3 DEF RecoverPop, TypeOK, Queued
  <2>4. ASSUME NEW j \in Jobs PROVE Somewhere(j)' <=> Somewhere(j)
    BY <2>1, <2>2, <2>3, ConstantsAssumption DEF Somewhere
  <2>5. ToSet(sent) \subseteq Jobs
    BY <1>1, ToSetIn DEF TypeOK
  <2>6. QED BY <2>3, <2>4, <2>5, SamePool
<1>4. CASE RecoverPush(w)
  <2>1. PICK t \in Jobs : t = hand[w]
    BY <1>1, <1>4 DEF RecoverPush, TypeOK
  <2>2. Queued' = Queued \cup {t}
    BY <1>1, <1>4, <2>1, PushEffect
  <2>3. /\ UNCHANGED <<sent, reserved, completed>>
        /\ \A v \in Workers : Held(v)' = Held(v)
        /\ \A v \in Workers : hand'[v] = IF v = w THEN None ELSE hand[v]
    BY <1>1, <1>4 DEF RecoverPush, TypeOK, Held
  <2>4. ASSUME NEW j \in Jobs PROVE Somewhere(j)' <=> Somewhere(j)
    BY <2>1, <2>2, <2>3, ConstantsAssumption DEF Somewhere
  <2>5. ToSet(sent) \subseteq Jobs
    BY <1>1, ToSetIn DEF TypeOK
  <2>6. QED BY <2>3, <2>4, <2>5, SamePool
<1>5. CASE RecoverDelete(w)
  <2>1. processing' = processing
    BY <1>1, <1>5 DEF RecoverDelete, DrainedStaysEmpty, TypeOK
  <2>2. QED BY <1>5, <2>1, UntouchedPool DEF RecoverDelete
<1>6. CASE RecoverDrained(w) \/ RecoverDone(w)
  BY <1>6, UntouchedPool DEF RecoverDrained, RecoverDone
<1>7. QED BY <1>2, <1>3, <1>4, <1>5, <1>6 DEF Recover

\* An owner that lets go leaves its job somewhere, or has completed it.
LEMMA OwnerInPool ==
  ASSUME IInv, NothingLost, NEW w \in Workers, Owns(w),
         reserved' = [reserved EXCEPT ![w] = None],
         UNCHANGED <<hand, sent, completed>>,
         \/ UNCHANGED <<queue, processing>>
         \/ PutBack(w)
         \/ pc[w] = "ack" /\ RemoveReceipt(w) /\ UNCHANGED queue
  PROVE  Pool!Settle(w) \/ Pool!Return(w)
<1>1. TypeOK /\ OnePlace /\ OwnerApart
  BY DEF IInv, Places
<1>2. PICK x \in Jobs : reserved[w] = x
  BY <1>1 DEF TypeOK
<1>3. x \in completed \/ Somewhere(x)
  BY <1>1, <1>2, ConstantsAssumption
     DEF IInv, Places, AllSent, NothingLost, InRedis, Somewhere, Queued, Held
<1>4. CASE UNCHANGED <<queue, processing>>
  <2>1. \A j : Somewhere(j)' <=> Somewhere(j)
    BY <1>4 DEF Somewhere, Queued, Held
  <2>2. QED BY <1>2, <1>3, <2>1, ReleaseInPool
<1>5. CASE PutBack(w)
  <2>1. /\ Queued' = Queued \cup {x}
        /\ \A v \in Workers :
             Held(v)' = IF v = w THEN Held(v) \ {x} ELSE Held(v)
    BY <1>1, <1>2, <1>5, PutBackEffect
  <2>2. Somewhere(x)' /\ \A j : j # x => (Somewhere(j)' <=> Somewhere(j))
    BY <2>1 DEF Somewhere
  <2>3. QED BY <1>2, <2>2, ReleaseInPool
<1>6. CASE pc[w] = "ack" /\ RemoveReceipt(w) /\ UNCHANGED queue
  <2>1. /\ Queued' = Queued
        /\ \A v \in Workers :
             Held(v)' = IF v = w THEN Held(v) \ {x} ELSE Held(v)
    BY <1>1, <1>2, <1>6, RemoveReceiptEffect DEF Queued
  <2>2. x \in completed
    BY <1>2, <1>6 DEF IInv, AckedIsCompleted
  <2>3. \A j : j # x => (Somewhere(j)' <=> Somewhere(j))
    BY <2>1 DEF Somewhere
  <2>4. QED BY <1>2, <2>2, <2>3, ReleaseInPool
<1>7. QED BY <1>4, <1>5, <1>6

\* What a reservation that main never sees moves stays in the pool.
LEMMA UnseenInPool ==
  ASSUME IInv, NEW w \in Workers, Take(w),
         UNCHANGED <<hand, sent, reserved, completed>>
  PROVE  UNCHANGED Pool!poolVars
<1>1. PICK t \in Jobs : t = Head(queue)
  BY TakeEffect DEF IInv, Places
<1>2. /\ t \in Queued
      /\ Queued' = Queued \ {t}
      /\ \A v \in Workers :
           Held(v)' = IF v = w THEN Held(v) \cup {t} ELSE Held(v)
  BY <1>1, TakeEffect DEF IInv, Places
<1>3. \A j : Somewhere(j)' <=> Somewhere(j)
  BY <1>2 DEF Somewhere
<1>4. QED BY <1>3, SamePool

\* A receipt removed while the worker still holds its job stays held.
LEMMA FailedAckInPool ==
  ASSUME IInv, NEW w \in Workers, pc[w] = "ack", RemoveReceipt(w),
         UNCHANGED <<queue, hand, sent, reserved, completed>>
  PROVE  UNCHANGED Pool!poolVars
<1>1. TypeOK /\ OnePlace
  BY DEF IInv, Places
<1>2. PICK x \in Jobs : reserved[w] = x
  BY <1>1 DEF TypeOK, Owns, OwnerPCs
<1>3. /\ Queued' = Queued
      /\ \A v \in Workers :
           Held(v)' = IF v = w THEN Held(v) \ {x} ELSE Held(v)
  BY <1>1, <1>2, RemoveReceiptEffect DEF Queued, Owns, OwnerPCs
<1>4. \A j : j # x => (Somewhere(j)' <=> Somewhere(j))
  BY <1>3 DEF Somewhere
<1>5. InHand(x)
  BY <1>2 DEF InHand
<1>6. QED BY <1>4, <1>5, SamePool

\* Each step of the queue is a step of the pool, or none.
LEMMA PoolStep ==
  ASSUME IInv, NothingLost, "recovery_torn" \notin Faults, [Next]_vars
  PROVE  [Pool!PoolNext]_(Pool!poolVars)
<1> USE DEF Goto, redisVars, recoveryVars, historyVars
<1>1. TypeOK
  BY DEF IInv
<1>2. ASSUME NEW j \in Jobs, Enqueue(j) PROVE Pool!PoolNext
  BY <1>2, SubmitInPool DEF Pool!PoolNext
<1>3. ASSUME NEW w \in Workers, Recover(w) PROVE UNCHANGED Pool!poolVars
  BY <1>3, RecoverInPool
<1>4. ASSUME NEW w \in Workers, MainLoop(w)
      PROVE  Pool!PoolNext \/ UNCHANGED Pool!poolVars
  <2>1. CASE StartWorker(w) \/ Loop(w) \/ Exit(w) \/ ReserveTimeout(w)
    BY <2>1, UntouchedPool DEF StartWorker, Loop, Exit, ReserveTimeout
  <2>2. CASE Reserve(w)
    <3>1. Take(w)
      BY <2>2 DEF Reserve
    <3>2. PICK t \in Jobs : t = Head(queue)
      BY <3>1, TakeEffect DEF IInv, Places
    <3>3. Pool!Deliver(w, t)
      BY <2>2, <3>1, <3>2, DeliverInPool DEF Reserve
    <3>4. QED BY <3>3 DEF Pool!PoolNext
  <2>3. CASE ReserveMalformed(w)
    BY <2>3, UnseenInPool DEF ReserveMalformed
  <2>4. CASE Ack(w)
    <3>1. Owns(w)
      BY <2>4 DEF Ack, Owns, OwnerPCs
    <3>2. Pool!Settle(w) \/ Pool!Return(w)
      BY <2>4, <3>1, OwnerInPool DEF Ack
    <3>3. QED BY <3>2 DEF Pool!PoolNext
  <2>5. CASE Requeue(w)
    <3>1. Owns(w)
      BY <2>5 DEF Requeue, Owns, OwnerPCs
    <3>2. Pool!Settle(w) \/ Pool!Return(w)
      BY <2>5, <3>1, OwnerInPool DEF Requeue
    <3>3. QED BY <3>2 DEF Pool!PoolNext
  <2>6. QED BY <1>4, <2>1, <2>2, <2>3, <2>4, <2>5 DEF MainLoop
<1>5. ASSUME NEW w \in Workers, JobDone(w) PROVE Pool!PoolNext
  <2>1. reserved[w] # None
    BY <1>1, <1>5 DEF JobDone, TypeOK, Owns, OwnerPCs
  <2>2. Waiting' = Waiting
    BY <1>5 DEF JobDone, Waiting, InHand, InRedis
  <2>3. Pool!Complete(w)
    BY <1>5, <2>1, <2>2 DEF JobDone, Pool!Complete
  <2>4. QED BY <2>3 DEF Pool!PoolNext
<1>6. ASSUME NEW w \in Workers, JobRaises(w) \/ Beat(w) \/ Expire(w)
      PROVE  UNCHANGED Pool!poolVars
  BY <1>6, UntouchedPool DEF JobRaises, Beat, Expire
<1>7. ASSUME NEW w \in Workers, Fault(w)
      PROVE  Pool!PoolNext \/ UNCHANGED Pool!poolVars
  <2>1. ~RecoverAbort(w)
    BY DEF RecoverAbort
  <2>2. CASE ReserveReplyLost(w)
    BY <2>2, UnseenInPool DEF ReserveReplyLost
  <2>3. CASE AckFails(w)
    BY <2>3, UntouchedPool, FailedAckInPool DEF AckFails
  <2>4. CASE RequeueFails(w)
    <3>1. Owns(w)
      BY <2>4 DEF RequeueFails, Owns, OwnerPCs
    <3>2. Pool!Settle(w) \/ Pool!Return(w)
      BY <2>4, <3>1, OwnerInPool DEF RequeueFails
    <3>3. QED BY <3>2 DEF Pool!PoolNext
  <2>5. CASE StopSignal(w)
    BY <2>5, UntouchedPool DEF StopSignal
  <2>6. CASE Crash(w)
    <3>1. hand' = hand
      BY <1>1, <2>6 DEF Crash, TypeOK
    <3>2. CASE Owns(w)
      <4>1. Pool!Settle(w) \/ Pool!Return(w)
        BY <2>6, <3>1, <3>2, OwnerInPool DEF Crash
      <4>2. QED BY <4>1 DEF Pool!PoolNext
    <3>3. CASE ~Owns(w)
      <4>1. reserved' = reserved
        BY <1>1, <2>6, <3>3 DEF Crash, TypeOK
      <4>2. QED BY <2>6, <3>1, <4>1, UntouchedPool DEF Crash
    <3>4. QED BY <3>2, <3>3
  <2>7. QED BY <1>7, <2>1, <2>2, <2>3, <2>4, <2>5, <2>6 DEF Fault
<1>8. CASE UNCHANGED vars
  BY <1>8, UntouchedPool DEF vars
<1>9. QED
  BY <1>2, <1>3, <1>4, <1>5, <1>6, <1>7, <1>8 DEF Next, WorkerStep

(* The promise of the queue: while heartbeats are kept and no recovery is  *)
(* torn, what the lists, the heartbeats, recovery and the retries do is an *)
(* at-least-once delivery of each job, to one worker at a time, and final  *)
(* once the worker has acknowledged it.                                    *)
THEOREM ImplementsPoolHolds ==
  ASSUME HeartbeatsKept, "recovery_torn" \notin Faults
  PROVE  Spec => ImplementsPool
<1>1. Init => Pool!PoolInit
  <2>1. ASSUME Init PROVE Waiting = {} /\ ToSet(sent) = {}
    BY <2>1, EmptyList DEF Init, Waiting
  <2>2. QED BY <2>1 DEF Init, Pool!PoolInit
<1>2. IInv /\ NothingLost /\ [Next]_vars => [Pool!PoolNext]_(Pool!poolVars)
  BY PoolStep
<1>3. QED
  BY <1>1, <1>2, Inductive, NothingLostHolds, PTL
     DEF Spec, ImplementsPool, Pool!PoolSpec
-----------------------------------------------------------------------------
(***************************************************************************)
(* The order of deliveries, under every fault.  The queue is a run of      *)
(* tokens that were delivered before, and behind them, in the order of     *)
(* their enqueueing, those that never were.                                *)
(***************************************************************************)

\* What a worker has, or has in its list, was delivered.
DeliveredIsTaken ==
  \A w \in Workers :
    /\ Held(w) \subseteq taken
    /\ reserved[w] # None => reserved[w] \in taken
    /\ hand[w] # None => hand[w] \in taken

\* The first f tokens sent are those delivered, and the others end the queue,
\* after r tokens that came back.
Split(f, r) ==
  /\ Len(queue) - r = Len(sent) - f
  /\ \A k \in 1..Len(sent) : sent[k] \in taken <=> k <= f
  /\ \A k \in 1..r : queue[k] \in taken
  /\ \A k \in 1..(Len(sent) - f) : queue[r + k] = sent[f + k]

FreshWaitInOrder == \E f \in 0..Len(sent), r \in 0..Len(queue) : Split(f, r)

OrderInv ==
  /\ TypeOK
  /\ NoRepeat(sent) /\ taken \subseteq ToSet(sent)
  /\ DeliveredIsTaken
  /\ FreshWaitInOrder

LEMMA InitOrder == Init => OrderInv
<1> SUFFICES ASSUME Init PROVE OrderInv
  OBVIOUS
<1>1. TypeOK
  BY InitType
<1>2. NoRepeat(sent) /\ taken \subseteq ToSet(sent) /\ DeliveredIsTaken
  BY EmptyList DEF Init, DeliveredIsTaken, Held
<1>3. Len(sent) = 0 /\ Len(queue) = 0
  BY DEF Init
<1>4. Split(0, 0)
  BY <1>3 DEF Split
<1>5. FreshWaitInOrder
  BY <1>3, <1>4 DEF FreshWaitInOrder
<1>6. QED BY <1>1, <1>2, <1>5 DEF OrderInv

\* Taking a token off a list leaves elements of the list.
LEMMA TailWithin ==
  ASSUME NEW S, NEW s \in Seq(S), s # <<>>
  PROVE  ToSet(Tail(s)) \subseteq ToSet(s)
<1>1. /\ Len(s) \in Nat \ {0}
      /\ DOMAIN s = 1..Len(s)
      /\ DOMAIN Tail(s) = 1..(Len(s) - 1)
      /\ \A k \in 1..(Len(s) - 1) : Tail(s)[k] = s[k + 1] /\ k + 1 \in 1..Len(s)
  OBVIOUS
<1>2. QED BY <1>1 DEF ToSet

LEMMA LremWithin ==
  ASSUME NEW S, NEW s \in Seq(S), NEW t
  PROVE  ToSet(Lrem(s, t)) \subseteq ToSet(s)
<1>1. CASE t \notin ToSet(s)
  BY <1>1 DEF Lrem
<1>2. CASE t \in ToSet(s)
  <2> DEFINE i == CHOOSE k \in 1..Len(s) :
                    s[k] = t /\ \A m \in 1..Len(s) : s[m] = t => m <= k
             r == [k \in 1..(Len(s) - 1) |-> IF k < i THEN s[k] ELSE s[k + 1]]
  <2>1. Len(s) \in Nat \ {0} /\ DOMAIN s = 1..Len(s)
    BY <1>2 DEF ToSet
  <2>2. Lrem(s, t) = r
    BY <1>2 DEF Lrem
  <2> HIDE DEF i
  <2>3. \A k \in 1..(Len(s) - 1) : k \in DOMAIN s /\ k + 1 \in DOMAIN s
    BY <2>1
  <2>4. \A k \in DOMAIN r : r[k] \in ToSet(s)
    BY <2>3 DEF ToSet
  <2> HIDE DEF r
  <2>5. QED BY <2>2, <2>4 DEF ToSet
<1>3. QED BY <1>1, <1>2

-----------------------------------------------------------------------------
\* enqueue adds a fresh token behind the others.
LEMMA EnqueueInOrder ==
  ASSUME OrderInv, NEW j \in Jobs, Enqueue(j)
  PROVE  NoRepeat(sent)' /\ (taken \subseteq ToSet(sent))' /\ FreshWaitInOrder'
<1>1. /\ queue \in Seq(Jobs) /\ sent \in Seq(Jobs)
      /\ j \notin ToSet(sent) /\ j \notin taken
      /\ queue' = Append(queue, j) /\ sent' = Append(sent, j) /\ taken' = taken
  BY DEF OrderInv, TypeOK, Enqueue
<1>2. NoRepeat(sent') /\ ToSet(sent') = ToSet(sent) \cup {j}
  BY <1>1, AppendElements DEF OrderInv
<1>3. /\ Len(queue) \in Nat /\ Len(sent) \in Nat
      /\ Len(queue') = Len(queue) + 1 /\ Len(sent') = Len(sent) + 1
      /\ \A k \in 1..Len(queue) : queue'[k] = queue[k]
      /\ \A k \in 1..Len(sent) : sent'[k] = sent[k]
      /\ queue'[Len(queue) + 1] = j /\ sent'[Len(sent) + 1] = j
  BY <1>1
<1>4. PICK f \in 0..Len(sent), r \in 0..Len(queue) : Split(f, r)
  BY DEF OrderInv, FreshWaitInOrder
<1>5. f \in 0..Len(sent') /\ r \in 0..Len(queue')
  BY <1>3
<1>6. Len(queue') - r = Len(sent') - f
  <2>1. Len(queue) - r = Len(sent) - f
    BY <1>4 DEF Split
  <2>2. QED BY <1>3, <2>1
<1>7. ASSUME NEW k \in 1..Len(sent')
      PROVE  sent'[k] \in taken' <=> k <= f
  <2>1. CASE k \in 1..Len(sent)
    BY <1>1, <1>3, <1>4, <2>1 DEF Split
  <2>2. CASE k = Len(sent) + 1
    BY <1>1, <1>3, <2>2
  <2>3. QED BY <1>3, <2>1, <2>2
<1>8. ASSUME NEW k \in 1..r
      PROVE  queue'[k] \in taken'
  BY <1>1, <1>3, <1>4 DEF Split
<1>9. ASSUME NEW k \in 1..(Len(sent') - f)
      PROVE  queue'[r + k] = sent'[f + k]
  <2>1. CASE k \in 1..(Len(sent) - f)
    <3>1. r + k \in 1..Len(queue) /\ f + k \in 1..Len(sent)
      BY <1>3, <1>4, <2>1 DEF Split
    <3>2. QED BY <1>3, <1>4, <2>1, <3>1 DEF Split
  <2>2. CASE k = Len(sent) + 1 - f
    <3>1. Len(queue) - r = Len(sent) - f /\ Len(queue) \in Nat /\ Len(sent) \in Nat
      BY <1>3, <1>4 DEF Split
    <3>2. r + k = Len(queue) + 1 /\ f + k = Len(sent) + 1
      BY <2>2, <3>1
    <3>3. QED BY <1>3, <3>2
  <2>3. QED BY <1>3, <2>1, <2>2
<1>10. Split(f, r)'
  BY <1>6, <1>7, <1>8, <1>9 DEF Split
<1>11. QED BY <1>1, <1>2, <1>5, <1>10 DEF OrderInv, FreshWaitInOrder

\* BRPOPLPUSH takes a token that came back, or else the next fresh one.
LEMMA TakeInOrder ==
  ASSUME OrderInv, NEW w \in Workers, Take(w), sent' = sent
  PROVE  /\ Head(queue) \in taken'
         /\ (taken \subseteq ToSet(sent))'
         /\ FreshWaitInOrder'
<1> DEFINE t == Head(queue)
<1>1. /\ queue \in Seq(Jobs) /\ sent \in Seq(Jobs) /\ queue # <<>>
      /\ queue' = Tail(queue) /\ taken' = taken \cup {t}
      /\ NoRepeat(sent) /\ taken \subseteq ToSet(sent)
  BY DEF OrderInv, TypeOK, Take
<1>2. /\ Len(queue) \in Nat \ {0} /\ Len(sent) \in Nat
      /\ t = queue[1]
      /\ Len(queue') = Len(queue) - 1
      /\ \A k \in 1..(Len(queue) - 1) : queue'[k] = queue[k + 1]
      /\ DOMAIN sent = 1..Len(sent)
  BY <1>1
<1>3. PICK f \in 0..Len(sent), r \in 0..Len(queue) : Split(f, r)
  BY DEF OrderInv, FreshWaitInOrder
<1> HIDE DEF t
<1>4. CASE r > 0
  <2>1. t \in taken /\ taken' = taken
    BY <1>1, <1>2, <1>3, <1>4 DEF Split
  <2>2. f \in 0..Len(sent') /\ r - 1 \in 0..Len(queue')
    BY <1>2, <1>4
  <2>3. /\ Len(queue') - (r - 1) = Len(sent') - f
        /\ \A k \in 1..Len(sent') : sent'[k] \in taken' <=> k <= f
    BY <1>2, <1>3, <1>4, <2>1 DEF Split
  <2>4. ASSUME NEW k \in 1..(r - 1)
        PROVE  queue'[k] \in taken'
    <3>1. k \in 1..(Len(queue) - 1) /\ k + 1 \in 1..r
      BY <1>2, <1>4
    <3>2. QED BY <1>2, <1>3, <2>1, <3>1 DEF Split
  <2>5. ASSUME NEW k \in 1..(Len(sent') - f)
        PROVE  queue'[(r - 1) + k] = sent'[f + k]
    <3>1. (r - 1) + k \in 1..(Len(queue) - 1) /\ ((r - 1) + k) + 1 = r + k
      BY <1>2, <1>3, <1>4 DEF Split
    <3>2. queue'[(r - 1) + k] = queue[r + k]
      BY <1>2, <3>1
    <3>3. QED BY <1>3, <3>2 DEF Split
  <2>6. Split(f, r - 1)'
    BY <2>3, <2>4, <2>5 DEF Split
  <2>7. FreshWaitInOrder'
    BY <2>2, <2>6 DEF FreshWaitInOrder
  <2>8. QED BY <1>1, <2>1, <2>7 DEF t
<1>5. CASE r = 0
  <2>1. /\ f + 1 \in 1..Len(sent) /\ Len(queue) = Len(sent) - f
        /\ t = sent[f + 1] /\ t \in ToSet(sent)
    <3>1. Len(queue) - r = Len(sent) - f
      BY <1>3 DEF Split
    <3>2. Len(queue) = Len(sent) - f /\ 1 \in 1..(Len(sent) - f)
      <4>1. Len(queue) \in Nat /\ Len(queue) >= 1 /\ Len(queue) - 0 = Len(queue)
        BY <1>2
      <4>2. Len(queue) = Len(sent) - f
        BY <1>5, <3>1, <4>1
      <4>3. 1 \in 1..Len(queue)
        BY <4>1
      <4>4. QED BY <4>2, <4>3
    <3>3. f + 1 \in 1..Len(sent)
      BY <1>2, <3>2
    <3>4. queue[r + 1] = sent[f + 1] /\ r + 1 = 1
      BY <1>3, <1>5, <3>2 DEF Split
    <3>5. QED BY <1>2, <3>2, <3>3, <3>4 DEF ToSet
  <2>2. f + 1 \in 0..Len(sent') /\ 0 \in 0..Len(queue')
    BY <1>2, <2>1
  <2>3. Len(queue') - 0 = Len(sent') - (f + 1)
    BY <1>2, <2>1
  <2>4. ASSUME NEW k \in 1..Len(sent')
        PROVE  sent'[k] \in taken' <=> k <= f + 1
    <3>1. sent[k] = t <=> k = f + 1
      BY <1>1, <2>1 DEF NoRepeat
    <3>2. sent[k] \in taken <=> k <= f
      BY <1>3 DEF Split
    <3>3. QED BY <1>1, <2>1, <3>1, <3>2
  <2>5. ASSUME NEW k \in 1..(Len(sent') - (f + 1))
        PROVE  queue'[0 + k] = sent'[(f + 1) + k]
    <3>1. /\ k \in 1..(Len(queue) - 1) /\ k + 1 \in 1..(Len(sent) - f)
          /\ 0 + k = k /\ (f + 1) + k = f + (k + 1) /\ r + (k + 1) = k + 1
      BY <1>2, <1>5, <2>1
    <3>2. queue[r + (k + 1)] = sent[f + (k + 1)]
      BY <1>3, <3>1 DEF Split
    <3>3. QED BY <1>2, <3>1, <3>2
  <2>6. Split(f + 1, 0)'
    <3>1. \A k \in 1..0 : queue'[k] \in taken'
      OBVIOUS
    <3>2. QED BY <2>3, <2>4, <2>5, <3>1 DEF Split
  <2>7. FreshWaitInOrder'
    BY <2>2, <2>6 DEF FreshWaitInOrder
  <2>8. QED BY <1>1, <2>1, <2>7 DEF t
<1>6. QED BY <1>4, <1>5

\* RPUSH, of requeue and of recovery, puts a delivered token at the head.
LEMMA PushInOrder ==
  ASSUME OrderInv, NEW x \in taken, queue' = <<x>> \o queue,
         sent' = sent, taken' = taken
  PROVE  FreshWaitInOrder'
<1>1. queue \in Seq(Jobs) /\ sent \in Seq(Jobs) /\ x \in Jobs
  BY DEF OrderInv, TypeOK
<1>2. /\ Len(queue) \in Nat /\ Len(sent) \in Nat
      /\ Len(queue') = Len(queue) + 1
      /\ queue'[1] = x
      /\ \A k \in 2..(Len(queue) + 1) : queue'[k] = queue[k - 1]
  BY <1>1
<1>3. PICK f \in 0..Len(sent), r \in 0..Len(queue) : Split(f, r)
  BY DEF OrderInv, FreshWaitInOrder
<1>4. f \in 0..Len(sent') /\ r + 1 \in 0..Len(queue')
  BY <1>2
<1>5. /\ Len(queue') - (r + 1) = Len(sent') - f
      /\ \A k \in 1..Len(sent') : sent'[k] \in taken' <=> k <= f
  BY <1>2, <1>3 DEF Split
<1>6. ASSUME NEW k \in 1..(r + 1)
      PROVE  queue'[k] \in taken'
  <2>1. CASE k = 1
    BY <1>2, <2>1
  <2>2. CASE k # 1
    <3>1. k \in 2..(Len(queue) + 1) /\ k - 1 \in 1..r
      BY <1>2, <2>2
    <3>2. QED BY <1>2, <1>3, <3>1 DEF Split
  <2>3. QED BY <2>1, <2>2
<1>7. ASSUME NEW k \in 1..(Len(sent') - f)
      PROVE  queue'[(r + 1) + k] = sent'[f + k]
  <2>1. (r + 1) + k \in 2..(Len(queue) + 1) /\ ((r + 1) + k) - 1 = r + k
    BY <1>2, <1>3 DEF Split
  <2>2. queue'[(r + 1) + k] = queue[r + k]
    BY <1>2, <2>1
  <2>3. QED BY <1>3, <2>2 DEF Split
<1>8. Split(f, r + 1)'
  BY <1>5, <1>6, <1>7 DEF Split
<1>9. QED BY <1>4, <1>8 DEF FreshWaitInOrder

-----------------------------------------------------------------------------
\* What the workers have afterwards they had before, or was delivered.
Keeps ==
  /\ taken \subseteq taken'
  /\ \A w \in Workers :
       /\ Held(w)' \subseteq Held(w) \cup taken'
       /\ reserved'[w] \in {reserved[w], None} \cup taken'
       /\ hand'[w] \in {hand[w], None} \cup taken'

\* A step that leaves the queue alone.
Aside == UNCHANGED <<queue, sent, taken>>

LEMMA KeepsDelivered == DeliveredIsTaken /\ Keeps => DeliveredIsTaken'
BY DEF DeliveredIsTaken, Keeps

LEMMA AsideInOrder == FreshWaitInOrder /\ Aside => FreshWaitInOrder'
<1> SUFFICES ASSUME FreshWaitInOrder, Aside PROVE FreshWaitInOrder'
  OBVIOUS
<1>1. queue' = queue /\ sent' = sent /\ taken' = taken
  BY DEF Aside
<1>2. PICK f \in 0..Len(sent), r \in 0..Len(queue) : Split(f, r)
  BY DEF FreshWaitInOrder
<1>3. Split(f, r)'
  BY <1>1, <1>2 DEF Split
<1>4. QED BY <1>1, <1>2, <1>3 DEF FreshWaitInOrder

LEMMA StillKeeps == Still /\ Aside => Keeps
BY DEF Still, Aside, Keeps, Held

LEMMA ReceiptWithin ==
  ASSUME TypeOK, NEW w \in Workers, RemoveReceipt(w)
  PROVE  \A v \in Workers : Held(v)' \subseteq Held(v)
<1>1. ToSet(Lrem(processing[w], reserved[w])) \subseteq ToSet(processing[w])
  BY LremWithin DEF TypeOK
<1>2. \A v \in Workers :
        processing'[v] = IF v = w THEN Lrem(processing[w], reserved[w])
                         ELSE processing[v]
  BY DEF RemoveReceipt, TypeOK
<1>3. QED BY <1>1, <1>2 DEF Held

\* What a step has to do to keep the order.
Orderly == Keeps /\ (taken \subseteq ToSet(sent))' /\ NoRepeat(sent)' /\ FreshWaitInOrder'

LEMMA AsideOrderly == OrderInv /\ Aside /\ Keeps => Orderly
BY AsideInOrder DEF OrderInv, Orderly, Aside

LEMMA TakeOrderly ==
  ASSUME OrderInv, NEW w \in Workers, Take(w), hand' = hand, sent' = sent,
         reserved' \in {reserved, [reserved EXCEPT ![w] = Head(queue)]}
  PROVE  Orderly
<1>1. /\ Head(queue) \in taken' /\ (taken \subseteq ToSet(sent))'
      /\ FreshWaitInOrder'
  BY TakeInOrder
<1>2. ASSUME NEW v \in Workers
      PROVE  Held(v)' \subseteq Held(v) \cup {Head(queue)}
  <2>1. processing[w] \in Seq(Jobs) /\ Head(queue) \in Jobs
    BY TakeType DEF OrderInv, TypeOK
  <2>2. ToSet(Append(processing[w], Head(queue))) = Held(w) \cup {Head(queue)}
    BY <2>1, AppendElements DEF Held
  <2>3. processing'[v] = IF v = w THEN Append(processing[w], Head(queue))
                         ELSE processing[v]
    BY DEF Take, OrderInv, TypeOK
  <2>4. QED BY <2>2, <2>3 DEF Held
<1>3. \A v \in Workers : reserved'[v] \in {reserved[v], Head(queue)}
  BY DEF OrderInv, TypeOK
<1>4. taken \subseteq taken'
  BY DEF Take
<1>5. Keeps
  BY <1>1, <1>2, <1>3, <1>4 DEF Keeps
<1>6. QED BY <1>1, <1>5 DEF Orderly, OrderInv

LEMMA PutBackOrderly ==
  ASSUME OrderInv, NEW w \in Workers, Owns(w), PutBack(w),
         hand' = hand, sent' = sent, taken' = taken,
         \A v \in Workers : reserved'[v] \in {reserved[v], None}
  PROVE  Orderly
<1>1. reserved[w] \in taken
  BY DEF OrderInv, DeliveredIsTaken, TypeOK
<1>2. FreshWaitInOrder'
  BY <1>1, PushInOrder DEF PutBack
<1>3. \A v \in Workers : Held(v)' \subseteq Held(v)
  BY ReceiptWithin DEF PutBack, OrderInv
<1>4. QED BY <1>2, <1>3 DEF Orderly, Keeps, OrderInv

LEMMA RecoverOrderly ==
  ASSUME OrderInv, NEW w \in Workers, Recover(w)
  PROVE  Orderly
<1> USE DEF Goto, redisVars, recoveryVars, historyVars
<1>1. TypeOK /\ DeliveredIsTaken
  BY DEF OrderInv
<1>2. ASSUME NEW v \in Workers, RecoverSkip(w, v) \/ RecoverClaim(w, v)
      PROVE  Aside /\ Keeps
  BY <1>2 DEF RecoverSkip, RecoverClaim, Aside, Keeps, Held
<1>3. ASSUME RecoverPop(w) PROVE Aside /\ Keeps
  <2>1. victim[w] \in Workers /\ processing[victim[w]] \in Seq(Jobs)
    BY <1>1, <1>3 DEF RecoverPop, TypeOK
  <2>2. /\ Head(processing[victim[w]]) \in Held(victim[w])
        /\ ToSet(Tail(processing[victim[w]])) \subseteq Held(victim[w])
    BY <1>3, <2>1, TailElements, TailWithin DEF RecoverPop, Held
  <2>3. \A v \in Workers :
          /\ processing'[v] = IF v = victim[w] THEN Tail(processing[v])
                              ELSE processing[v]
          /\ hand'[v] = IF v = w THEN Head(processing[victim[w]]) ELSE hand[v]
    BY <1>1, <1>3 DEF RecoverPop, TypeOK
  <2>4. Head(processing[victim[w]]) \in taken
    BY <1>1, <2>1, <2>2 DEF DeliveredIsTaken
  <2>5. QED BY <1>3, <2>2, <2>3, <2>4 DEF RecoverPop, Aside, Keeps, Held
<1>4. CASE RecoverPush(w)
  <2>1. hand[w] \in taken
    BY <1>1, <1>4 DEF RecoverPush, TypeOK, DeliveredIsTaken
  <2>2. FreshWaitInOrder'
    BY <1>4, <2>1, PushInOrder DEF RecoverPush
  <2>3. \A v \in Workers : hand'[v] \in {hand[v], None}
    BY <1>1, <1>4 DEF RecoverPush, TypeOK
  <2>4. QED BY <1>4, <2>2, <2>3 DEF RecoverPush, Orderly, Keeps, Held, OrderInv
<1>5. ASSUME RecoverDrained(w) \/ RecoverDone(w) PROVE Aside /\ Keeps
  BY <1>5 DEF RecoverDrained, RecoverDone, Aside, Keeps, Held
<1>6. ASSUME RecoverDelete(w) PROVE Aside /\ Keeps
  <2>1. \A v \in Workers : processing'[v] \in {processing[v], <<>>}
    BY <1>1, <1>6 DEF RecoverDelete, TypeOK
  <2>2. \A v \in Workers : Held(v)' \subseteq Held(v)
    BY <2>1, EmptyList DEF Held
  <2>3. QED BY <1>6, <2>2 DEF RecoverDelete, Aside, Keeps
<1>7. QED
  BY <1>2, <1>3, <1>4, <1>5, <1>6, AsideOrderly DEF Recover

LEMMA MainLoopOrderly ==
  ASSUME OrderInv, NEW w \in Workers, MainLoop(w)
  PROVE  Orderly
<1> USE DEF Goto, redisVars, recoveryVars, historyVars
<1>1. ASSUME StartWorker(w) \/ Loop(w) \/ Exit(w) \/ ReserveTimeout(w)
      PROVE  Aside /\ Keeps
  BY <1>1 DEF StartWorker, Loop, Exit, ReserveTimeout, Aside, Keeps, Held
<1>2. CASE Reserve(w)
  BY <1>2, TakeOrderly DEF Reserve
<1>3. CASE ReserveMalformed(w)
  BY <1>3, TakeOrderly DEF ReserveMalformed
<1>4. ASSUME Ack(w) PROVE Aside /\ Keeps
  <2>1. \A v \in Workers : Held(v)' \subseteq Held(v)
    BY <1>4, ReceiptWithin DEF Ack, OrderInv
  <2>2. \A v \in Workers : reserved'[v] \in {reserved[v], None}
    BY <1>4 DEF Ack, OrderInv, TypeOK
  <2>3. QED BY <1>4, <2>1, <2>2 DEF Ack, Aside, Keeps
<1>5. CASE Requeue(w)
  <2>1. \A v \in Workers : reserved'[v] \in {reserved[v], None}
    BY <1>5 DEF Requeue, OrderInv, TypeOK
  <2>2. QED BY <1>5, <2>1, PutBackOrderly DEF Requeue, Owns, OwnerPCs
<1>6. QED
  BY <1>1, <1>2, <1>3, <1>4, <1>5, AsideOrderly DEF MainLoop

LEMMA FaultOrderly ==
  ASSUME OrderInv, NEW w \in Workers, Fault(w)
  PROVE  Orderly
<1> USE DEF Goto, redisVars, recoveryVars, historyVars
<1>1. TypeOK
  BY DEF OrderInv
<1>2. ASSUME RecoverAbort(w) \/ StopSignal(w) \/ Crash(w) PROVE Aside /\ Keeps
  BY <1>1, <1>2 DEF RecoverAbort, StopSignal, Crash, Aside, Keeps, Held, TypeOK
<1>3. CASE ReserveReplyLost(w)
  BY <1>3, TakeOrderly DEF ReserveReplyLost
<1>4. ASSUME AckFails(w) PROVE Aside /\ Keeps
  <2>1. \A v \in Workers : Held(v)' \subseteq Held(v)
    BY <1>1, <1>4, ReceiptWithin DEF AckFails, Held
  <2>2. QED BY <1>4, <2>1 DEF AckFails, Aside, Keeps
<1>5. CASE RequeueFails(w)
  <2>1. \A v \in Workers : reserved'[v] \in {reserved[v], None}
    BY <1>1, <1>5 DEF RequeueFails, TypeOK
  <2>2. CASE PutBack(w)
    BY <1>5, <2>1, <2>2, PutBackOrderly DEF RequeueFails, Owns, OwnerPCs
  <2>3. CASE UNCHANGED <<queue, processing>>
    <3>1. Aside /\ Keeps
      BY <1>5, <2>1, <2>3 DEF RequeueFails, Aside, Keeps, Held
    <3>2. QED BY <3>1, AsideOrderly
  <2>4. QED BY <1>5, <2>2, <2>3 DEF RequeueFails
<1>6. QED
  BY <1>2, <1>3, <1>4, <1>5, AsideOrderly DEF Fault

LEMMA OrderStep == OrderInv /\ [Next]_vars => OrderInv'
<1> SUFFICES ASSUME OrderInv, [Next]_vars PROVE OrderInv'
  OBVIOUS
<1> USE DEF Goto, redisVars, recoveryVars, historyVars
<1>1. ASSUME NEW j \in Jobs, Enqueue(j) PROVE Orderly
  <2>1. Keeps
    BY <1>1 DEF Enqueue, Keeps, Held
  <2>2. QED BY <1>1, <2>1, EnqueueInOrder DEF Orderly
<1>2. ASSUME NEW w \in Workers, JobDone(w) \/ JobRaises(w) \/ Beat(w) \/ Expire(w)
      PROVE  Aside /\ Keeps
  BY <1>2 DEF JobDone, JobRaises, Beat, Expire, Aside, Keeps, Held
<1>3. ASSUME UNCHANGED vars PROVE Aside /\ Keeps
  BY <1>3 DEF vars, Aside, Keeps, Held
<1>4. Orderly
  BY <1>1, <1>2, <1>3, AsideOrderly, RecoverOrderly, MainLoopOrderly, FaultOrderly
     DEF Next, WorkerStep
<1>5. TypeOK'
  BY StepType DEF OrderInv
<1>6. DeliveredIsTaken'
  BY <1>4, KeepsDelivered DEF OrderInv, Orderly
<1>7. QED BY <1>4, <1>5, <1>6 DEF OrderInv, Orderly

\* Delivered tokens, then fresh ones in the order sent: at any moment.
THEOREM OrderInductive == Spec => []OrderInv
<1>1. QED BY InitOrder, OrderStep, PTL DEF Spec

(* Whatever crashes, lapses, is stopped or torn, jobs are delivered for    *)
(* the first time in the order in which they were enqueued.                *)
THEOREM FirstDeliveryInOrderHolds == Spec => []FirstDeliveryInOrder
<1>1. OrderInv => FirstDeliveryInOrder
  <2>1. SUFFICES ASSUME OrderInv, NEW k \in 1..Len(sent), NEW m \in 1..Len(sent),
                        k < m, sent[m] \in taken
                 PROVE  sent[k] \in taken
    BY DEF FirstDeliveryInOrder
  <2>2. PICK f \in 0..Len(sent), r \in 0..Len(queue) : Split(f, r)
    BY <2>1 DEF OrderInv, FreshWaitInOrder
  <2>3. Len(sent) \in Nat
    BY <2>1 DEF OrderInv, TypeOK
  <2>4. m <= f
    BY <2>1, <2>2 DEF Split
  <2>5. QED BY <2>1, <2>2, <2>3, <2>4 DEF Split
<1>2. QED BY <1>1, OrderInductive, PTL

(* A job that came back, by requeue or by recovery, is ahead of every job  *)
(* that waits for its first delivery: both push at the end reserve takes   *)
(* from.                                                                   *)
THEOREM RetriesFirstHolds == Spec => []RetriesFirst
<1>1. OrderInv => RetriesFirst
  <2>1. SUFFICES ASSUME OrderInv, NEW k \in 1..Len(queue), NEW m \in 1..Len(queue),
                        k < m, queue[m] \in taken
                 PROVE  queue[k] \in taken
    BY DEF RetriesFirst
  <2>2. PICK f \in 0..Len(sent), r \in 0..Len(queue) : Split(f, r)
    BY <2>1 DEF OrderInv, FreshWaitInOrder
  <2>3. Len(sent) \in Nat /\ Len(queue) \in Nat
    BY <2>1 DEF OrderInv, TypeOK
  <2>4. CASE m > r
    <3> DEFINE i == m - r
    <3>1. Len(queue) - r = Len(sent) - f
      BY <2>2 DEF Split
    <3>2. i \in 1..(Len(sent) - f) /\ r + i = m
      BY <2>3, <2>4, <3>1
    <3>3. f + i \in 1..Len(sent) /\ ~(f + i <= f)
      BY <2>3, <3>2
    <3>4. queue[r + i] = sent[f + i]
      BY <2>2, <3>2 DEF Split
    <3>5. sent[f + i] \notin taken
      BY <2>2, <3>3 DEF Split
    <3>6. QED BY <2>1, <3>2, <3>4, <3>5
  <2>5. CASE m <= r
    <3>1. k \in 1..r
      BY <2>1, <2>3, <2>5
    <3>2. QED BY <2>2, <3>1 DEF Split
  <2>6. QED BY <2>3, <2>4, <2>5
<1>2. QED BY <1>1, OrderInductive, PTL
=============================================================================
