--------------------------- MODULE ReliableQueue ---------------------------
(***************************************************************************)
(* The reliable scan queue (src/services/distributed_queue.py) and the     *)
(* main loop of the processes that consume it (src/worker.py).             *)
(*                                                                         *)
(* Each Redis command, and the MULTI/EXEC of requeue, is one atomic step;  *)
(* every step of the Python code between two commands may interleave with  *)
(* the other processes.  A Redis list is a sequence whose head is the      *)
(* right end of the list, the end BRPOPLPUSH and RPOP take from: LPUSH     *)
(* appends to the sequence and RPUSH puts in front of it.  A Fernet token  *)
(* is encrypted with a fresh IV, so a token stands for its one job.        *)
(***************************************************************************)
EXTENDS Naturals, SequencesExt

CONSTANTS
  Jobs,     \* the tokens that can be enqueued
  Workers,  \* worker processes: each has a fresh uuid, so it lives once
  Steady,   \* the workers no fault kills or stops
  Poison,   \* the tokens _decode refuses (a rotated key, a foreign message)
  Faults,   \* the kinds of fault the environment may inject
  None      \* Python's None

FaultKinds == {"crash",          \* a worker dies, outside recovery's gap
               "recovery_torn",  \* a worker dies, or Redis fails, in recovery
               "reply_lost",     \* acknowledge or requeue fails, executed or not
               "reserve_lost",   \* Redis executes reserve and the reply is lost
               "lapse",          \* a live worker's heartbeat expires
               "stop",           \* SIGTERM or SIGINT
               "job_error"}      \* process_job raises

ASSUME ConstantsAssumption ==
  /\ Steady \subseteq Workers
  /\ Poison \subseteq Jobs
  /\ Faults \subseteq FaultKinds
  /\ None \notin Jobs
  /\ None \notin Workers

VARIABLES
  queue,       \* the list queue_key
  processing,  \* the list processing_prefix + worker id, of each worker
  heartbeat,   \* whether the key heartbeat_prefix + worker id exists
  pc,          \* where each worker is in main
  booted,      \* the workers past start-up, whose heartbeat thread runs
  stopped,     \* the workers whose _STOP event is set
  reserved,    \* the job each worker has in hand
  toScan,      \* the keys scan_iter has still to return to a worker
  victim,      \* the worker whose list recover_abandoned is draining
  hand,        \* the token between recover_abandoned's RPOP and RPUSH
  sent,        \* history: the tokens enqueued, in order
  taken,       \* history: the tokens BRPOPLPUSH has moved at least once
  completed    \* history: the jobs process_job has returned from

redisVars == <<queue, processing, heartbeat>>
recoveryVars == <<toScan, victim, hand>>
historyVars == <<sent, taken, completed>>
vars == <<redisVars, pc, booted, stopped, reserved, recoveryVars, historyVars>>

RecoveryPCs == {"recover", "drain", "push", "delete"}
OwnerPCs == {"job", "ack", "requeue"}
LivePCs == RecoveryPCs \cup OwnerPCs \cup {"loop", "poll"}

Live(w) == pc[w] \in LivePCs
Owns(w) == pc[w] \in OwnerPCs

\* LREM key 1 token: the occurrence nearest the left end goes.
Lrem(s, t) ==
  IF t \notin ToSet(s) THEN s
  ELSE LET i == CHOOSE k \in 1..Len(s) :
                  s[k] = t /\ \A m \in 1..Len(s) : s[m] = t => m <= k
       IN  [k \in 1..(Len(s) - 1) |-> IF k < i THEN s[k] ELSE s[k + 1]]

-----------------------------------------------------------------------------
Init ==
  /\ queue = <<>>
  /\ processing = [w \in Workers |-> <<>>]
  /\ heartbeat = [w \in Workers |-> FALSE]
  /\ pc = [w \in Workers |-> "off"]
  /\ booted = {}
  /\ stopped = {}
  /\ reserved = [w \in Workers |-> None]
  /\ toScan = [w \in Workers |-> {}]
  /\ victim = [w \in Workers |-> None]
  /\ hand = [w \in Workers |-> None]
  /\ sent = <<>>
  /\ taken = {}
  /\ completed = {}

\* Variant: RPUSH, the end the workers take from.
EnqueueRight(j) ==
  /\ j \notin ToSet(sent)
  /\ queue' = <<j>> \o queue
  /\ sent' = Append(sent, j)
  /\ UNCHANGED <<processing, heartbeat, pc, booted, stopped, reserved,
                 recoveryVars, taken, completed>>

\* enqueue(payload), by the web process.
Enqueue(j) ==
  /\ j \notin ToSet(sent)
  /\ queue' = Append(queue, j)
  /\ sent' = Append(sent, j)
  /\ UNCHANGED <<processing, heartbeat, pc, booted, stopped, reserved,
                 recoveryVars, taken, completed>>

Goto(w, label) == pc' = [pc EXCEPT ![w] = label]

\* Variant: the pattern of scan_iter matches no list.
RecoverNobody(w) ==
  /\ Goto(w, "recover")
  /\ toScan' = [toScan EXCEPT ![w] = {}]

\* recover_abandoned starts: scan_iter will return the processing lists of
\* workers that have started.
BeginRecovery(w) ==
  /\ Goto(w, "recover")
  /\ toScan' = [toScan EXCEPT ![w] = {v \in Workers : pc[v] # "off"}]

\* Variant: recovery before the first heartbeat.
StartSilently(w) ==
  /\ pc[w] = "off"
  /\ BeginRecovery(w)
  /\ UNCHANGED <<redisVars, booted, stopped, reserved, victim, hand,
                 historyVars>>

\* main up to its loop: the first heartbeat, then recovery.
StartWorker(w) ==
  /\ pc[w] = "off"
  /\ heartbeat' = [heartbeat EXCEPT ![w] = TRUE]
  /\ BeginRecovery(w)
  /\ UNCHANGED <<queue, processing, booted, stopped, reserved, victim, hand,
                 historyVars>>

-----------------------------------------------------------------------------
\* recover_abandoned.  The key of v exists only while its list is not empty;
\* a batch of SCAN may name a key another worker has since drained.

RecoverSkip(w, v) ==
  /\ pc[w] = "recover"
  /\ v \in toScan[w]
  /\ heartbeat[v] \/ processing[v] = <<>>
  /\ toScan' = [toScan EXCEPT ![w] = @ \ {v}]
  /\ UNCHANGED <<redisVars, pc, booted, stopped, reserved, victim, hand,
                 historyVars>>

RecoverClaim(w, v) ==
  /\ pc[w] = "recover"
  /\ v \in toScan[w]
  /\ ~heartbeat[v]
  /\ toScan' = [toScan EXCEPT ![w] = @ \ {v}]
  /\ victim' = [victim EXCEPT ![w] = v]
  /\ Goto(w, "drain")
  /\ UNCHANGED <<redisVars, booted, stopped, reserved, hand, historyVars>>

RecoverPop(w) ==
  /\ pc[w] = "drain"
  /\ processing[victim[w]] # <<>>
  /\ hand' = [hand EXCEPT ![w] = Head(processing[victim[w]])]
  /\ processing' = [processing EXCEPT ![victim[w]] = Tail(@)]
  /\ Goto(w, "push")
  /\ UNCHANGED <<queue, heartbeat, booted, stopped, reserved, toScan, victim,
                 historyVars>>

\* Variant: LPUSH, behind the jobs that wait.
RecoverPushLast(w) ==
  /\ pc[w] = "push"
  /\ queue' = Append(queue, hand[w])
  /\ hand' = [hand EXCEPT ![w] = None]
  /\ Goto(w, "drain")
  /\ UNCHANGED <<processing, heartbeat, booted, stopped, reserved, toScan,
                 victim, historyVars>>

RecoverPush(w) ==
  /\ pc[w] = "push"
  /\ queue' = <<hand[w]>> \o queue
  /\ hand' = [hand EXCEPT ![w] = None]
  /\ Goto(w, "drain")
  /\ UNCHANGED <<processing, heartbeat, booted, stopped, reserved, toScan,
                 victim, historyVars>>

RecoverDrained(w) ==
  /\ pc[w] = "drain"
  /\ processing[victim[w]] = <<>>
  /\ Goto(w, "delete")
  /\ UNCHANGED <<redisVars, booted, stopped, reserved, recoveryVars,
                 historyVars>>

RecoverDelete(w) ==
  /\ pc[w] = "delete"
  /\ processing' = [processing EXCEPT ![victim[w]] = <<>>]
  /\ victim' = [victim EXCEPT ![w] = None]
  /\ Goto(w, "recover")
  /\ UNCHANGED <<queue, heartbeat, booted, stopped, reserved, toScan, hand,
                 historyVars>>

\* No key is left: at start-up the heartbeat thread starts now.
RecoverDone(w) ==
  /\ pc[w] = "recover"
  /\ toScan[w] = {}
  /\ booted' = booted \cup {w}
  /\ Goto(w, "loop")
  /\ UNCHANGED <<redisVars, stopped, reserved, recoveryVars, historyVars>>

\* A Redis error inside recover_abandoned: main's generic except logs it and
\* loops, but during start-up nothing catches it.
RecoverAbort(w) ==
  /\ "recovery_torn" \in Faults
  /\ w \notin Steady
  /\ pc[w] \in RecoveryPCs
  /\ Goto(w, IF w \in booted THEN "loop" ELSE "dead")
  /\ toScan' = [toScan EXCEPT ![w] = {}]
  /\ victim' = [victim EXCEPT ![w] = None]
  /\ hand' = [hand EXCEPT ![w] = None]
  /\ UNCHANGED <<redisVars, booted, stopped, reserved, historyVars>>

-----------------------------------------------------------------------------
\* The loop of main.

Loop(w) ==
  /\ pc[w] = "loop"
  /\ w \notin stopped
  /\ Goto(w, "poll")
  /\ UNCHANGED <<redisVars, booted, stopped, reserved, recoveryVars,
                 historyVars>>

\* Variant: BRPOP, as dequeue does.
TakeUnheld(w) ==
  /\ pc[w] = "poll"
  /\ queue # <<>>
  /\ queue' = Tail(queue)
  /\ taken' = taken \cup {Head(queue)}
  /\ UNCHANGED processing

\* BRPOPLPUSH moves the token at the head of the queue to w's list.
Take(w) ==
  /\ pc[w] = "poll"
  /\ queue # <<>>
  /\ queue' = Tail(queue)
  /\ processing' = [processing EXCEPT ![w] = Append(@, Head(queue))]
  /\ taken' = taken \cup {Head(queue)}

Reserve(w) ==
  /\ Take(w)
  /\ Head(queue) \notin Poison
  /\ reserved' = [reserved EXCEPT ![w] = Head(queue)]
  /\ Goto(w, "job")
  /\ UNCHANGED <<heartbeat, booted, stopped, recoveryVars, sent, completed>>

\* _decode raises before reserve returns, so main has no receipt to
\* acknowledge: the token stays in w's list.
ReserveMalformed(w) ==
  /\ Take(w)
  /\ Head(queue) \in Poison
  /\ Goto(w, "loop")
  /\ UNCHANGED <<heartbeat, booted, stopped, reserved, recoveryVars, sent,
                 completed>>

\* The client times out on a reply Redis has sent: same outcome.
ReserveReplyLost(w) ==
  /\ "reserve_lost" \in Faults
  /\ Take(w)
  /\ Goto(w, "loop")
  /\ UNCHANGED <<heartbeat, booted, stopped, reserved, recoveryVars, sent,
                 completed>>

\* The poll times out: recovery runs only when the queue was found empty.
ReserveTimeout(w) ==
  /\ pc[w] = "poll"
  /\ queue = <<>>
  /\ BeginRecovery(w)
  /\ UNCHANGED <<redisVars, booted, stopped, reserved, victim, hand,
                 historyVars>>

JobDone(w) ==
  /\ pc[w] = "job"
  /\ completed' = completed \cup {reserved[w]}
  /\ Goto(w, "ack")
  /\ UNCHANGED <<redisVars, booted, stopped, reserved, recoveryVars, sent,
                 taken>>

\* Variant: the error is treated as a completion.
RaiseIsAcknowledged(w) ==
  /\ pc[w] = "job"
  /\ Goto(w, "ack")
  /\ UNCHANGED <<redisVars, booted, stopped, reserved, recoveryVars,
                 historyVars>>

JobRaises(w) ==
  /\ "job_error" \in Faults
  /\ pc[w] = "job"
  /\ Goto(w, "requeue")
  /\ UNCHANGED <<redisVars, booted, stopped, reserved, recoveryVars,
                 historyVars>>

RemoveReceipt(w) ==
  processing' = [processing EXCEPT ![w] = Lrem(@, reserved[w])]

\* acknowledge(reserved).
Ack(w) ==
  /\ pc[w] = "ack"
  /\ RemoveReceipt(w)
  /\ reserved' = [reserved EXCEPT ![w] = None]
  /\ Goto(w, "loop")
  /\ UNCHANGED <<queue, heartbeat, booted, stopped, recoveryVars, historyVars>>

\* acknowledge raises, whether or not Redis executed it: main requeues.
AckFails(w) ==
  /\ "reply_lost" \in Faults
  /\ pc[w] = "ack"
  /\ RemoveReceipt(w) \/ UNCHANGED processing
  /\ Goto(w, "requeue")
  /\ UNCHANGED <<queue, heartbeat, booted, stopped, reserved, recoveryVars,
                 historyVars>>

\* requeue's transaction: off w's list and to the head of the queue.
PutBack(w) ==
  /\ RemoveReceipt(w)
  /\ queue' = <<reserved[w]>> \o queue

Requeue(w) ==
  /\ pc[w] = "requeue"
  /\ PutBack(w)
  /\ reserved' = [reserved EXCEPT ![w] = None]
  /\ Goto(w, "loop")
  /\ UNCHANGED <<heartbeat, booted, stopped, recoveryVars, historyVars>>

\* An error of requeue leaves the except clause: main's finally clears the
\* heartbeat, if Redis answers by then, and the process ends.
RequeueFails(w) ==
  /\ "reply_lost" \in Faults
  /\ w \notin Steady
  /\ pc[w] = "requeue"
  /\ PutBack(w) \/ UNCHANGED <<queue, processing>>
  /\ \E b \in {FALSE, heartbeat[w]} : heartbeat' = [heartbeat EXCEPT ![w] = b]
  /\ reserved' = [reserved EXCEPT ![w] = None]
  /\ Goto(w, "dead")
  /\ UNCHANGED <<booted, stopped, recoveryVars, historyVars>>

\* The loop sees _STOP: clear_heartbeat and return.
Exit(w) ==
  /\ pc[w] = "loop"
  /\ w \in stopped
  /\ heartbeat' = [heartbeat EXCEPT ![w] = FALSE]
  /\ Goto(w, "dead")
  /\ UNCHANGED <<queue, processing, booted, stopped, reserved, recoveryVars,
                 historyVars>>

-----------------------------------------------------------------------------
\* Signals, the heartbeat thread, the heartbeat's expiry, and crashes.

StopSignal(w) ==
  /\ "stop" \in Faults
  /\ w \notin Steady \cup stopped
  /\ Live(w)
  /\ stopped' = stopped \cup {w}
  /\ UNCHANGED <<redisVars, pc, booted, reserved, recoveryVars, historyVars>>

\* _heartbeat_loop ends as soon as _STOP is set.
Beat(w) ==
  /\ Live(w)
  /\ w \in booted \ stopped
  /\ ~heartbeat[w]
  /\ heartbeat' = [heartbeat EXCEPT ![w] = TRUE]
  /\ UNCHANGED <<queue, processing, pc, booted, stopped, reserved,
                 recoveryVars, historyVars>>

\* Variant: the main loop renews the heartbeat, and not while a job runs.
UnrenewedInJob(w) == pc[w] = "dead" \/ Owns(w)

\* A TTL runs out when nothing renews it: the worker is dead, or it was told
\* to stop and is still inside a job or a recovery, which may last for hours
\* (a poll is shorter than the TTL a beat leaves), or its thread is starved.
Unrenewed(w) ==
  \/ pc[w] = "dead"
  \/ w \in stopped /\ pc[w] \in OwnerPCs \cup RecoveryPCs
  \/ "lapse" \in Faults /\ w \notin Steady

Expire(w) ==
  /\ heartbeat[w]
  /\ Unrenewed(w)
  /\ heartbeat' = [heartbeat EXCEPT ![w] = FALSE]
  /\ UNCHANGED <<queue, processing, pc, booted, stopped, reserved,
                 recoveryVars, historyVars>>

Crash(w) ==
  /\ "crash" \in Faults
  /\ w \notin Steady
  /\ Live(w)
  /\ hand[w] = None \/ "recovery_torn" \in Faults
  /\ Goto(w, "dead")
  /\ reserved' = [reserved EXCEPT ![w] = None]
  /\ toScan' = [toScan EXCEPT ![w] = {}]
  /\ victim' = [victim EXCEPT ![w] = None]
  /\ hand' = [hand EXCEPT ![w] = None]
  /\ UNCHANGED <<redisVars, booted, stopped, historyVars>>

-----------------------------------------------------------------------------
Recover(w) ==
  \/ \E v \in Workers : RecoverSkip(w, v) \/ RecoverClaim(w, v)
  \/ RecoverPop(w) \/ RecoverPush(w) \/ RecoverDrained(w) \/ RecoverDelete(w)
  \/ RecoverDone(w)

\* What a worker does of itself outside recovery and outside process_job.
MainLoop(w) ==
  \/ StartWorker(w) \/ Loop(w) \/ Exit(w)
  \/ Reserve(w) \/ ReserveMalformed(w) \/ ReserveTimeout(w)
  \/ Ack(w) \/ Requeue(w)

Fault(w) ==
  \/ RecoverAbort(w) \/ ReserveReplyLost(w) \/ AckFails(w) \/ RequeueFails(w)
  \/ StopSignal(w) \/ Crash(w)

WorkerStep(w) == Recover(w) \/ MainLoop(w) \/ JobDone(w)

Next ==
  \/ \E j \in Jobs : Enqueue(j)
  \/ \E w \in Workers :
       WorkerStep(w) \/ JobRaises(w) \/ Beat(w) \/ Expire(w) \/ Fault(w)

Spec == Init /\ [][Next]_vars

\* Worker threads are scheduled, a TTL runs out, process_job does not raise
\* for ever and Redis does not fail acknowledge for ever: else one job that
\* comes back to the head each time keeps the others waiting.
Fairness ==
  \A w \in Workers :
    /\ WF_vars(WorkerStep(w))
    /\ SF_vars(JobDone(w))
    /\ SF_vars(Ack(w))
    /\ WF_vars(pc[w] = "dead" /\ Expire(w))

FairSpec == Spec /\ Fairness

-----------------------------------------------------------------------------
\* Type invariant.
TypeOK ==
  /\ queue \in Seq(Jobs)
  /\ processing \in [Workers -> Seq(Jobs)]
  /\ heartbeat \in [Workers -> BOOLEAN]
  /\ pc \in [Workers -> LivePCs \cup {"off", "dead"}]
  /\ booted \subseteq Workers
  /\ stopped \subseteq Workers
  /\ reserved \in [Workers -> Jobs \cup {None}]
  /\ toScan \in [Workers -> SUBSET Workers]
  /\ victim \in [Workers -> Workers \cup {None}]
  /\ hand \in [Workers -> Jobs \cup {None}]
  /\ sent \in Seq(Jobs)
  /\ taken \subseteq Jobs
  /\ completed \subseteq Jobs
  /\ \A w \in Workers :
       /\ Owns(w) <=> reserved[w] # None
       /\ pc[w] \in {"drain", "push", "delete"} <=> victim[w] # None
       /\ pc[w] = "push" <=> hand[w] # None

\* No job is executed by two workers at once: recovery never hands a job to
\* a second worker while the first still works on it.
ExclusiveExecution ==
  \A w, v \in Workers :
    pc[w] = "job" /\ pc[v] = "job" /\ reserved[w] = reserved[v] => w = v

\* A job stays in the list of the worker that runs it until process_job has
\* ended, so that a crash at any point leaves it to recovery.
RunningJobIsHeld ==
  \A w \in Workers : pc[w] = "job" => reserved[w] \in ToSet(processing[w])

InRedis(j) ==
  \/ j \in ToSet(queue)
  \/ \E w \in Workers : j \in ToSet(processing[w])

\* A job that was enqueued and never ran to its end is still in some list,
\* or in the hand of a worker that is about to push it back.
NothingLost ==
  \A j \in ToSet(sent) \ completed :
    InRedis(j) \/ \E w \in Workers : hand[w] = j

\* Jobs are first delivered in the order in which they were enqueued.
FirstDeliveryInOrder ==
  \A k, m \in 1..Len(sent) : k < m /\ sent[m] \in taken => sent[k] \in taken

\* A job that was delivered before, and came back by requeue or recovery,
\* is ahead of every job that waits for its first delivery.
RetriesFirst ==
  \A k, m \in 1..Len(queue) : k < m /\ queue[m] \in taken => queue[k] \in taken

\* The refinement mapping to JobPool: what no worker holds, and some list or
\* some recovering worker's hand still has, waits to be delivered.
InHand(j) == \E w \in Workers : reserved[w] = j
Waiting ==
  {j \in ToSet(sent) :
     ~InHand(j) /\ (InRedis(j) \/ \E w \in Workers : hand[w] = j)}

Pool == INSTANCE JobPool WITH
          submitted <- ToSet(sent), waiting <- Waiting, held <- reserved

\* The queue implements the pool of jobs: a job is delivered to one worker at
\* a time, goes back when its worker fails or dies, leaves only after it ran
\* to its end, and does not come back once it has left.
ImplementsPool == Pool!PoolSpec

\* Every job that can be decoded is eventually run to its end, whatever
\* crashes, as long as one worker stays up.
EventuallyCompleted ==
  \A j \in Jobs \ Poison : j \in ToSet(sent) ~> j \in completed
=============================================================================
