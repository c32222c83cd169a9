------------------------ MODULE DistributedScanProofs ------------------------
(***************************************************************************)
(* Proofs about DistributedScan, for any number of scans, workers and      *)
(* threads of the web process.                                             *)
(*                                                                         *)
(* P is the queue of DistributedScan together with what is proved of it:   *)
(* every step is a step of the queue or leaves the queue alone, so what    *)
(* holds of the queue holds of the whole.                                  *)
(***************************************************************************)
EXTENDS DistributedScan, Sequences, FiniteSetTheorems, TLAPS

P == INSTANCE ReliableQueueProofs WITH Jobs <- Scans

\* The constants of DistributedScan are such as the queue assumes.
LEMMA QueueConstants == P!ConstantsAssumption
BY DistributedAssumption
   DEF P!ConstantsAssumption, P!FaultKinds, Q!FaultKinds

(* What is used of the queue. *)

LEMMA QueueInductive == ASSUME P!HeartbeatsKept PROVE P!Spec => []P!IInv
BY QueueConstants, P!Inductive

\* An enqueued job is in the queue.
LEMMA EnqueuedIsQueued ==
  ASSUME P!IInv, NEW s \in Scans, P!Enqueue(s) PROVE s \in P!Queued'
<1>1. P!TypeOK /\ P!OnePlace /\ P!AllSent
  BY DEF P!IInv, P!Places
<1>2. P!Queued' = P!Queued \cup {s}
  BY <1>1, QueueConstants, P!EnqueueEffect
<1>3. QED BY <1>2

\* A job that is somewhere stays somewhere, unless it is acknowledged.
LEMMA SomewhereStays ==
  ASSUME P!IInv, "recovery_torn" \notin Faults, [P!Next]_(P!vars),
         NEW s \in Scans, P!Somewhere(s)
  PROVE  P!Somewhere(s)' \/ \E w \in Workers : pc[w] = "ack" /\ reserved[w] = s
BY QueueConstants, P!SomewhereStep

-----------------------------------------------------------------------------
(* The actions of the queue in D are those of ReliableQueue. *)

LEMMA SameLrem == \A s, t : Q!Lrem(s, t) = P!Lrem(s, t)
BY DEF Q!Lrem, P!Lrem, Q!ToSet, P!ToSet

LEMMA SameInit == Q!Init <=> P!Init
BY DEF Q!Init, P!Init

LEMMA SameEnqueue == \A j : Q!Enqueue(j) <=> P!Enqueue(j)
BY DEF Q!Enqueue, P!Enqueue, Q!ToSet, P!ToSet, Q!recoveryVars, P!recoveryVars

LEMMA SameRecover == ASSUME NEW w \in Workers PROVE Q!Recover(w) <=> P!Recover(w)
<1> USE DEF Q!Goto, P!Goto, Q!redisVars, P!redisVars, Q!recoveryVars,
            P!recoveryVars, Q!historyVars, P!historyVars
<1>1. \A v \in Workers : Q!RecoverSkip(w, v) <=> P!RecoverSkip(w, v)
  BY DEF Q!RecoverSkip, P!RecoverSkip
<1>2. \A v \in Workers : Q!RecoverClaim(w, v) <=> P!RecoverClaim(w, v)
  BY DEF Q!RecoverClaim, P!RecoverClaim
<1>3. Q!RecoverPop(w) <=> P!RecoverPop(w)
  BY DEF Q!RecoverPop, P!RecoverPop
<1>4. Q!RecoverPush(w) <=> P!RecoverPush(w)
  BY DEF Q!RecoverPush, P!RecoverPush
<1>5. Q!RecoverDrained(w) <=> P!RecoverDrained(w)
  BY DEF Q!RecoverDrained, P!RecoverDrained
<1>6. Q!RecoverDelete(w) <=> P!RecoverDelete(w)
  BY DEF Q!RecoverDelete, P!RecoverDelete
<1>7. Q!RecoverDone(w) <=> P!RecoverDone(w)
  BY DEF Q!RecoverDone, P!RecoverDone
<1>8. QED
  BY <1>1, <1>2, <1>3, <1>4, <1>5, <1>6, <1>7 DEF Q!Recover, P!Recover

LEMMA SameMainLoop ==
  ASSUME NEW w \in Workers
  PROVE  /\ Q!StartWorker(w) <=> P!StartWorker(w)
         /\ Q!Loop(w) <=> P!Loop(w)
         /\ Q!Exit(w) <=> P!Exit(w)
         /\ Q!Reserve(w) <=> P!Reserve(w)
         /\ Q!ReserveMalformed(w) <=> P!ReserveMalformed(w)
         /\ Q!ReserveTimeout(w) <=> P!ReserveTimeout(w)
         /\ Q!Ack(w) <=> P!Ack(w)
         /\ Q!Requeue(w) <=> P!Requeue(w)
         /\ Q!JobDone(w) <=> P!JobDone(w)
         /\ Q!JobRaises(w) <=> P!JobRaises(w)
         /\ Q!Beat(w) <=> P!Beat(w)
         /\ Q!Expire(w) <=> P!Expire(w)
<1> USE DEF Q!Goto, P!Goto, Q!redisVars, P!redisVars, Q!recoveryVars,
            P!recoveryVars, Q!historyVars, P!historyVars
<1>1. Q!StartWorker(w) <=> P!StartWorker(w)
  BY DEF Q!StartWorker, P!StartWorker, Q!BeginRecovery, P!BeginRecovery
<1>2. Q!Loop(w) <=> P!Loop(w)
  BY DEF Q!Loop, P!Loop
<1>3. Q!Exit(w) <=> P!Exit(w)
  BY DEF Q!Exit, P!Exit
<1>4. Q!Take(w) <=> P!Take(w)
  BY DEF Q!Take, P!Take
<1>5. Q!Reserve(w) <=> P!Reserve(w)
  BY <1>4 DEF Q!Reserve, P!Reserve
<1>6. Q!ReserveMalformed(w) <=> P!ReserveMalformed(w)
  BY <1>4 DEF Q!ReserveMalformed, P!ReserveMalformed
<1>7. Q!ReserveTimeout(w) <=> P!ReserveTimeout(w)
  BY DEF Q!ReserveTimeout, P!ReserveTimeout, Q!BeginRecovery, P!BeginRecovery
<1>8. Q!RemoveReceipt(w) <=> P!RemoveReceipt(w)
  BY SameLrem DEF Q!RemoveReceipt, P!RemoveReceipt
<1>9. Q!Ack(w) <=> P!Ack(w)
  BY <1>8 DEF Q!Ack, P!Ack
<1>10. Q!Requeue(w) <=> P!Requeue(w)
  BY <1>8 DEF Q!Requeue, P!Requeue, Q!PutBack, P!PutBack
<1>11. (Q!JobDone(w) <=> P!JobDone(w)) /\ (Q!JobRaises(w) <=> P!JobRaises(w))
  BY DEF Q!JobDone, P!JobDone, Q!JobRaises, P!JobRaises
<1>12. (Q!Beat(w) <=> P!Beat(w)) /\ (Q!Expire(w) <=> P!Expire(w))
  BY DEF Q!Beat, P!Beat, Q!Expire, P!Expire, Q!Unrenewed, P!Unrenewed, Q!Live, P!Live,
         Q!LivePCs, P!LivePCs, Q!OwnerPCs, P!OwnerPCs, Q!RecoveryPCs, P!RecoveryPCs
<1>13. QED
  BY <1>1, <1>2, <1>3, <1>5, <1>6, <1>7, <1>9, <1>10, <1>11, <1>12

LEMMA SameFault ==
  ASSUME NEW w \in Workers
  PROVE  /\ Q!RecoverAbort(w) <=> P!RecoverAbort(w)
         /\ Q!ReserveReplyLost(w) <=> P!ReserveReplyLost(w)
         /\ Q!AckFails(w) <=> P!AckFails(w)
         /\ Q!RequeueFails(w) <=> P!RequeueFails(w)
         /\ Q!StopSignal(w) <=> P!StopSignal(w)
         /\ Q!Crash(w) <=> P!Crash(w)
<1> USE DEF Q!Goto, P!Goto, Q!redisVars, P!redisVars, Q!recoveryVars,
            P!recoveryVars, Q!historyVars, P!historyVars, Q!Live, P!Live,
            Q!LivePCs, P!LivePCs, Q!OwnerPCs, P!OwnerPCs, Q!RecoveryPCs, P!RecoveryPCs
<1>1. Q!RecoverAbort(w) <=> P!RecoverAbort(w)
  BY DEF Q!RecoverAbort, P!RecoverAbort
<1>2. Q!Take(w) <=> P!Take(w)
  BY DEF Q!Take, P!Take
<1>3. Q!ReserveReplyLost(w) <=> P!ReserveReplyLost(w)
  BY <1>2 DEF Q!ReserveReplyLost, P!ReserveReplyLost
<1>4. Q!RemoveReceipt(w) <=> P!RemoveReceipt(w)
  BY SameLrem DEF Q!RemoveReceipt, P!RemoveReceipt
<1>5. Q!AckFails(w) <=> P!AckFails(w)
  BY <1>4 DEF Q!AckFails, P!AckFails
<1>6. Q!RequeueFails(w) <=> P!RequeueFails(w)
  BY <1>4 DEF Q!RequeueFails, P!RequeueFails, Q!PutBack, P!PutBack
<1>7. Q!StopSignal(w) <=> P!StopSignal(w)
  BY DEF Q!StopSignal, P!StopSignal
<1>8. Q!Crash(w) <=> P!Crash(w)
  BY DEF Q!Crash, P!Crash
<1>9. QED BY <1>1, <1>3, <1>5, <1>6, <1>7, <1>8

-----------------------------------------------------------------------------
(* The distributed scan implements the queue: what a request enqueues was  *)
(* never enqueued before, and process_job is entered and left where the    *)
(* worker's loop enters and leaves it.                                     *)

\* A thread of the web process that holds no scan is free or about to insert
\* the row; what it enqueues is a scan.
HttpInv ==
  /\ DOMAIN http = Threads
  /\ \A h \in Threads :
       /\ {"pc", "scan"} \subseteq DOMAIN http[h]
       /\ http[h].pc \in {"free", "create"} => http[h].scan = None
       /\ http[h].pc \in {"enqueue", "fail"} => http[h].scan \in Scans
       /\ http[h].pc \in {"create", "enqueue", "fail"} => h \in Launchers

LEMMA InitHttp == Init => HttpInv
BY DEF Init, HttpInv, Free, Threads

LEMMA HttpStep == HttpInv /\ [Next]_vars => HttpInv'
<1> SUFFICES ASSUME HttpInv, [Next]_vars PROVE HttpInv'
  OBVIOUS
<1> USE DEF HttpInv, HttpAt, HttpGoto, Respond, Free, Threads
<1>1. ASSUME NEW h \in Launchers, CountActive(h) PROVE HttpInv'
  BY <1>1 DEF CountActive
<1>2. ASSUME NEW h \in Launchers, EnqueueRaises(h) PROVE HttpInv'
  BY <1>2 DEF EnqueueRaises
<1>3. ASSUME NEW h \in Cancellers, NEW s \in Scans, ReadRow(h, s) PROVE HttpInv'
  BY <1>3 DEF ReadRow
<1>4. ASSUME NEW h \in Threads, CreateRecord(h) PROVE HttpInv'
  BY <1>4 DEF CreateRecord
<1>5. ASSUME NEW h \in Threads, Enqueue(h) PROVE HttpInv'
  BY <1>5 DEF Enqueue
<1>6. ASSUME NEW h \in Threads, MarkFailed(h) PROVE HttpInv'
  BY <1>6 DEF MarkFailed
<1>7. ASSUME NEW h \in Threads, RequestCancel(h) PROVE HttpInv'
  BY <1>7 DEF RequestCancel
<1>8. ASSUME NEW h \in Threads, WriteCancel(h) PROVE HttpInv'
  BY <1>8 DEF WriteCancel
<1>9. ASSUME WebCrash PROVE HttpInv'
  BY <1>9 DEF WebCrash
<1>10. ASSUME UNCHANGED http PROVE HttpInv'
  BY <1>10
<1>11. ASSUME NEW w \in Workers,
              \/ Worker(w) \/ RunFails(w) \/ AdmitRaises(w)
              \/ Heartbeat(w) \/ WorkerFault(w) \/ Crash(w)
       PROVE  UNCHANGED http
  BY <1>11 DEF Worker, WorkerStep, Reserve, ProcessJob, EndRaised,
       Admit, Refuse, MarkCancelled, RunScan, EndRefused, EndRun,
       RunFails, AdmitRaises, Heartbeat, WorkerFault, Crash
<1>12. (UNCHANGED vars) => UNCHANGED http
  BY DEF vars
<1>13. QED
  BY <1>1, <1>2, <1>3, <1>4, <1>5, <1>6, <1>7, <1>8, <1>9, <1>10, <1>11, <1>12
     DEF Next, Serve

LEMMA QueueVars == (UNCHANGED queueVars) <=> UNCHANGED P!vars
BY DEF queueVars, P!vars, P!redisVars, P!recoveryVars, P!historyVars

\* Every step of the whole is a step of the queue, or leaves it alone.
LEMMA QueueStep == HttpInv /\ [Next]_vars => [P!Next]_(P!vars)
<1> SUFFICES ASSUME HttpInv, [Next]_vars PROVE [P!Next]_(P!vars)
  OBVIOUS
<1>1. ASSUME NEW h \in Threads, Enqueue(h) \/ EnqueueRaises(h)
      PROVE  [P!Next]_(P!vars)
  <2>1. http[h].scan \in Scans
    BY <1>1 DEF HttpInv, Enqueue, EnqueueRaises, HttpAt
  <2>2. Q!Enqueue(http[h].scan) \/ UNCHANGED queueVars
    BY <1>1 DEF Enqueue, EnqueueRaises
  <2>3. QED BY <2>1, <2>2, SameEnqueue, QueueVars DEF P!Next
<1>2. ASSUME NEW h \in Threads,
             \/ CountActive(h) \/ CreateRecord(h) \/ MarkFailed(h)
             \/ RequestCancel(h) \/ WriteCancel(h)
      PROVE  UNCHANGED queueVars
  BY <1>2 DEF CountActive, CreateRecord, MarkFailed, RequestCancel, WriteCancel
<1>3. ASSUME NEW h \in Cancellers, NEW s \in Scans, ReadRow(h, s)
      PROVE  UNCHANGED queueVars
  BY <1>3 DEF ReadRow
<1>4. ASSUME WebCrash PROVE UNCHANGED queueVars
  BY <1>4 DEF WebCrash
<1>5. ASSUME NEW w \in Workers,
             \/ Admit(w) \/ Refuse(w) \/ MarkCancelled(w) \/ RunScan(w)
             \/ RunFails(w)
      PROVE  UNCHANGED queueVars
  BY <1>5 DEF Admit, Refuse, MarkCancelled, RunScan, RunFails
<1>6. ASSUME NEW w \in Workers, EndRefused(w) \/ EndRun(w)
      PROVE  P!Next
  BY <1>6, SameMainLoop DEF EndRefused, EndRun, P!Next, P!WorkerStep
<1>7. ASSUME NEW w \in Workers, EndRaised(w) \/ AdmitRaises(w)
      PROVE  P!Next
  BY <1>7, SameMainLoop DEF EndRaised, AdmitRaises, P!Next
<1>8. ASSUME NEW w \in Workers, WorkerStep(w) \/ Reserve(w)
      PROVE  P!Next
  BY <1>8, SameMainLoop, SameRecover
     DEF WorkerStep, Reserve, P!Next, P!WorkerStep, P!MainLoop
<1>9. ASSUME NEW w \in Workers, Heartbeat(w) PROVE P!Next
  BY <1>9, SameMainLoop DEF Heartbeat, P!Next
<1>10. ASSUME NEW w \in Workers, WorkerFault(w) \/ Crash(w) PROVE P!Next
  BY <1>10, SameFault DEF WorkerFault, Crash, P!Next, P!Fault
<1>11. (UNCHANGED vars) => UNCHANGED queueVars
  BY DEF vars
<1>12. QED
  BY <1>1, <1>2, <1>3, <1>4, <1>5, <1>6, <1>7, <1>8, <1>9, <1>10, <1>11, QueueVars
     DEF Next, Worker, ProcessJob, Serve, Threads

LEMMA HttpHolds == Spec => []HttpInv
<1>1. QED BY InitHttp, HttpStep, PTL DEF Spec

(* The web process and the workers use the queue as ReliableQueue says it  *)
(* is used, so what is proved of the queue on its own is true of scans.    *)
THEOREM ImplementsQueue == Spec => P!Spec
<1>1. Init => P!Init
  BY SameInit DEF Init
<1>2. QED BY <1>1, QueueStep, HttpHolds, PTL DEF Spec, P!Spec

-----------------------------------------------------------------------------
(* The inductive invariant.  It holds while heartbeats are kept, since then *)
(* no two workers have the same job (OwnerApart).                           *)

\* row, run and stage are functions to records with the fields the proof uses.
Shape ==
  /\ DOMAIN row = Scans
  /\ \A s \in Scans : {"status", "cancelRequested"} \subseteq DOMAIN row[s]
  /\ DOMAIN run = Workers
  /\ \A w \in Workers : /\ {"pc", "scan", "outcome"} \subseteq DOMAIN run[w]
                        /\ run[w].outcome \in R!Outcomes
  /\ DOMAIN stage = Workers

\* process_job is somewhere exactly while the worker's loop is in it, and
\* run_scan executes exactly between its call and its end, on the job the
\* worker has reserved.
InStage ==
  \A w \in Workers :
    /\ stage[w] \in {"none", "admit", "mark", "clear", "run"}
    /\ stage[w] # "none" <=> pc[w] = "job"
    /\ IF stage[w] = "run"
       THEN run[w].scan = reserved[w] /\ run[w].pc # "idle"
       ELSE run[w].scan = None /\ run[w].pc = "idle"

\* The row is beyond "queued" and "running".
Settled(s) == row[s].status \notin {"none", "queued", "running"}

\* A worker acknowledges a job only when its row is settled.
AckedIsSettled ==
  \A w \in Workers :
    stage[w] = "clear" \/ run[w].pc = "ended" \/ pc[w] = "ack"
      => Settled(reserved[w])

Covered(s) == P!Somewhere(s) \/ \E h \in Launchers : http[h].scan = s
AllCovered == \A s \in Scans : row[s].status \in {"queued", "running"} => Covered(s)

JobInv == Shape /\ InStage /\ AckedIsSettled

LEMMA InitJob == Init => JobInv
BY DEF Init, P!Init, Q!Init, R!RunInit, R!NoRow, R!Idle, JobInv, Shape, InStage,
       AckedIsSettled, R!Outcomes

\* What a step of run_scan in w does: it goes on with its own scan, writes at
\* most the row of that scan, and has written an outcome when it has ended.
Executes(w) ==
  /\ run[w].pc # "ended"
  /\ DOMAIN run' = Workers
  /\ \A v \in Workers : v # w => run'[v] = run[v]
  /\ {"pc", "scan", "outcome"} \subseteq DOMAIN run'[w]
  /\ run'[w].scan = run[w].scan
  /\ run'[w].pc # "idle"
  /\ run'[w].outcome \in R!Outcomes
  /\ DOMAIN row' = Scans
  /\ \A s \in Scans : s # run[w].scan => row'[s] = row[s]
  /\ \A s \in Scans : /\ DOMAIN row'[s] = DOMAIN row[s]
                     /\ row'[s].cancelRequested = row[s].cancelRequested
  /\ run[w].scan \in Scans =>
       /\ row'[run[w].scan].status \in {row[run[w].scan].status, "running"} \cup R!Outcomes
       /\ run'[w].pc = "ended" => row'[run[w].scan].status \in R!Outcomes

LEMMA RunExecutes ==
  ASSUME Shape, NEW w \in Workers, NEW cancelled \in BOOLEAN,
         R!RunStep(w, cancelled) \/ R!RunError(w)
  PROVE  Executes(w)
<1> USE DEF Shape, Executes, R!At, R!Goto, R!Finish, R!Outcomes
<1>1. CASE R!Start(w)
  BY <1>1 DEF R!Start, R!Opened
<1>2. CASE R!Check(w, cancelled)
  BY <1>2 DEF R!Check
<1>3. CASE R!AllScanned(w)
  BY <1>3 DEF R!AllScanned
<1>4. CASE R!Mark(w)
  BY <1>4 DEF R!Mark, R!Report
<1>5. CASE R!BeforeRequest(w, cancelled)
  BY <1>5 DEF R!BeforeRequest
<1>6. CASE R!Charge(w)
  BY <1>6 DEF R!Charge
<1>7. CASE R!ScannerEnds(w)
  BY <1>7 DEF R!ScannerEnds
<1>8. CASE R!Record(w)
  BY <1>8 DEF R!Record, R!Report
<1>9. CASE R!Wrapup(w)
  BY <1>9 DEF R!Wrapup
<1>10. CASE R!Persist(w)
  BY <1>10 DEF R!Persist, R!Persisted
<1>11. CASE R!StartFails(w)
  BY <1>11 DEF R!StartFails, R!Opened
<1>12. CASE R!Fatal(w)
  BY <1>12 DEF R!Fatal
<1>13. CASE R!PersistFails(w)
  <2>1. CASE row' = row
    BY <1>13, <2>1 DEF R!PersistFails
  <2>2. CASE row' = R!Persisted(w)
    BY <1>13, <2>2 DEF R!PersistFails, R!Persisted
  <2>3. QED BY <1>13, <2>1, <2>2 DEF R!PersistFails
<1>14. QED
  BY <1>1, <1>2, <1>3, <1>4, <1>5, <1>6, <1>7, <1>8, <1>9, <1>10, <1>11, <1>12, <1>13
     DEF R!RunStep, R!RunError

\* The web process writes to a row that is not inserted yet, or settles it.
Writes ==
  /\ UNCHANGED <<run, stage, reserved, pc>>
  /\ DOMAIN row' = Scans
  /\ \A s \in Scans : DOMAIN row'[s] = DOMAIN row[s]
  /\ \A s \in Scans : row'[s].status = row[s].status \/ row[s].status = "none" \/ Settled(s)'

LEMMA WritesKeeps ==
  ASSUME JobInv, P!TypeOK, Writes
  PROVE  JobInv'
<1>1. Shape'
  BY DEF JobInv, Shape, Writes
<1>2. InStage'
  BY DEF JobInv, InStage, Writes
<1>3. \A w \in Workers : stage[w] = "clear" \/ run[w].pc = "ended" \/ pc[w] = "ack"
                           => reserved[w] \in Scans
  BY DEF JobInv, InStage, P!TypeOK, P!Owns, P!OwnerPCs
<1>4. AckedIsSettled'
  BY <1>3 DEF JobInv, AckedIsSettled, Settled, Writes
<1>5. QED BY <1>1, <1>2, <1>4 DEF JobInv

\* A worker that is in process_job stays there with its job, and one that
\* was not neither enters it nor comes to acknowledge.
Elsewhere ==
  /\ UNCHANGED <<row, run, stage>>
  /\ \A w \in Workers :
       \/ pc'[w] = pc[w] /\ reserved'[w] = reserved[w]
       \/ pc[w] # "job" /\ pc'[w] \notin {"job", "ack"}

LEMMA ElsewhereKeeps == ASSUME JobInv, Elsewhere PROVE JobInv'
<1>1. Shape'
  BY DEF JobInv, Shape, Elsewhere
<1>2. InStage'
  BY DEF JobInv, InStage, Elsewhere
<1>3. AckedIsSettled'
  BY DEF JobInv, InStage, AckedIsSettled, Settled, Elsewhere
<1>4. QED BY <1>1, <1>2, <1>3 DEF JobInv

LEMMA LoopElsewhere ==
  ASSUME P!TypeOK, NEW w \in Workers, WorkerStep(w) \/ Heartbeat(w) \/ WorkerFault(w)
  PROVE  Elsewhere
<1> USE DEF P!TypeOK, P!Goto, P!redisVars, P!recoveryVars, P!historyVars
<1>1. UNCHANGED <<row, run, stage>>
  BY DEF WorkerStep, Heartbeat, WorkerFault, runVars
<1>2. CASE P!Recover(w)
  BY <1>1, <1>2 DEF Elsewhere, P!Recover, P!RecoverSkip, P!RecoverClaim, P!RecoverPop,
       P!RecoverPush, P!RecoverDrained, P!RecoverDelete, P!RecoverDone
<1>3. CASE P!StartWorker(w) \/ P!Loop(w) \/ P!Exit(w) \/ P!ReserveMalformed(w) \/ P!ReserveTimeout(w)
  BY <1>1, <1>3 DEF Elsewhere, P!StartWorker, P!Loop, P!Exit, P!ReserveMalformed, P!Take,
       P!ReserveTimeout, P!BeginRecovery
<1>4. CASE P!Ack(w) \/ P!Requeue(w)
  BY <1>1, <1>4 DEF Elsewhere, P!Ack, P!Requeue
<1>5. CASE P!Beat(w) \/ P!Expire(w)
  BY <1>1, <1>5 DEF Elsewhere, P!Beat, P!Expire
<1>6. CASE P!RecoverAbort(w) \/ P!ReserveReplyLost(w) \/ P!StopSignal(w)
  BY <1>1, <1>6 DEF Elsewhere, P!RecoverAbort, P!ReserveReplyLost, P!Take, P!StopSignal, P!RecoveryPCs
<1>7. CASE P!AckFails(w) \/ P!RequeueFails(w)
  BY <1>1, <1>7 DEF Elsewhere, P!AckFails, P!RequeueFails
<1>8. QED
  BY <1>2, <1>3, <1>4, <1>5, <1>6, <1>7, SameRecover, SameMainLoop, SameFault
     DEF WorkerStep, Heartbeat, WorkerFault

LEMMA WebWrites ==
  ASSUME Shape, HttpInv, NEW h \in Threads,
         \/ CountActive(h) \/ EnqueueRaises(h) \/ Serve(h)
         \/ WebCrash \/ \E s \in Scans : ReadRow(h, s)
  PROVE  Writes
<1> USE DEF Writes, Shape, HttpAt, runVars, queueVars
<1>1. CASE CountActive(h) \/ WebCrash \/ \E s \in Scans : ReadRow(h, s)
  BY <1>1 DEF CountActive, WebCrash, ReadRow
<1>2. CASE Enqueue(h) \/ EnqueueRaises(h)
  BY <1>2 DEF Enqueue, EnqueueRaises, Q!Enqueue
<1>3. CASE RequestCancel(h)
  BY <1>3 DEF RequestCancel
<1>4. CASE CreateRecord(h)
  BY <1>4 DEF CreateRecord
<1>5. CASE MarkFailed(h)
  BY <1>5 DEF MarkFailed, HttpInv, Settled
<1>6. CASE WriteCancel(h)
  BY <1>6 DEF WriteCancel, NextStatus, Settled
<1>7. QED BY <1>1, <1>2, <1>3, <1>4, <1>5, <1>6 DEF Serve

\* process_job, step by step.
LEMMA ProcessKeeps ==
  ASSUME JobInv, P!TypeOK, P!OwnerApart, NEW w \in Workers,
         Reserve(w) \/ Admit(w) \/ Refuse(w) \/ MarkCancelled(w)
  PROVE  JobInv'
<1> USE DEF JobInv, Shape, InStage, AckedIsSettled, Settled, P!TypeOK, P!Goto,
        StageAt, StageGoto, runVars
<1>1. CASE Reserve(w)
  <2>1. P!Reserve(w)
    BY <1>1, SameMainLoop DEF Reserve
  <2>2. /\ UNCHANGED <<row, run>>
        /\ stage' = [stage EXCEPT ![w] = "admit"]
    BY <1>1 DEF Reserve
  <2>3. /\ pc' = [pc EXCEPT ![w] = "job"]
        /\ \A v \in Workers : v # w => reserved'[v] = reserved[v]
        /\ stage[w] = "none"
    BY <1>1, <2>1 DEF P!Reserve, P!Take
  <2>4. QED BY <2>2, <2>3
<1>2. CASE Admit(w)
  <2>1. UNCHANGED <<pc, reserved, row>>
    BY <1>2 DEF Admit, queueVars, R!Begin
  <2>2. QED BY <1>2, <2>1 DEF Admit, R!Begin, R!At, R!Idle, R!Outcomes
<1>3. CASE Refuse(w)
  BY <1>3 DEF Refuse, queueVars
<1>4. CASE MarkCancelled(w)
  <2>1. UNCHANGED <<pc, reserved, run>>
    BY <1>4 DEF MarkCancelled, queueVars
  <2>2. \A v \in Workers : stage[v] = "clear" \/ run[v].pc = "ended" \/ pc[v] = "ack"
                             => reserved[v] \in Scans
    BY DEF P!Owns, P!OwnerPCs
  <2>3. reserved[w] \in Scans
    BY <1>4 DEF P!Owns, P!OwnerPCs, MarkCancelled
  <2>4. QED BY <1>4, <2>1, <2>2, <2>3 DEF MarkCancelled
<1>5. QED BY <1>1, <1>2, <1>3, <1>4

LEMMA ExecutesKeeps ==
  ASSUME JobInv, P!TypeOK, P!OwnerApart, NEW w \in Workers, RunScan(w) \/ RunFails(w)
  PROVE  JobInv' /\ stage[w] = "run" /\ Executes(w) /\ UNCHANGED <<P!vars, stage, http>>
<1>1. UNCHANGED <<P!vars, stage, http>>
  BY QueueVars DEF RunScan, RunFails
<1>2. stage[w] = "run"
  BY DEF RunScan, RunFails, StageAt, JobInv, InStage, R!RunError,
         R!StartFails, R!Fatal, R!PersistFails, R!At
<1>3. \E cancelled \in BOOLEAN : R!RunStep(w, cancelled) \/ R!RunError(w)
  BY DEF RunScan, RunFails
<1>4. Executes(w)
  BY <1>2, <1>3, RunExecutes DEF JobInv
<1>5. UNCHANGED <<pc, reserved, stage>>
  BY <1>1 DEF P!vars
<1>6. Shape' /\ InStage'
  BY <1>2, <1>4, <1>5 DEF JobInv, Shape, InStage, Executes
<1>7. run[w].scan = reserved[w] /\ reserved[w] \in Scans
  BY <1>2 DEF JobInv, InStage, P!TypeOK, P!Owns, P!OwnerPCs
<1>8. ASSUME NEW v \in Workers, v # w,
             stage[v] = "clear" \/ run[v].pc = "ended" \/ pc[v] = "ack"
      PROVE  Settled(reserved[v])'
  <2>1. reserved[v] \in Scans /\ Settled(reserved[v])
    BY <1>8 DEF JobInv, InStage, AckedIsSettled, P!TypeOK, P!Owns, P!OwnerPCs
  <2>2. reserved[v] # reserved[w]
    BY <1>7, <1>8, <2>1, DistributedAssumption DEF P!OwnerApart
  <2>3. row'[reserved[v]] = row[reserved[v]]
    BY <1>4, <1>7, <2>1, <2>2 DEF Executes
  <2>4. QED BY <1>5, <2>1, <2>3 DEF Settled
<1>9. run'[w].pc = "ended" => Settled(reserved[w])'
  BY <1>4, <1>5, <1>7 DEF Executes, Settled, R!Outcomes
<1>10. stage[w] # "clear" /\ pc[w] # "ack"
  BY <1>2 DEF JobInv, InStage
<1>11. \A v \in Workers : v # w => run'[v] = run[v]
  BY <1>4 DEF Executes
<1>12. AckedIsSettled'
  BY <1>5, <1>8, <1>9, <1>10, <1>11 DEF AckedIsSettled
<1>13. QED BY <1>1, <1>2, <1>4, <1>6, <1>12 DEF JobInv

LEMMA EndsKeeps ==
  ASSUME JobInv, P!TypeOK, NEW w \in Workers,
         \/ EndRefused(w) \/ EndRun(w) \/ EndRaised(w)
         \/ AdmitRaises(w) \/ Crash(w)
  PROVE  JobInv'
<1> USE DEF JobInv, Shape, InStage, AckedIsSettled, Settled, P!TypeOK, P!Goto,
        StageAt, StageGoto, runVars, R!Leave, R!Idle, R!Outcomes, R!At
<1>1. CASE EndRefused(w)
  <2>1. P!JobDone(w)
    BY <1>1, SameMainLoop DEF EndRefused
  <2>2. QED BY <1>1, <2>1 DEF EndRefused, P!JobDone, P!redisVars
<1>2. CASE EndRun(w)
  <2>1. P!JobDone(w)
    BY <1>2, SameMainLoop DEF EndRun
  <2>2. QED BY <1>2, <2>1 DEF EndRun, P!JobDone, P!redisVars
<1>3. CASE EndRaised(w)
  <2>1. P!JobRaises(w)
    BY <1>3, SameMainLoop DEF EndRaised
  <2>2. QED BY <1>3, <2>1 DEF EndRaised, P!JobRaises, P!redisVars
<1>4. CASE AdmitRaises(w)
  <2>1. P!JobRaises(w)
    BY <1>4, SameMainLoop DEF AdmitRaises
  <2>2. QED BY <1>4, <2>1 DEF AdmitRaises, P!JobRaises, P!redisVars
<1>5. CASE Crash(w)
  <2>1. P!Crash(w)
    BY <1>5, SameFault DEF Crash
  <2>2. QED BY <1>5, <2>1 DEF Crash, P!Crash
<1>6. QED BY <1>1, <1>2, <1>3, <1>4, <1>5

LEMMA JobStep == P!IInv /\ HttpInv /\ JobInv /\ [Next]_vars => JobInv'
<1> SUFFICES ASSUME P!IInv, HttpInv, JobInv, [Next]_vars PROVE JobInv'
  OBVIOUS
<1>1. P!TypeOK /\ P!OwnerApart /\ Shape
  BY DEF P!IInv, P!Places, JobInv
<1>2. ASSUME NEW h \in Threads,
             \/ CountActive(h) \/ EnqueueRaises(h) \/ Serve(h)
             \/ WebCrash \/ \E s \in Scans : ReadRow(h, s)
      PROVE  JobInv'
  BY <1>1, <1>2, WebWrites, WritesKeeps
<1>3. WebCrash => \E h \in Threads : TRUE
  BY DEF WebCrash, Threads
<1>4. ASSUME NEW w \in Workers, Worker(w) \/ RunFails(w) \/ AdmitRaises(w)
                                \/ Heartbeat(w) \/ WorkerFault(w) \/ Crash(w)
      PROVE  JobInv'
  BY <1>1, <1>4, LoopElsewhere, ElsewhereKeeps, ProcessKeeps, ExecutesKeeps, EndsKeeps
     DEF Worker, ProcessJob
<1>5. CASE UNCHANGED vars
  <2>1. Writes
    BY <1>1, <1>5 DEF Writes, Shape, vars, queueVars, runVars
  <2>2. QED BY <1>1, <2>1, WritesKeeps
<1>6. QED BY <1>2, <1>3, <1>4, <1>5 DEF Next, Threads

LEMMA SameCardinality == \A S : Cardinality(S) = Cardinality(S)
BY DEF Cardinality, Cardinality

\* While heartbeats are kept, process_job and run_scan stay where the worker's
\* loop is, and a job is acknowledged only when its row is settled.
THEOREM JobInductive ==
  ASSUME P!HeartbeatsKept PROVE Spec => [](P!IInv /\ HttpInv /\ JobInv)
<1>1. Spec => []P!IInv
  BY ImplementsQueue, QueueInductive, PTL
<1>2. QED BY <1>1, HttpHolds, InitJob, JobStep, PTL DEF Spec

(* With the heartbeats kept, two executions never write to the row of one  *)
(* scan: the queue gives a job to a second worker only when the first has  *)
(* left process_job, and with it run_scan.                                 *)
THEOREM OneExecutionHolds ==
  ASSUME P!HeartbeatsKept PROVE Spec => []OneExecution
<1>1. ASSUME P!IInv, JobInv PROVE OneExecution
  <2>1. ASSUME NEW s \in Scans, NEW w \in Workers, NEW v \in Workers,
               run[w].scan = s, run[v].scan = s
        PROVE  w = v
    BY <1>1, <2>1, DistributedAssumption
       DEF P!IInv, P!Places, P!OwnerApart, JobInv, InStage
  <2>2. ASSUME NEW s \in Scans PROVE Cardinality(Executing(s)) <= 1
    <3>1. CASE Executing(s) = {}
      BY <3>1, FS_EmptySet
    <3>2. ASSUME NEW w \in Executing(s) PROVE Cardinality(Executing(s)) <= 1
      <4>1. Executing(s) = {w}
        BY <2>1, <3>2 DEF Executing
      <4>2. Cardinality(Executing(s)) = 1
        BY <4>1, FS_Singleton
      <4>3. QED BY <4>2
    <3>3. QED BY <3>1, <3>2
  <2>3. QED BY <2>2, SameCardinality DEF OneExecution
<1>2. QED BY <1>1, JobInductive, PTL

-----------------------------------------------------------------------------
(* No row is left behind: what says queued or running has its job.         *)

LEMMA OwnerSomewhere ==
  ASSUME P!IInv, NEW w \in Workers, pc[w] = "job" PROVE P!Somewhere(reserved[w])
BY DEF P!IInv, P!Places, P!OwnerHolds, P!Somewhere

\* What is written to the row of a scan, and by whom.
LEMMA RowWrites ==
  ASSUME P!IInv, HttpInv, JobInv, [Next]_vars, NEW s \in Scans, row'[s] # row[s]
  PROVE  \/ \E h \in Launchers : http'[h].scan = s
         \/ Settled(s)'
         \/ P!Somewhere(s) /\ UNCHANGED <<P!vars, http>>
<1> USE DEF HttpAt, HttpGoto, Respond, Free, StageAt, StageGoto
<1>1. /\ Shape /\ P!TypeOK /\ P!OwnerApart
      /\ DOMAIN http = Threads
      /\ \A h \in Threads : DOMAIN http[h] # {}
  BY DEF P!IInv, P!Places, JobInv, HttpInv
<1>2. ASSUME NEW h \in Threads, CreateRecord(h) PROVE \E g \in Launchers : http'[g].scan = s
  BY <1>1, <1>2 DEF CreateRecord, HttpInv, Shape, Threads
<1>3. ASSUME NEW h \in Threads, MarkFailed(h) PROVE Settled(s)'
  BY <1>1, <1>3 DEF MarkFailed, HttpInv, Shape, Settled
<1>4. ASSUME NEW h \in Threads, WriteCancel(h) PROVE Settled(s)'
  BY <1>1, <1>4 DEF WriteCancel, NextStatus, Shape, Settled
<1>5. ASSUME NEW w \in Workers, MarkCancelled(w) PROVE Settled(s)'
  BY <1>1, <1>5 DEF MarkCancelled, Shape, Settled
<1>6. ASSUME NEW w \in Workers, RunScan(w) \/ RunFails(w)
      PROVE  P!Somewhere(s) /\ UNCHANGED <<P!vars, http>>
  <2>1. stage[w] = "run" /\ Executes(w) /\ UNCHANGED <<P!vars, http>>
    BY <1>1, <1>6, ExecutesKeeps
  <2>2. s = reserved[w] /\ pc[w] = "job"
    BY <2>1 DEF Executes, JobInv, InStage
  <2>3. QED BY <2>1, <2>2, OwnerSomewhere
<1>7. ASSUME NEW h \in Threads,
             \/ CountActive(h) \/ EnqueueRaises(h) \/ Enqueue(h)
             \/ RequestCancel(h) \/ \E t \in Scans : ReadRow(h, t)
      PROVE  UNCHANGED row
  BY <1>7 DEF CountActive, EnqueueRaises, Enqueue, RequestCancel, ReadRow, runVars
<1>8. ASSUME NEW w \in Workers,
             \/ WorkerStep(w) \/ Heartbeat(w) \/ WorkerFault(w)
             \/ Reserve(w) \/ Admit(w) \/ Refuse(w) \/ EndRefused(w)
             \/ EndRun(w) \/ EndRaised(w) \/ AdmitRaises(w) \/ Crash(w)
      PROVE  UNCHANGED row
  BY <1>8 DEF WorkerStep, Heartbeat, WorkerFault, Reserve, Admit, Refuse,
       EndRefused, EndRun, EndRaised, AdmitRaises, Crash, runVars,
       R!Begin, R!Leave
<1>9. WebCrash \/ UNCHANGED vars => UNCHANGED row
  BY DEF WebCrash, vars, runVars
<1>10. QED
  BY <1>2, <1>3, <1>4, <1>5, <1>6, <1>7, <1>8, <1>9
     DEF Next, Worker, ProcessJob, Serve, Threads

\* A request lets go of its scan when the job is in the queue, or when it
\* has written the failure to the row.
LEMMA LauncherStep ==
  ASSUME P!IInv, HttpInv, JobInv, [Next]_vars, "web_crash" \notin WebFaults,
         NEW s \in Scans, NEW h \in Launchers, http[h].scan = s
  PROVE  http'[h].scan = s \/ P!Somewhere(s)' \/ Settled(s)'
<1> USE DEF HttpAt, HttpGoto, Respond, Free
<1>1. /\ DOMAIN http = Threads /\ h \in Threads
      /\ http[h].pc \notin {"free", "create"}
      /\ "scan" \in DOMAIN http[h]
  BY DistributedAssumption DEF HttpInv, Threads
<1>2. CASE Enqueue(h)
  <2>1. P!Enqueue(s)
    BY <1>2, SameEnqueue DEF Enqueue
  <2>2. s \in P!Queued'
    BY <2>1, EnqueuedIsQueued
  <2>3. QED BY <2>2 DEF P!Somewhere
<1>3. CASE MarkFailed(h)
  BY <1>1, <1>3 DEF MarkFailed, HttpInv, JobInv, Shape, Settled
<1>4. CASE WriteCancel(h)
  BY <1>1, <1>4 DEF WriteCancel, NextStatus, JobInv, Shape, Settled
<1>5. ASSUME \/ CountActive(h) \/ CreateRecord(h) \/ EnqueueRaises(h)
             \/ RequestCancel(h) \/ \E t \in Scans : ReadRow(h, t)
      PROVE  http'[h].scan = s
  BY <1>1, <1>5 DEF CountActive, CreateRecord, EnqueueRaises, RequestCancel, ReadRow
<1>6. ASSUME NEW g \in Threads, g # h,
             \/ CountActive(g) \/ EnqueueRaises(g) \/ Serve(g)
             \/ \E t \in Scans : ReadRow(g, t)
      PROVE  http'[h].scan = s
  BY <1>1, <1>6 DEF CountActive, CreateRecord, EnqueueRaises, RequestCancel,
       ReadRow, Serve, Enqueue, MarkFailed, WriteCancel
<1>7. ASSUME NEW w \in Workers, Worker(w) \/ RunFails(w) \/ AdmitRaises(w)
                                \/ Heartbeat(w) \/ WorkerFault(w) \/ Crash(w)
      PROVE  UNCHANGED http
  BY <1>7 DEF Worker, WorkerStep, Reserve, ProcessJob, EndRaised,
       Admit, Refuse, MarkCancelled, RunScan, EndRefused, EndRun,
       RunFails, AdmitRaises, Heartbeat, WorkerFault, Crash
<1>8. ~WebCrash
  BY DEF WebCrash
<1>9. (UNCHANGED vars) => UNCHANGED http
  BY DEF vars
<1>10. QED
  BY <1>2, <1>3, <1>4, <1>5, <1>6, <1>7, <1>8, <1>9 DEF Next, Serve, Threads

LEMMA CoveredStep ==
  ASSUME P!IInv, HttpInv, JobInv, AllCovered, [Next]_vars,
         "recovery_torn" \notin Faults, "web_crash" \notin WebFaults
  PROVE  AllCovered'
<1> SUFFICES ASSUME NEW s \in Scans, row'[s].status \in {"queued", "running"}
             PROVE  Covered(s)'
  BY DEF AllCovered
<1>1. ~Settled(s)'
  BY DEF Settled
<1>2. CASE row'[s] # row[s]
  <2>1. ASSUME P!Somewhere(s), UNCHANGED <<P!vars, http>> PROVE Covered(s)'
    <3>1. P!Queued' = P!Queued /\ \A v \in Workers : P!Held(v)' = P!Held(v)
      BY <2>1 DEF P!vars, P!redisVars, P!Queued, P!Held, P!ToSet
    <3>2. UNCHANGED hand
      BY <2>1 DEF P!vars, P!recoveryVars
    <3>3. QED BY <2>1, <3>1, <3>2 DEF Covered, P!Somewhere
  <2>2. QED BY <1>1, <1>2, <2>1, RowWrites DEF Covered
<1>3. CASE row'[s] = row[s]
  <2>1. Covered(s) /\ ~Settled(s)
    BY <1>3 DEF AllCovered, Settled
  <2>2. CASE P!Somewhere(s)
    <3>1. ~\E w \in Workers : pc[w] = "ack" /\ reserved[w] = s
      BY <2>1 DEF JobInv, AckedIsSettled
    <3>2. QED BY <2>2, <3>1, QueueStep, SomewhereStays DEF Covered
  <2>3. CASE \E h \in Launchers : http[h].scan = s
    BY <1>1, <2>3, LauncherStep DEF Covered
  <2>4. QED BY <2>1, <2>2, <2>3 DEF Covered
<1>4. QED BY <1>2, <1>3

(* A row that says queued or running has a job that recovery or a worker   *)
(* still holds, or a request that is about to enqueue it: no order of       *)
(* crashes, lost replies, failing jobs and cancellations leaves a scan that *)
(* never ends.  The web process must not die between its two writes, nor a  *)
(* worker between the two commands of recovery.                             *)
THEOREM ActiveIsBackedHolds ==
  ASSUME P!HeartbeatsKept, "recovery_torn" \notin Faults, "web_crash" \notin WebFaults
  PROVE  Spec => []ActiveIsBacked
<1>1. Init => AllCovered
  BY DEF Init, R!RunInit, R!NoRow, AllCovered
<1>2. Spec => []AllCovered
  BY <1>1, CoveredStep, JobInductive, PTL DEF Spec
<1>3. AllCovered => ActiveIsBacked
  BY DEF AllCovered, Covered, P!Somewhere, P!Queued, P!Held, P!ToSet, ActiveIsBacked, Backed,
         Q!InRedis, Q!ToSet
<1>4. QED BY <1>2, <1>3, PTL

-----------------------------------------------------------------------------
(* What the row remembers, whatever happens to heartbeats, keys, workers   *)
(* and requests.                                                           *)

LEMMA InitShape == Init => Shape
BY DEF Init, R!RunInit, R!NoRow, R!Idle, R!Outcomes, Shape

LEMMA ShapeStep ==
  ASSUME Shape, [Next]_vars
  PROVE  /\ Shape'
         /\ \A w \in Workers : \/ run'[w].scan \in {run[w].scan, None}
                               \/ ~row[run'[w].scan].cancelRequested
<1> DEFINE Remembers ==
      \A w \in Workers : \/ run'[w].scan \in {run[w].scan, None}
                         \/ ~row[run'[w].scan].cancelRequested
<1> USE DEF Shape, runVars, R!Idle, R!Outcomes, R!Begin, R!Leave, StageGoto
<1>1. ASSUME NEW h \in Threads, Serve(h) \/ CountActive(h) \/ EnqueueRaises(h)
      PROVE  UNCHANGED <<run, stage>> /\ Shape'
  <2>1. ASSUME CreateRecord(h) PROVE UNCHANGED <<run, stage>> /\ Shape'
    BY <2>1 DEF CreateRecord
  <2>2. ASSUME MarkFailed(h) PROVE UNCHANGED <<run, stage>> /\ Shape'
    BY <2>2 DEF MarkFailed
  <2>3. ASSUME WriteCancel(h) PROVE UNCHANGED <<run, stage>> /\ Shape'
    BY <2>3 DEF WriteCancel
  <2>4. ASSUME RequestCancel(h) PROVE UNCHANGED <<run, stage>> /\ Shape'
    BY <2>4 DEF RequestCancel
  <2>5. ASSUME CountActive(h) \/ EnqueueRaises(h) \/ Enqueue(h)
        PROVE  UNCHANGED <<run, stage>> /\ Shape'
    BY <2>5 DEF CountActive, EnqueueRaises, Enqueue
  <2>6. QED BY <1>1, <2>1, <2>2, <2>3, <2>4, <2>5 DEF Serve
<1>2. ASSUME WebCrash \/ \E h \in Threads, s \in Scans : ReadRow(h, s)
      PROVE  UNCHANGED <<row, run, stage>>
  BY <1>2 DEF WebCrash, ReadRow
<1>3. ASSUME NEW w \in Workers, WorkerStep(w) \/ Heartbeat(w) \/ WorkerFault(w)
      PROVE  UNCHANGED <<row, run, stage>>
  BY <1>3 DEF WorkerStep, Heartbeat, WorkerFault
<1>4. ASSUME NEW w \in Workers, Reserve(w) \/ Refuse(w) \/ MarkCancelled(w)
                                \/ EndRefused(w) \/ AdmitRaises(w)
      PROVE  UNCHANGED run /\ Shape'
  <2>1. ASSUME MarkCancelled(w) PROVE UNCHANGED run /\ Shape'
    BY <2>1 DEF MarkCancelled
  <2>2. ASSUME Refuse(w) PROVE UNCHANGED run /\ Shape'
    BY <2>2 DEF Refuse
  <2>3. ASSUME Reserve(w) \/ EndRefused(w) \/ AdmitRaises(w)
        PROVE  UNCHANGED run /\ Shape'
    BY <2>3 DEF Reserve, EndRefused, AdmitRaises
  <2>4. QED BY <1>4, <2>1, <2>2, <2>3
<1>5. ASSUME NEW w \in Workers, Admit(w) PROVE Shape' /\ Remembers
  BY <1>5 DEF Admit, CancelSeen
<1>6. ASSUME NEW w \in Workers, EndRun(w) \/ EndRaised(w) \/ Crash(w)
      PROVE  Shape' /\ Remembers
  BY <1>6 DEF EndRun, EndRaised, Crash
<1>7. ASSUME NEW w \in Workers, RunScan(w) \/ RunFails(w) PROVE Shape' /\ Remembers
  <2>1. UNCHANGED stage
    BY <1>7 DEF RunScan, RunFails
  <2>2. Executes(w)
    BY <1>7, RunExecutes DEF RunScan, RunFails
  <2>3. QED BY <2>1, <2>2 DEF Executes
<1>8. (UNCHANGED vars) => UNCHANGED <<row, run, stage>>
  BY DEF vars
<1>9. QED
  BY <1>1, <1>2, <1>3, <1>4, <1>5, <1>6, <1>7, <1>8
     DEF Next, Worker, ProcessJob, Threads

(* Once the row carries the request to cancel, no execution of the scan    *)
(* begins: not by a redelivery after a crash, nor after the key in Redis   *)
(* was cleared, lapsed heartbeats and torn recoveries included.            *)
THEOREM CancelIsRememberedHolds == Spec => CancelIsRemembered
<1>1. ASSUME Shape, [Next]_vars
      PROVE  [\A s \in Scans : row[s].cancelRequested
                => {w \in Workers : run'[w].scan = s} \subseteq Executing(s)]_vars
  BY <1>1, ShapeStep, DistributedAssumption DEF Executing
<1>2. Spec => []Shape
  BY InitShape, ShapeStep, PTL DEF Spec
<1>3. QED BY <1>1, <1>2, PTL DEF Spec, CancelIsRemembered
=============================================================================
