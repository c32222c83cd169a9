-------------------------- MODULE DistributedScan --------------------------
(***************************************************************************)
(* Scans executed by worker processes (SCAN_QUEUE_BACKEND=redis): the      *)
(* handlers scan_live and cancel_scan of src/app.py, the reliable queue    *)
(* and its workers (ReliableQueue), process_job of src/worker.py, and      *)
(* run_scan in a worker (ScanRun).  The job of a scan is the scan.         *)
(*                                                                         *)
(* The web process and every worker share the table scans and Redis.  The  *)
(* scans are those of one user, as in LocalScan.                           *)
(***************************************************************************)
EXTENDS Integers, FiniteSets

CONSTANTS
  Scans, Total, Budget, None,
  Workers, Steady, Poison, Faults,
  MaxActive,    \* MAX_ACTIVE_SCANS_PER_USER
  Launchers,    \* threads of the web process that may serve scan_live
  Cancellers,   \* threads of the web process that may serve cancel_scan
  WebFaults     \* subset of {"web_crash", "redis_down"}

\* A job raises when the database fails it.
DbErrors == "job_error" \in Faults

VARIABLES
  queue, processing, heartbeat, pc, booted, stopped, reserved, toScan, victim,
  hand, sent, taken, completed,
  row, run, announced,
  stage,       \* where process_job is in each worker
  cancelKey,   \* the scans whose key cancel_prefix + id exists in Redis
  http         \* what each thread of the web process is doing

Q == INSTANCE ReliableQueue WITH Jobs <- Scans
R == INSTANCE ScanRun WITH Execs <- Workers

\* Those of the queue, whose jobs are the scans, included.
ASSUME DistributedAssumption ==
  /\ Steady \subseteq Workers
  /\ Poison \subseteq Scans
  /\ Faults \subseteq Q!FaultKinds
  /\ None \notin Scans \cup Workers
  /\ MaxActive \in Nat \ {0}
  /\ WebFaults \subseteq {"web_crash", "redis_down"}
  /\ Launchers \cap Cancellers = {}
  /\ IsFiniteSet(Scans)

queueVars == <<queue, processing, heartbeat, pc, booted, stopped, reserved,
               toScan, victim, hand, sent, taken, completed>>
runVars == <<row, run, announced>>
vars == <<queueVars, runVars, stage, cancelKey, http>>

Free == [pc |-> "free", scan |-> None, seen |-> "none"]
Threads == Launchers \cup Cancellers
HttpAt(h, label) == http[h].pc = label
HttpGoto(h, label) == http' = [http EXCEPT ![h].pc = label]
Respond(h) == http' = [http EXCEPT ![h] = Free]

StageAt(w, label) == stage[w] = label
StageGoto(w, label) == stage' = [stage EXCEPT ![w] = label]

Init ==
  /\ Q!Init
  /\ R!RunInit
  /\ stage = [w \in Workers |-> "none"]
  /\ cancelKey = {}
  /\ http = [h \in Threads |-> Free]

-----------------------------------------------------------------------------
\* scan_live

\* active_scan_count, in redis mode a count over the table.
ActiveScans == {s \in Scans : row[s].status \in R!Active}

CountActive(h) ==
  /\ h \in Launchers
  /\ HttpAt(h, "free")
  /\ Cardinality(ActiveScans) < MaxActive
  /\ HttpGoto(h, "create")
  /\ UNCHANGED <<queueVars, runVars, stage, cancelKey>>

CreateRecord(h) ==
  /\ HttpAt(h, "create")
  /\ \E s \in Scans :
       /\ row[s].status = "none"
       /\ row' = [row EXCEPT ![s].status = "queued"]
       /\ http' = [http EXCEPT ![h].pc = "enqueue", ![h].scan = s]
  /\ UNCHANGED <<queueVars, run, announced, stage, cancelKey>>

Enqueue(h) ==
  /\ HttpAt(h, "enqueue")
  /\ Q!Enqueue(http[h].scan)
  /\ Respond(h)
  /\ UNCHANGED <<runVars, stage, cancelKey>>

\* get_queue, ping or enqueue raises; the command may have been executed.
EnqueueRaises(h) ==
  /\ "redis_down" \in WebFaults
  /\ HttpAt(h, "enqueue")
  /\ Q!Enqueue(http[h].scan) \/ UNCHANGED queueVars
  /\ HttpGoto(h, "fail")
  /\ UNCHANGED <<runVars, stage, cancelKey>>

MarkFailed(h) ==
  /\ HttpAt(h, "fail")
  /\ row' = [row EXCEPT ![http[h].scan] =
               [@ EXCEPT !.status = "failed", !.progress = 0, !.completed = TRUE]]
  /\ Respond(h)
  /\ UNCHANGED <<queueVars, run, announced, stage, cancelKey>>

-----------------------------------------------------------------------------
\* cancel_scan

ReadRow(h, s) ==
  /\ h \in Cancellers
  /\ HttpAt(h, "free")
  /\ row[s].status \in R!Active
  /\ http' = [http EXCEPT ![h] =
                [pc |-> "cancel", scan |-> s, seen |-> row[s].status]]
  /\ UNCHANGED <<queueVars, runVars, stage, cancelKey>>

\* request_cancel; its errors are swallowed.
RequestCancel(h) ==
  /\ HttpAt(h, "cancel")
  /\ \/ cancelKey' = cancelKey \cup {http[h].scan}
     \/ "redis_down" \in WebFaults /\ UNCHANGED cancelKey
  /\ HttpGoto(h, "write")
  /\ UNCHANGED <<queueVars, runVars, stage>>

NextStatus(seen) == IF seen = "queued" THEN "cancelled" ELSE "cancelling"

WriteCancel(h) ==
  /\ HttpAt(h, "write")
  /\ LET s == http[h].scan
         next == NextStatus(http[h].seen)
     IN  row' = [row EXCEPT ![s].status = next, ![s].cancelRequested = TRUE,
                            ![s].completed = @ \/ next = "cancelled"]
  /\ Respond(h)
  /\ UNCHANGED <<queueVars, run, announced, stage, cancelKey>>

\* The web process dies with the requests it was serving.  init_db leaves
\* the rows alone in redis mode.
WebCrash ==
  /\ "web_crash" \in WebFaults
  /\ \E h \in Threads : ~HttpAt(h, "free")
  /\ http' = [h \in Threads |-> Free]
  /\ UNCHANGED <<queueVars, runVars, stage, cancelKey>>

-----------------------------------------------------------------------------
\* process_job

Reserve(w) ==
  /\ Q!Reserve(w)
  /\ StageGoto(w, "admit")
  /\ UNCHANGED <<runVars, cancelKey, http>>

\* cancel_requested(scan) or _scan_was_cancelled(scan).
KeyOnly(s) == s \in cancelKey  \* variant
CancelSeen(s) ==
  s \in cancelKey \/ row[s].cancelRequested \/ row[s].status = "cancelled"

Admit(w) ==
  /\ StageAt(w, "admit")
  /\ ~CancelSeen(reserved[w])
  /\ R!Begin(w, reserved[w])
  /\ StageGoto(w, "run")
  /\ UNCHANGED <<queueVars, cancelKey, http>>

Refuse(w) ==
  /\ StageAt(w, "admit")
  /\ CancelSeen(reserved[w])
  /\ StageGoto(w, "mark")
  /\ UNCHANGED <<queueVars, runVars, cancelKey, http>>

\* _mark_cancelled
MarkCancelled(w) ==
  /\ StageAt(w, "mark")
  /\ row' = [row EXCEPT ![reserved[w]] =
               [@ EXCEPT !.status = "cancelled", !.progress = 0, !.completed = TRUE]]
  /\ StageGoto(w, "clear")
  /\ UNCHANGED <<queueVars, run, announced, cancelKey, http>>

\* The cancel_checker reads Redis and the row; is_cancelled takes an error
\* of it for "no".
RunScan(w) ==
  /\ StageAt(w, "run")
  /\ \E cancelled \in BOOLEAN :
       /\ cancelled => CancelSeen(run[w].scan)
       /\ cancelled \/ ~CancelSeen(run[w].scan) \/ DbErrors
       /\ R!RunStep(w, cancelled)
  /\ UNCHANGED <<queueVars, stage, cancelKey, http>>

RunFails(w) ==
  /\ R!RunError(w)
  /\ UNCHANGED <<queueVars, stage, cancelKey, http>>

ClearCancel(w) == cancelKey' = cancelKey \ {reserved[w]}

\* clear_cancel, after _mark_cancelled or in the finally after run_scan, is
\* the last thing process_job does.
EndRefused(w) ==
  /\ StageAt(w, "clear")
  /\ ClearCancel(w)
  /\ Q!JobDone(w)
  /\ StageGoto(w, "none")
  /\ UNCHANGED <<runVars, http>>

EndRun(w) ==
  /\ run[w].pc = "ended"
  /\ ClearCancel(w)
  /\ Q!JobDone(w)
  /\ R!Leave(w)
  /\ StageGoto(w, "none")
  /\ UNCHANGED http

EndRaised(w) ==
  /\ run[w].pc = "raised"
  /\ ClearCancel(w)
  /\ Q!JobRaises(w)
  /\ R!Leave(w)
  /\ StageGoto(w, "none")
  /\ UNCHANGED http

\* Redis or the database fails process_job outside run_scan.
AdmitRaises(w) ==
  /\ stage[w] \in {"admit", "mark", "clear"}
  /\ Q!JobRaises(w)
  /\ StageGoto(w, "none")
  /\ UNCHANGED <<runVars, cancelKey, http>>

\* A worker dies: what it was executing is gone, what it wrote stays.
Crash(w) ==
  /\ Q!Crash(w)
  /\ run' = [run EXCEPT ![w] = R!Idle]
  /\ StageGoto(w, "none")
  /\ UNCHANGED <<row, announced, cancelKey, http>>

\* The rest of what a worker does leaves the scans alone.
WorkerStep(w) ==
  /\ \/ Q!Recover(w)
     \/ Q!StartWorker(w) \/ Q!Loop(w) \/ Q!Exit(w)
     \/ Q!ReserveMalformed(w) \/ Q!ReserveTimeout(w)
     \/ Q!Ack(w) \/ Q!Requeue(w)
  /\ UNCHANGED <<runVars, stage, cancelKey, http>>

WorkerFault(w) ==
  /\ \/ Q!RecoverAbort(w) \/ Q!ReserveReplyLost(w)
     \/ Q!AckFails(w) \/ Q!RequeueFails(w) \/ Q!StopSignal(w)
  /\ UNCHANGED <<runVars, stage, cancelKey, http>>

Heartbeat(w) ==
  /\ Q!Beat(w) \/ Q!Expire(w)
  /\ UNCHANGED <<runVars, stage, cancelKey, http>>

-----------------------------------------------------------------------------
ProcessJob(w) ==
  \/ Admit(w) \/ Refuse(w) \/ MarkCancelled(w) \/ RunScan(w)
  \/ EndRefused(w) \/ EndRun(w)

Worker(w) == WorkerStep(w) \/ Reserve(w) \/ ProcessJob(w) \/ EndRaised(w)

Serve(h) ==
  CreateRecord(h) \/ Enqueue(h) \/ MarkFailed(h) \/ RequestCancel(h)
  \/ WriteCancel(h)

Next ==
  \/ \E h \in Launchers : CountActive(h) \/ EnqueueRaises(h)
  \/ \E h \in Cancellers, s \in Scans : ReadRow(h, s)
  \/ \E h \in Threads : Serve(h)
  \/ WebCrash
  \/ \E w \in Workers :
       \/ Worker(w) \/ RunFails(w) \/ AdmitRaises(w) \/ Heartbeat(w)
       \/ WorkerFault(w) \/ Crash(w)

Spec == Init /\ [][Next]_vars

\* Handlers and workers are scheduled, and the TTL of a dead worker runs out.
Fairness ==
  /\ \A h \in Threads : WF_vars(Serve(h))
  /\ \A w \in Workers : /\ WF_vars(Worker(w))
                        /\ WF_vars(pc[w] = "dead" /\ Heartbeat(w))

FairSpec == Spec /\ Fairness

-----------------------------------------------------------------------------
Executing(s) == {w \in Workers : run[w].scan = s}

\* The job of a scan is in one of the lists of Redis, or in the hand of a
\* worker that is moving it back.
Backed(s) == Q!InRedis(s) \/ \E w \in Workers : hand[w] = s

\* A row that says queued or running has a job that some worker will still
\* take to its end, or a request that is about to enqueue it.
ActiveIsBacked ==
  \A s \in Scans : row[s].status \in {"queued", "running"} =>
    Backed(s) \/ \E h \in Launchers : http[h].scan = s

\* Two executions never write to the row of one scan.
OneExecution == \A s \in Scans : Cardinality(Executing(s)) <= 1

\* Once the row carries the request to cancel, no execution of the scan
\* begins any more: not after a crash and a redelivery, nor after the key in
\* Redis has been cleared.
CancelIsRemembered ==
  [][\A s \in Scans : row[s].cancelRequested
       => {w \in Workers : run'[w].scan = s} \subseteq Executing(s)]_vars

\* Every scan whose job was enqueued and can be decoded is eventually brought
\* to an end, whatever workers crash or are stopped, as long as one stays up
\* (a scan that is also cancelled may show "cancelling" in the end).
EveryScanEnds ==
  \A s \in Scans \ Poison :
    Backed(s) ~> row[s].status \in R!Terminal \/ row[s].cancelRequested

\* What was requested to stop does stop.
CancelledScanStops ==
  \A s \in Scans : row[s].cancelRequested ~> [](Executing(s) = {})
=============================================================================
