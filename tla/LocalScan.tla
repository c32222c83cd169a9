----------------------------- MODULE LocalScan -----------------------------
(***************************************************************************)
(* Scans executed inside the web process (SCAN_QUEUE_BACKEND=local): the   *)
(* handlers scan_live and cancel_scan of src/app.py, the registry and the  *)
(* thread pool of src/services/scan_manager.py, run_scan on a pool thread, *)
(* and the restart that init_db of src/database.py cleans up after.        *)
(*                                                                         *)
(* The scans are those of one user: the quota is per user and users share  *)
(* nothing but the pool.  A scan id is executed at most once, so the       *)
(* executors of ScanRun are the scans themselves.                          *)
(***************************************************************************)
EXTENDS Integers, SequencesExt

CONSTANTS
  Scans, Total, Budget, DbErrors, None,
  MaxActive,    \* MAX_ACTIVE_SCANS_PER_USER
  PoolSize,     \* SCAN_WORKERS
  Launchers,    \* threads of the server that may serve scan_live
  Cancellers,   \* threads of the server that may serve cancel_scan
  MaxRestarts   \* bound: how many times the process is restarted

ASSUME LocalAssumption ==
  /\ Total \in Nat \ {0}
  /\ Budget \in Nat
  /\ MaxActive \in Nat \ {0}
  /\ PoolSize \in Nat \ {0}
  /\ MaxRestarts \in Nat
  /\ Launchers \cap Cancellers = {}
  /\ IsFiniteSet(Scans) /\ IsFiniteSet(Launchers) /\ IsFiniteSet(Cancellers)

VARIABLES
  row, run, announced,
  runtimes,     \* _RUNTIMES: the scans with a registered ScanRuntime
  tracked,      \* _FUTURES: the scans whose future the registry knows
  future,       \* the state of each scan's future
  hooked,       \* the futures that have unregister as a done callback
  workq,        \* the pool's queue of submitted jobs
  cancelEvent,  \* the scans whose runtime has its cancel_event set
  http,         \* what each server thread is doing
  restarts

R == INSTANCE ScanRun WITH Execs <- Scans

runVars == <<row, run, announced>>
registry == <<runtimes, tracked, future, hooked, workq, cancelEvent>>
vars == <<runVars, registry, http, restarts>>

Free == [pc |-> "free", scan |-> None, seen |-> "none"]
Threads == Launchers \cup Cancellers

HttpAt(h, label) == http[h].pc = label
HttpGoto(h, label) == http' = [http EXCEPT ![h].pc = label]
Respond(h) == http' = [http EXCEPT ![h] = Free]

Init ==
  /\ R!RunInit
  /\ runtimes = {}
  /\ tracked = {}
  /\ future = [s \in Scans |-> "none"]
  /\ hooked = {}
  /\ workq = <<>>
  /\ cancelEvent = {}
  /\ http = [h \in Threads |-> Free]
  /\ restarts = 0

-----------------------------------------------------------------------------
\* scan_live, from the check of the quota to the answer.

\* active_scan_count, in local mode active_count_for_user.
AtLimit == Cardinality(runtimes) <= MaxActive  \* variant
BelowLimit == Cardinality(runtimes) < MaxActive

CountActive(h) ==
  /\ h \in Launchers
  /\ HttpAt(h, "free")
  /\ BelowLimit
  /\ HttpGoto(h, "create")
  /\ UNCHANGED <<runVars, registry, restarts>>

CreateRecord(h) ==
  /\ HttpAt(h, "create")
  /\ \E s \in Scans :
       /\ row[s].status = "none"
       /\ row' = [row EXCEPT ![s].status = "queued"]
       /\ http' = [http EXCEPT ![h].pc = "register", ![h].scan = s]
  /\ UNCHANGED <<run, announced, registry, restarts>>

Register(h) ==
  /\ HttpAt(h, "register")
  /\ runtimes' = runtimes \cup {http[h].scan}
  /\ HttpGoto(h, "submit")
  /\ UNCHANGED <<runVars, tracked, future, hooked, workq, cancelEvent,
                 restarts>>

\* submit, in three steps: the pool has the job before the registry has its
\* future, and the registry has it before the callback is attached.
Submit(h) ==
  /\ HttpAt(h, "submit")
  /\ future' = [future EXCEPT ![http[h].scan] = "pending"]
  /\ workq' = Append(workq, http[h].scan)
  /\ HttpGoto(h, "track")
  /\ UNCHANGED <<runVars, runtimes, tracked, hooked, cancelEvent, restarts>>

Track(h) ==
  /\ HttpAt(h, "track")
  /\ tracked' = tracked \cup {http[h].scan}
  /\ HttpGoto(h, "hook")
  /\ UNCHANGED <<runVars, runtimes, future, hooked, workq, cancelEvent,
                 restarts>>

FutureStarted(s) == future[s] # "pending"  \* variant
FutureDone(s) == future[s] \in {"cancelled", "finished"}

\* unregister
Unregister(s) ==
  /\ runtimes' = runtimes \ {s}
  /\ tracked' = tracked \ {s}

\* Variant: a callback attached too late never runs.
HookOnly(h) ==
  /\ HttpAt(h, "hook")
  /\ hooked' = hooked \cup {http[h].scan}
  /\ Respond(h)
  /\ UNCHANGED <<runVars, runtimes, tracked, future, workq, cancelEvent,
                 restarts>>

\* add_done_callback runs the callback itself if the future is done already.
Hook(h) ==
  /\ HttpAt(h, "hook")
  /\ LET s == http[h].scan
     IN  IF FutureDone(s) THEN Unregister(s) /\ UNCHANGED hooked
         ELSE hooked' = hooked \cup {s} /\ UNCHANGED <<runtimes, tracked>>
  /\ Respond(h)
  /\ UNCHANGED <<runVars, future, workq, cancelEvent, restarts>>

-----------------------------------------------------------------------------
\* The pool: a thread takes a job, drops it if its future was cancelled, and
\* sets the result of the future, which then runs the callbacks.

Running == {s \in Scans : run[s].pc # "idle"}

PoolStart ==
  /\ workq # <<>>
  /\ Cardinality(Running) < PoolSize
  /\ LET s == Head(workq)
     IN  IF future[s] = "cancelled" THEN UNCHANGED <<future, runVars>>
         ELSE /\ future' = [future EXCEPT ![s] = "running"]
              /\ R!Begin(s, s)
  /\ workq' = Tail(workq)
  /\ UNCHANGED <<runtimes, tracked, hooked, cancelEvent, http, restarts>>

RunScan(s) ==
  /\ R!RunStep(s, s \in cancelEvent)
  /\ UNCHANGED <<registry, http, restarts>>

RunFails(s) ==
  /\ R!RunError(s)
  /\ UNCHANGED <<registry, http, restarts>>

SetResult(s) ==
  /\ run[s].pc \in {"ended", "raised"}
  /\ future[s] = "running"
  /\ future' = [future EXCEPT ![s] = "finished"]
  /\ UNCHANGED <<runVars, runtimes, tracked, hooked, workq, cancelEvent, http,
                 restarts>>

\* The callbacks attached by the time the result was set; then the thread is
\* free for the next job.
RunCallbacks(s) ==
  /\ run[s].pc \in {"ended", "raised"}
  /\ future[s] = "finished"
  /\ IF s \in hooked THEN Unregister(s) ELSE UNCHANGED <<runtimes, tracked>>
  /\ R!Leave(s)
  /\ UNCHANGED <<future, hooked, workq, cancelEvent, http, restarts>>

-----------------------------------------------------------------------------
\* cancel_scan

\* The row is read, and its status used after it may have changed.
ReadRow(h, s) ==
  /\ h \in Cancellers
  /\ HttpAt(h, "free")
  /\ row[s].status \in R!Active
  /\ http' = [http EXCEPT ![h] =
                [pc |-> "cancel", scan |-> s, seen |-> row[s].status]]
  /\ UNCHANGED <<runVars, registry, restarts>>

\* cancel, under the registry's lock.  Cancelling a pending future runs its
\* callback, unregister, in this thread.
CancelManaged(h) ==
  /\ HttpAt(h, "cancel")
  /\ LET s == http[h].scan
     IN  /\ cancelEvent' = IF s \in runtimes THEN cancelEvent \cup {s}
                           ELSE cancelEvent
         /\ IF s \in tracked /\ future[s] = "pending"
            THEN /\ future' = [future EXCEPT ![s] = "cancelled"]
                 /\ IF s \in hooked THEN Unregister(s)
                    ELSE UNCHANGED <<runtimes, tracked>>
            ELSE UNCHANGED <<future, runtimes, tracked>>
  /\ HttpGoto(h, "write")
  /\ UNCHANGED <<runVars, hooked, workq, restarts>>

NextStatus(seen) == IF seen = "queued" THEN "cancelled" ELSE "cancelling"

WriteCancel(h) ==
  /\ HttpAt(h, "write")
  /\ LET s == http[h].scan
         next == NextStatus(http[h].seen)
     IN  row' = [row EXCEPT ![s].status = next, ![s].cancelRequested = TRUE,
                            ![s].completed = @ \/ next = "cancelled"]
  /\ Respond(h)
  /\ UNCHANGED <<run, announced, registry, restarts>>

-----------------------------------------------------------------------------
\* init_db closes the rows of the scans that were active.  Variants: it
\* closes every row, or only those that were running.
Stopped(r) == [r EXCEPT !.status = "interrupted", !.completed = TRUE]
AlwaysInterrupted(r) == Stopped(r)
InterruptedIfRunning(r) == IF r.status = "running" THEN Stopped(r) ELSE r
Interrupted(r) == IF r.status \in R!Active THEN Stopped(r) ELSE r

\* The process dies and a new one starts.
Restart ==
  /\ restarts < MaxRestarts
  /\ restarts' = restarts + 1
  /\ row' = [s \in Scans |-> Interrupted(row[s])]
  /\ run' = [s \in Scans |-> R!Idle]
  /\ runtimes' = {}
  /\ tracked' = {}
  /\ future' = [s \in Scans |-> "none"]
  /\ hooked' = {}
  /\ workq' = <<>>
  /\ cancelEvent' = {}
  /\ http' = [h \in Threads |-> Free]
  /\ UNCHANGED announced

-----------------------------------------------------------------------------
Launch(h) ==
  CreateRecord(h) \/ Register(h) \/ Submit(h) \/ Track(h) \/ Hook(h)

Cancel(h) == CancelManaged(h) \/ WriteCancel(h)

Pool(s) == RunScan(s) \/ SetResult(s) \/ RunCallbacks(s)

Next ==
  \/ \E h \in Launchers : CountActive(h) \/ Launch(h)
  \/ \E h \in Cancellers : (\E s \in Scans : ReadRow(h, s)) \/ Cancel(h)
  \/ PoolStart
  \/ \E s \in Scans : Pool(s) \/ RunFails(s)
  \/ Restart

Spec == Init /\ [][Next]_vars

\* Threads are scheduled: a handler that has begun and a pool thread with a
\* job go on.  Nobody has to start or cancel a scan.  A scanner ends: it
\* sends boundedly many requests, each with a timeout.
Fairness ==
  /\ \A h \in Threads : WF_vars(Launch(h) \/ Cancel(h))
  /\ WF_vars(PoolStart)
  /\ \A s \in Scans : WF_vars(Pool(s))

FairSpec == Spec /\ Fairness

-----------------------------------------------------------------------------
Launching(s) == {h \in Launchers : http[h].scan = s}

\* A registered runtime never outlives its scan: a request is still being
\* served that will hook its future, or the future is hooked and its result
\* or its cancellation is still to come.  Otherwise the user's quota would
\* be used up for good.
RegistryIsBacked ==
  \A s \in runtimes \cup tracked :
    \/ Launching(s) # {}
    \/ s \in hooked /\ future[s] \in {"pending", "running"}
    \/ s \in hooked /\ future[s] = "finished" /\ run[s].pc # "idle"

\* Every scan that executes is in the registry: it counts against the quota
\* and can be cancelled.
RunningIsRegistered ==
  \A s \in Scans : run[s].pc \in R!Busy => s \in runtimes

\* A row that says queued or running belongs to a scan somebody will still
\* bring to an end: a request, the pool, or the cancel that stopped it.
\* Otherwise the database failed its execution.
LiveRowIsOwned ==
  \A s \in Scans : row[s].status \in {"queued", "running"} =>
    \/ Launching(s) # {}
    \/ future[s] = "pending"
    \/ run[s].pc \in R!Busy
    \/ DbErrors /\ (run[s].pc = "raised" \/ future[s] = "finished")
    \/ \E h \in Cancellers : HttpAt(h, "write") /\ http[h].scan = s

\* The check of the quota and the registration are apart: requests served at
\* the same time can overshoot the limit, but each by one scan at most.
OvershootBounded ==
  Cardinality(runtimes) <= MaxActive + Cardinality(Launchers) - 1

\* Without cancellations no work is done under a terminal status: what a
\* client that observed it relies on.
TerminalIsQuiet ==
  \A s \in Scans :
    row[s].status \in R!Terminal => run[s].pc \notin R!Busy

Lifecycle == INSTANCE ScanLifecycle WITH status <- [s \in Scans |-> row[s].status]

\* Without cancellations the status of a scan goes its documented way, and a
\* terminal status is final, even when the server is restarted.
FollowsLifecycle == Lifecycle!LifecycleSpec

\* Once its event is set an execution sends at most the one request it had
\* already been cleared for, whichever scanner it is in.
CancelStopsRequests ==
  \A s \in Scans : \A n \in 0..Budget :
    [](s \in cancelEvent /\ run[s].requests = n => [](run[s].requests <= n + 1))

\* Whatever is registered is eventually released.
SlotReleased == \A s \in Scans : s \in runtimes ~> s \notin runtimes

\* A cancellation ends: the status cancelling is not for ever.
CancellingResolves ==
  \A s \in Scans : row[s].status = "cancelling" ~> row[s].status # "cancelling"

\* Every scan that was accepted ends in a terminal status.
EveryScanEnds ==
  \A s \in Scans : row[s].status = "queued" ~> row[s].status \in R!Terminal
=============================================================================
