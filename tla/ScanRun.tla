------------------------------ MODULE ScanRun ------------------------------
(***************************************************************************)
(* One execution of a scan: run_scan and the row it keeps in the table     *)
(* scans (src/app.py), with the request budget and the cancellation checks *)
(* of ScanRuntime (src/services/scan_runtime.py).                          *)
(*                                                                         *)
(* An execution interleaves with the HTTP handlers, and with other         *)
(* executions, between any two of its accesses to the database, to the     *)
(* cancellation flags and to the request counter.  The outcome of          *)
(* is_cancelled is the argument `cancelled`: the modules that run          *)
(* executions say where it comes from.  On its own the module allows any   *)
(* outcome, any number of executions of a scan, and crashes, so what it    *)
(* promises holds for every caller.                                        *)
(*                                                                         *)
(* Scanner results are abstracted to their number.                         *)
(***************************************************************************)
EXTENDS Integers

CONSTANTS
  Scans,   \* scan ids
  Execs,   \* what executes run_scan: a pool thread, a worker process
  Total,   \* the number of scanners selected
  Budget,  \* request_budget
  DbErrors,\* whether the database or the Socket.IO message queue may fail
  None

ASSUME ScanRunAssumption ==
  /\ Total \in Nat \ {0}
  /\ Budget \in Nat
  /\ DbErrors \in BOOLEAN
  /\ None \notin Scans

Terminal == {"done", "cancelled", "budget_exhausted", "failed", "interrupted"}
Active == {"queued", "running", "cancelling"}
Outcomes == {"done", "cancelled", "budget_exhausted", "failed"}

VARIABLES
  row,       \* the row of each scan; status "none" before it is inserted
  run,       \* what each executor is doing
  announced  \* the scans whose audit and scan_complete were sent, or tried

runVars == <<row, run, announced>>

NoRow == [status |-> "none", cancelRequested |-> FALSE, progress |-> 0,
          results |-> 0, requests |-> 0, completed |-> FALSE]

Idle == [pc |-> "idle", scan |-> None, index |-> 0, results |-> 0,
         requests |-> 0, outcome |-> "done"]

InTry == {"check", "mark", "scan", "charge", "record"}
Busy == InTry \cup {"start", "wrapup", "final"}

RunInit ==
  /\ row = [s \in Scans |-> NoRow]
  /\ run = [e \in Execs |-> Idle]
  /\ announced = {}

At(e, label) == run[e].pc = label
Goto(e, label) == run' = [run EXCEPT ![e].pc = label]

\* int(part / total * 100)
Percent(part) == (100 * part) \div Total
AtMost99(n) == IF n > 99 THEN 99 ELSE n

\* create_scan_record
Create(s) ==
  /\ row[s].status = "none"
  /\ row' = [row EXCEPT ![s].status = "queued"]
  /\ UNCHANGED <<run, announced>>

\* run_scan(scan_id, ...) is called with a fresh ScanRuntime.
Begin(e, s) ==
  /\ At(e, "idle")
  /\ run' = [run EXCEPT ![e] = [Idle EXCEPT !.pc = "start", !.scan = s]]
  /\ UNCHANGED <<row, announced>>

\* The first update_scan_progress, before the try.
Opened(s) == [row EXCEPT ![s].status = "running", ![s].progress = 0]

Start(e) ==
  /\ At(e, "start")
  /\ row' = Opened(run[e].scan)
  /\ Goto(e, "check")
  /\ UNCHANGED announced

\* It raises, or emit_log does after it: run_scan ends without its finally.
StartFails(e) ==
  /\ DbErrors
  /\ At(e, "start")
  /\ row' \in {row, Opened(run[e].scan)}
  /\ Goto(e, "raised")
  /\ UNCHANGED announced

\* Variant: the terminal status is written before the finally clause.
FinishAndPersist(e, outcome, results) ==
  /\ run' = [run EXCEPT ![e].pc = "wrapup", ![e].outcome = outcome,
                        ![e].results = results]
  /\ row' = [row EXCEPT ![run[e].scan].status = outcome]
  /\ UNCHANGED announced

Finish(e, outcome, results) ==
  /\ run' = [run EXCEPT ![e].pc = "wrapup", ![e].outcome = outcome,
                        ![e].results = results]
  /\ UNCHANGED <<row, announced>>

\* The head of the loop over the scanners.
Check(e, cancelled) ==
  /\ At(e, "check")
  /\ run[e].index < Total
  /\ IF cancelled THEN Finish(e, "cancelled", run[e].results)
     ELSE Goto(e, "mark") /\ UNCHANGED <<row, announced>>

\* Variant: the loop ends one scanner early.
AllButOneScanned(e) ==
  /\ At(e, "check")
  /\ run[e].index = Total - 1
  /\ Finish(e, "done", run[e].results)

AllScanned(e) ==
  /\ At(e, "check")
  /\ run[e].index = Total
  /\ Finish(e, "done", run[e].results)

\* update_scan_progress while the scan runs: every field is the execution's.
Report(e, results, progress) ==
  row' = [row EXCEPT ![run[e].scan].status = "running",
                     ![run[e].scan].results = results,
                     ![run[e].scan].progress = progress,
                     ![run[e].scan].requests = run[e].requests]

Mark(e) ==
  /\ At(e, "mark")
  /\ Report(e, run[e].results, Percent(run[e].index))
  /\ Goto(e, "scan")
  /\ UNCHANGED announced

\* Variant: only the loop over the scanners looks for a cancellation.
RequestUnchecked(e, cancelled) ==
  /\ At(e, "scan")
  /\ Goto(e, "charge")
  /\ UNCHANGED <<row, announced>>

\* before_request: the cancellation check, then the count under the lock.
BeforeRequest(e, cancelled) ==
  /\ At(e, "scan")
  /\ IF cancelled THEN Finish(e, "cancelled", run[e].results)
     ELSE Goto(e, "charge") /\ UNCHANGED <<row, announced>>

\* Variant: one request too many.
ChargeOver(e) ==
  /\ At(e, "charge")
  /\ IF run[e].requests > Budget
     THEN Finish(e, "budget_exhausted", run[e].results)
     ELSE /\ run' = [run EXCEPT ![e].pc = "scan", ![e].requests = @ + 1]
          /\ UNCHANGED <<row, announced>>

Charge(e) ==
  /\ At(e, "charge")
  /\ IF run[e].requests >= Budget
     THEN Finish(e, "budget_exhausted", run[e].results)
     ELSE /\ run' = [run EXCEPT ![e].pc = "scan", ![e].requests = @ + 1]
          /\ UNCHANGED <<row, announced>>

\* The scanner returns, or raises anything else: one more result either way.
ScannerEnds(e) ==
  /\ At(e, "scan")
  /\ run' = [run EXCEPT ![e].pc = "record", ![e].results = @ + 1]
  /\ UNCHANGED <<row, announced>>

Record(e) ==
  /\ At(e, "record")
  /\ Report(e, run[e].results, Percent(run[e].index + 1))
  /\ run' = [run EXCEPT ![e].pc = "check", ![e].index = @ + 1]
  /\ UNCHANGED announced

\* update_scan_progress or emit_log raises inside the try: the except clause
\* adds the result "scan_engine".
Fatal(e) ==
  /\ DbErrors
  /\ run[e].pc \in {"check", "mark", "scan", "record"}
  /\ Finish(e, "failed", run[e].results + 1)

\* The finally clause: audit and the two emits, whose errors are swallowed.
Wrapup(e) ==
  /\ At(e, "wrapup")
  /\ announced' = announced \cup {run[e].scan}
  /\ Goto(e, "final")
  /\ UNCHANGED row

Persisted(e) ==
  LET progress == IF run[e].outcome = "done" THEN 100
                  ELSE AtMost99(Percent(run[e].results))
  IN  [row EXCEPT ![run[e].scan] =
         [@ EXCEPT !.status = run[e].outcome, !.results = run[e].results,
                   !.progress = progress, !.requests = run[e].requests,
                   !.completed = TRUE]]

\* "Persist the terminal state last."
Persist(e) ==
  /\ At(e, "final")
  /\ row' = Persisted(e)
  /\ Goto(e, "ended")
  /\ UNCHANGED announced

\* The last update raises, or an emit_log of an except clause did: then the
\* error leaves run_scan after the finally.
PersistFails(e) ==
  /\ DbErrors
  /\ At(e, "final")
  /\ row' \in {row, Persisted(e)}
  /\ Goto(e, "raised")
  /\ UNCHANGED announced

\* One step of run_scan.  Errors are apart: no fairness is asked of them.
RunStep(e, cancelled) ==
  \/ Start(e) \/ Check(e, cancelled) \/ AllScanned(e) \/ Mark(e)
  \/ BeforeRequest(e, cancelled) \/ Charge(e) \/ ScannerEnds(e) \/ Record(e)
  \/ Wrapup(e) \/ Persist(e)

RunError(e) == StartFails(e) \/ Fatal(e) \/ PersistFails(e)

\* run_scan has returned or raised, or its process is gone.
Leave(e) ==
  /\ ~At(e, "idle")
  /\ run' = [run EXCEPT ![e] = Idle]
  /\ UNCHANGED <<row, announced>>

-----------------------------------------------------------------------------
\* Every caller.
RunNext ==
  \/ \E s \in Scans :
       Create(s) \/ \E e \in Execs : row[s].status # "none" /\ Begin(e, s)
  \/ \E e \in Execs :
       (\E cancelled \in BOOLEAN : RunStep(e, cancelled)) \/ RunError(e) \/ Leave(e)

RunSpec == RunInit /\ [][RunNext]_runVars

-----------------------------------------------------------------------------
\* Type invariant.
RunTypeOK ==
  /\ row \in [Scans -> [status : Terminal \cup Active \cup {"none"},
                        cancelRequested : BOOLEAN, progress : 0..100,
                        results : 0..(Total + 1), requests : 0..Budget,
                        completed : BOOLEAN]]
  /\ run \in [Execs -> [pc : Busy \cup {"idle", "ended", "raised"},
                        scan : Scans \cup {None}, index : 0..Total,
                        results : 0..(Total + 1), requests : 0..Budget,
                        outcome : Outcomes]]
  /\ announced \subseteq Scans

\* A scan that says it is done has a result for every scanner and full
\* progress, whatever was cancelled, exhausted or broken on the way, and
\* however many executions of it wrote to its row.
DoneIsComplete ==
  \A s \in Scans :
    row[s].status = "done" =>
      row[s].results = Total /\ row[s].progress = 100 /\ row[s].completed

\* The comment at the last update: whoever reads a terminal status can rely
\* on the side effects of the scan having happened.
TerminalIsAnnounced ==
  \A s \in Scans : row[s].status \in Outcomes => s \in announced

\* No execution counts more requests than its budget allows, nor reports it.
BudgetRespected ==
  /\ \A e \in Execs : run[e].requests <= Budget
  /\ \A s \in Scans : row[s].requests <= Budget
=============================================================================
