--------------------------- MODULE ScanLifecycle ---------------------------
(***************************************************************************)
(* The status of a scan as a client sees it, when nobody cancels: queued,  *)
(* then running, then one terminal status that stays.  It abstracts the    *)
(* writes of src/app.py and src/database.py to the column status;          *)
(* LocalScan without cancellers implements it.                             *)
(***************************************************************************)
CONSTANTS Scans

VARIABLE status

Closing == {"done", "budget_exhausted", "failed"}
Open == {"queued", "running"}

LifecycleInit == status = [s \in Scans |-> "none"]

Accept(s) ==
  /\ status[s] = "none"
  /\ status' = [status EXCEPT ![s] = "queued"]

StartScan(s) ==
  /\ status[s] = "queued"
  /\ status' = [status EXCEPT ![s] = "running"]

\* The last write of run_scan.
Close(s) ==
  /\ status[s] = "running"
  /\ \E outcome \in Closing : status' = [status EXCEPT ![s] = outcome]

\* A restart closes every open scan at once.
Interrupt ==
  status' = [s \in Scans |->
               IF status[s] \in Open THEN "interrupted" ELSE status[s]]

LifecycleNext == Interrupt \/ \E s \in Scans : Accept(s) \/ StartScan(s) \/ Close(s)

LifecycleSpec == LifecycleInit /\ [][LifecycleNext]_status
=============================================================================
