---------------------------- MODULE LocalScanProofs ----------------------------
(***************************************************************************)
(* Proofs about LocalScan, for any number of scans and server threads, any *)
(* quota and pool, database errors, cancellations and restarts.            *)
(***************************************************************************)
EXTENDS LocalScan, FiniteSetTheorems, TLAPS

RunPcs == R!Busy \cup {"idle", "ended", "raised"}

\* The registry does not depend on what is counted, only on where executions
\* are and on whether a scan has a row.
RowType ==
  [status : R!Terminal \cup R!Active \cup {"none"}, cancelRequested : BOOLEAN,
   progress : Int, results : Int, requests : Int, completed : BOOLEAN]
RunType ==
  [pc : RunPcs, scan : Scans \cup {None}, index : Int, results : Int, requests : Int,
   outcome : R!Outcomes]

\* A scan is executed under its own id.
RunsInv ==
  /\ row \in [Scans -> RowType]
  /\ run \in [Scans -> RunType]
  /\ \A s \in Scans : run[s].pc # "idle" => run[s].scan = s

\* What a step of run_scan does to a row and an execution, however it ends.
Moved(s) ==
  /\ run[s].pc \in R!Busy
  /\ run'[s].pc \in RunPcs \ {"idle"}
  /\ row[s].status # "none" => row'[s].status # "none"
  /\ \A u \in Scans \ {s} : run'[u] = run[u] /\ row'[u] = row[u]

-----------------------------------------------------------------------------
\* The row is left alone, or written with a status.
RowWritten(s) ==
  row' = row \/ \E r \in RowType : row' = [row EXCEPT ![s] = r] /\ r.status # "none"

LEMMA MovedBy ==
  ASSUME RunsInv, NEW s \in Scans, NEW x \in RunType, run' = [run EXCEPT ![s] = x],
         x.pc # "idle", x.scan = s, run[s].pc \in R!Busy, RowWritten(s)
  PROVE  RunsInv' /\ Moved(s)
<1>1. /\ run' \in [Scans -> RunType]
      /\ run'[s] = x /\ \A u \in Scans \ {s} : run'[u] = run[u]
  BY DEF RunsInv
<1>2. /\ row' \in [Scans -> RowType]
      /\ \A u \in Scans \ {s} : row'[u] = row[u]
      /\ row'[s] = row[s] \/ row'[s].status # "none"
  BY DEF RunsInv, RowWritten
<1>3. \A u \in Scans : run'[u].pc # "idle" => run'[u].scan = u
  BY <1>1 DEF RunsInv
<1>4. RunsInv'
  BY <1>1, <1>2, <1>3 DEF RunsInv, RowType, RunType, RunPcs
<1>5. x.pc \in RunPcs \ {"idle"}
  BY DEF RunType
<1>6. Moved(s)
  BY <1>1, <1>2, <1>5 DEF Moved
<1>7. QED BY <1>4, <1>6

-----------------------------------------------------------------------------
\* Every step of run_scan, and every error of it, is such a move.
LEMMA GotoMoves ==
  ASSUME RunsInv, NEW s \in Scans, run[s].pc \in R!Busy, NEW l \in RunPcs \ {"idle"},
         R!Goto(s, l), RowWritten(s)
  PROVE  RunsInv' /\ Moved(s)
<1> DEFINE x == [run[s] EXCEPT !.pc = l]
<1>1. run[s] \in RunType /\ run[s].scan = s
  BY DEF RunsInv, R!Busy, R!InTry
<1>2. run' = [run EXCEPT ![s] = x]
  BY DEF R!Goto
<1>3. x \in RunType /\ x.pc = l /\ x.scan = s
  BY <1>1 DEF RunType
<1> HIDE DEF x
<1>4. QED BY <1>2, <1>3, MovedBy

LEMMA FinishMoves ==
  ASSUME RunsInv, NEW s \in Scans, run[s].pc \in R!Busy, NEW o \in R!Outcomes,
         NEW n \in Int, R!Finish(s, o, n)
  PROVE  RunsInv' /\ Moved(s)
<1> DEFINE x == [run[s] EXCEPT !.pc = "wrapup", !.outcome = o, !.results = n]
<1>1. run[s] \in RunType /\ run[s].scan = s
  BY DEF RunsInv, R!Busy, R!InTry
<1>2. run' = [run EXCEPT ![s] = x] /\ row' = row
  BY DEF R!Finish
<1>3. "wrapup" \in RunPcs
  BY DEF RunPcs, R!Busy
<1>4. x \in RunType /\ x.pc = "wrapup" /\ x.scan = s
  BY <1>1, <1>3 DEF RunType
<1> HIDE DEF x
<1>5. RowWritten(s)
  BY <1>2 DEF RowWritten
<1>6. QED BY <1>2, <1>4, <1>5, MovedBy

\* update_scan_progress while the scan runs.
LEMMA ReportWrites ==
  ASSUME RunsInv, NEW s \in Scans, run[s].scan = s, NEW n \in Int, NEW q \in Int,
         R!Report(s, n, q)
  PROVE  RowWritten(s)
<1> DEFINE r == [row[s] EXCEPT !.status = "running", !.results = n, !.progress = q,
                              !.requests = run[s].requests]
<1>1. row' = [row EXCEPT ![s] = r]
  BY DEF R!Report
<1>2. row[s] \in RowType /\ run[s].requests \in Int /\ "running" \in R!Active
  BY DEF RunsInv, RunType, R!Active
<1>3. r \in RowType /\ r.status = "running"
  BY <1>2 DEF RowType
<1> HIDE DEF r
<1>4. QED BY <1>1, <1>3 DEF RowWritten

LEMMA PercentIsInt == \A n \in Int : R!Percent(n) \in Int
BY LocalAssumption DEF R!Percent

LEMMA OpenedWrites ==
  ASSUME RunsInv, NEW s \in Scans, run[s].scan = s, row' = R!Opened(s)
  PROVE  RowWritten(s)
<1> DEFINE q == [row[s] EXCEPT !.status = "running"]
           r == [q EXCEPT !.progress = 0]
<1>1. row' = [row EXCEPT ![s] = r]
  BY DEF R!Opened
<1>2. row[s] \in RowType /\ "running" \in R!Active
  BY DEF RunsInv, R!Active
<1>3. q \in RowType /\ q.status = "running"
  BY <1>2 DEF RowType
<1> HIDE DEF q
<1>4. r \in RowType /\ r.status = "running"
  BY <1>3 DEF RowType
<1> HIDE DEF r
<1>5. QED BY <1>1, <1>4 DEF RowWritten

LEMMA PersistedWrites ==
  ASSUME RunsInv, NEW s \in Scans, run[s].scan = s, row' = R!Persisted(s)
  PROVE  RowWritten(s)
<1> DEFINE p == IF run[s].outcome = "done" THEN 100
                ELSE R!AtMost99(R!Percent(run[s].results))
           r == [row[s] EXCEPT !.status = run[s].outcome, !.results = run[s].results,
                               !.progress = p, !.requests = run[s].requests,
                               !.completed = TRUE]
<1>1. row' = [row EXCEPT ![s] = r]
  BY DEF R!Persisted
<1>2. run[s] \in RunType /\ row[s] \in RowType
  BY DEF RunsInv
<1>3. /\ run[s].outcome \in R!Terminal /\ run[s].outcome # "none"
      /\ run[s].results \in Int /\ run[s].requests \in Int
  BY <1>2 DEF RunType, R!Outcomes, R!Terminal
<1>4. p \in Int
  BY <1>3, PercentIsInt DEF R!AtMost99
<1> HIDE DEF p
<1>5. r \in RowType /\ r.status = run[s].outcome
  BY <1>2, <1>3, <1>4 DEF RowType
<1> HIDE DEF r
<1>6. QED BY <1>1, <1>3, <1>5 DEF RowWritten

LEMMA StepMoves ==
  ASSUME RunsInv, NEW s \in Scans, NEW c \in BOOLEAN, R!RunStep(s, c) \/ R!RunError(s)
  PROVE  RunsInv' /\ Moved(s)
<1>1. run[s] \in RunType /\ (run[s].pc \in R!Busy => run[s].scan = s)
  BY DEF RunsInv, R!Busy, R!InTry
<1>2. /\ run[s].index \in Int /\ run[s].results \in Int /\ run[s].requests \in Int
      /\ run[s].results + 1 \in Int /\ run[s].outcome \in R!Outcomes
  BY <1>1 DEF RunType
<1>3. /\ {"check", "mark", "scan", "charge", "record", "wrapup", "final", "ended", "raised"}
            \subseteq RunPcs \ {"idle"}
      /\ {"start", "check", "mark", "scan", "charge", "record", "wrapup", "final"} = R!Busy
      /\ {"done", "cancelled", "budget_exhausted", "failed"} = R!Outcomes
  BY DEF RunPcs, R!Busy, R!InTry, R!Outcomes
<1>4. row' = row => RowWritten(s)
  BY DEF RowWritten
<1>5. CASE R!Start(s)
  BY <1>1, <1>3, <1>5, OpenedWrites, GotoMoves DEF R!Start, R!At
<1>6. CASE R!Check(s, c)
  BY <1>2, <1>3, <1>4, <1>6, FinishMoves, GotoMoves DEF R!Check, R!At
<1>7. CASE R!AllScanned(s)
  BY <1>2, <1>3, <1>7, FinishMoves DEF R!AllScanned, R!At
<1>8. CASE R!Mark(s)
  <2>1. R!Percent(run[s].index) \in Int
    BY <1>2, PercentIsInt
  <2>2. RowWritten(s)
    BY <1>1, <1>2, <1>3, <1>8, <2>1, ReportWrites DEF R!Mark, R!At
  <2>3. QED BY <1>3, <1>8, <2>2, GotoMoves DEF R!Mark, R!At
<1>9. CASE R!BeforeRequest(s, c)
  BY <1>2, <1>3, <1>4, <1>9, FinishMoves, GotoMoves DEF R!BeforeRequest, R!At
<1>10. CASE R!Charge(s)
  <2>1. CASE R!Finish(s, "budget_exhausted", run[s].results)
    BY <1>2, <1>3, <1>10, <2>1, FinishMoves DEF R!Charge, R!At
  <2>2. CASE /\ run' = [run EXCEPT ![s].pc = "scan", ![s].requests = @ + 1]
             /\ row' = row
    <3> DEFINE x == [run[s] EXCEPT !.pc = "scan", !.requests = @ + 1]
    <3>1. run' = [run EXCEPT ![s] = x] /\ run[s].pc \in R!Busy
      BY <1>3, <1>10, <2>2 DEF R!Charge, R!At
    <3>2. "scan" \in RunPcs /\ run[s].requests + 1 \in Int
      BY <1>2, <1>3
    <3>3. x \in RunType /\ x.pc = "scan" /\ x.scan = run[s].scan
      BY <1>1, <1>2, <3>2 DEF RunType
    <3> HIDE DEF x
    <3>4. QED BY <1>1, <1>4, <2>2, <3>1, <3>3, MovedBy
  <2>3. QED BY <1>10, <2>1, <2>2 DEF R!Charge
<1>11. CASE R!ScannerEnds(s)
  <2> DEFINE x == [run[s] EXCEPT !.pc = "record", !.results = @ + 1]
  <2>1. run' = [run EXCEPT ![s] = x] /\ row' = row /\ run[s].pc \in R!Busy
    BY <1>3, <1>11 DEF R!ScannerEnds, R!At
  <2>2. "record" \in RunPcs
    BY <1>3
  <2>3. x \in RunType /\ x.pc = "record" /\ x.scan = run[s].scan
    BY <1>1, <1>2, <2>2 DEF RunType
  <2> HIDE DEF x
  <2>4. QED BY <1>1, <1>4, <2>1, <2>3, MovedBy
<1>12. CASE R!Record(s)
  <2> DEFINE x == [run[s] EXCEPT !.pc = "check", !.index = @ + 1]
  <2>1. run' = [run EXCEPT ![s] = x] /\ run[s].pc \in R!Busy
    BY <1>3, <1>12 DEF R!Record, R!At
  <2>2. "check" \in RunPcs /\ run[s].index + 1 \in Int /\ R!Percent(run[s].index + 1) \in Int
    BY <1>2, <1>3, PercentIsInt
  <2>3. x \in RunType /\ x.pc = "check" /\ x.scan = run[s].scan
    BY <1>1, <1>2, <2>2 DEF RunType
  <2>4. RowWritten(s)
    BY <1>1, <1>2, <1>12, <2>1, <2>2, ReportWrites DEF R!Record
  <2> HIDE DEF x
  <2>5. QED BY <1>1, <2>1, <2>3, <2>4, MovedBy
<1>13. CASE R!Wrapup(s)
  BY <1>3, <1>4, <1>13, GotoMoves DEF R!Wrapup, R!At
<1>14. CASE R!Persist(s)
  <2>1. RowWritten(s)
    BY <1>1, <1>3, <1>14, PersistedWrites DEF R!Persist, R!At
  <2>2. QED BY <1>3, <1>14, <2>1, GotoMoves DEF R!Persist, R!At
<1>15. CASE R!StartFails(s)
  <2>1. RowWritten(s)
    BY <1>1, <1>3, <1>4, <1>15, OpenedWrites DEF R!StartFails, R!At
  <2>2. QED BY <1>3, <1>15, <2>1, GotoMoves DEF R!StartFails, R!At
<1>16. CASE R!Fatal(s)
  BY <1>2, <1>3, <1>16, FinishMoves DEF R!Fatal
<1>17. CASE R!PersistFails(s)
  <2>1. RowWritten(s)
    BY <1>1, <1>3, <1>4, <1>17, PersistedWrites DEF R!PersistFails, R!At
  <2>2. QED BY <1>3, <1>17, <2>1, GotoMoves DEF R!PersistFails, R!At
<1>18. QED BY <1>5, <1>6, <1>7, <1>8, <1>9, <1>10, <1>11, <1>12, <1>13, <1>14, <1>15, <1>16,
              <1>17 DEF R!RunStep, R!RunError

-----------------------------------------------------------------------------
(***************************************************************************)
(* The threads of the server.  One request at most is placed on a scan:    *)
(* from the insertion of its row to the callback on its future.            *)
(***************************************************************************)
Placed == {"register", "submit", "track", "hook"}
LauncherPcs == Placed \cup {"free", "create"}
CancellerPcs == {"free", "cancel", "write"}
Seen == R!Terminal \cup R!Active \cup {"none"}
HttpType == [pc : LauncherPcs \cup CancellerPcs, scan : Scans \cup {None}, seen : Seen]

HttpInv ==
  /\ http \in [Threads -> HttpType]
  /\ \A h \in Launchers :
       /\ http[h].pc \in LauncherPcs
       /\ http[h].pc \in Placed => http[h].scan \in Scans
  /\ \A h \in Cancellers :
       /\ http[h].pc \in CancellerPcs
       /\ http[h].pc # "free" => http[h].scan \in Scans
  /\ \A h, g \in Launchers :
       /\ http[h].pc \in Placed /\ http[g].pc \in Placed
       /\ http[h].scan = http[g].scan
       => h = g

\* A request has come to this place with this scan.
By(s, label) == \E h \in Launchers : http[h].pc = label /\ http[h].scan = s

\* A launcher that serves scan s moves to another place, or is free again.
LEMMA LauncherMoves ==
  ASSUME HttpInv, NEW h \in Launchers, NEW s \in Scans, NEW x \in HttpType,
         http' = [http EXCEPT ![h] = x], x.pc \in LauncherPcs,
         x.pc \in Placed => x.scan = s,
         http[h].pc \in Placed => http[h].scan = s,
         \A g \in Launchers \ {h} : http[g].pc \in Placed => http[g].scan # s
  PROVE  /\ HttpInv'
         /\ \A u \in Scans \ {s}, l \in Placed : By(u, l)' <=> By(u, l)
         /\ \A l \in Placed : By(s, l)' <=> x.pc = l
<1>1. /\ http' \in [Threads -> HttpType] /\ http'[h] = x
      /\ \A g \in Threads \ {h} : http'[g] = http[g]
      /\ h \notin Cancellers
  BY LocalAssumption DEF HttpInv, Threads
<1>2. Launchers \subseteq Threads /\ Cancellers \subseteq Threads
  BY DEF Threads
<1>3. \A g \in Launchers : /\ http'[g].pc \in LauncherPcs
                           /\ http'[g].pc \in Placed => http'[g].scan \in Scans
  BY <1>1, <1>2 DEF HttpInv
<1>4. \A g \in Cancellers : /\ http'[g].pc \in CancellerPcs
                            /\ http'[g].pc # "free" => http'[g].scan \in Scans
  BY <1>1, <1>2 DEF HttpInv
<1>5. \A g, k \in Launchers :
        /\ http'[g].pc \in Placed /\ http'[k].pc \in Placed
        /\ http'[g].scan = http'[k].scan
        => g = k
  BY <1>1, <1>2 DEF HttpInv
<1>6. HttpInv'
  BY <1>1, <1>3, <1>4, <1>5 DEF HttpInv, HttpType, LauncherPcs, CancellerPcs, Placed, Threads,
                               Seen
<1>7. ASSUME NEW u \in Scans \ {s}, NEW l \in Placed
      PROVE  By(u, l)' <=> By(u, l)
  BY <1>1, <1>2 DEF By
<1>8. ASSUME NEW l \in Placed
      PROVE  By(s, l)' <=> x.pc = l
  BY <1>1, <1>2 DEF By
<1>9. QED BY <1>6, <1>7, <1>8

\* A request that is placed on a scan is the only one.
LEMMA Serves ==
  ASSUME HttpInv, NEW h \in Launchers, http[h].pc \in Placed
  PROVE  /\ http[h].scan \in Scans
         /\ \A l \in Placed : By(http[h].scan, l) <=> http[h].pc = l
         /\ \A g \in Launchers \ {h} : http[g].pc \in Placed => http[g].scan # http[h].scan
BY DEF HttpInv, By

LEMMA Advances ==
  ASSUME HttpInv, NEW h \in Launchers, NEW s \in Scans, http[h].pc \in Placed,
         http[h].scan = s, NEW m \in Placed, HttpGoto(h, m)
  PROVE  /\ HttpInv'
         /\ \A u \in Scans \ {s}, l \in Placed : By(u, l)' <=> By(u, l)
         /\ \A l \in Placed : By(s, l)' <=> m = l
<1> DEFINE x == [http[h] EXCEPT !.pc = m]
<1>1. http' = [http EXCEPT ![h] = x]
  BY DEF HttpGoto
<1>2. http[h] \in HttpType
  BY DEF HttpInv, Threads
<1>3. x \in HttpType /\ x.pc = m /\ x.scan = s
  BY <1>2 DEF HttpType, LauncherPcs
<1> HIDE DEF x
<1>4. \A g \in Launchers \ {h} : http[g].pc \in Placed => http[g].scan # s
  BY Serves
<1>5. x.pc \in LauncherPcs
  BY <1>3 DEF LauncherPcs
<1>6. /\ HttpInv'
      /\ \A u \in Scans \ {s}, l \in Placed : By(u, l)' <=> By(u, l)
      /\ \A l \in Placed : By(s, l)' <=> x.pc = l
  BY <1>1, <1>3, <1>4, <1>5, LauncherMoves
<1>7. QED BY <1>3, <1>6

\* A canceller is on no scan's way into the registry.
LEMMA CancellerMoves ==
  ASSUME HttpInv, NEW h \in Cancellers, NEW x \in HttpType,
         http' = [http EXCEPT ![h] = x], x.pc \in CancellerPcs,
         x.pc # "free" => x.scan \in Scans
  PROVE  /\ HttpInv'
         /\ \A u \in Scans, l \in Placed : By(u, l)' <=> By(u, l)
<1>1. /\ http' \in [Threads -> HttpType] /\ http'[h] = x
      /\ \A g \in Threads \ {h} : http'[g] = http[g]
      /\ h \notin Launchers
  BY LocalAssumption DEF HttpInv, Threads
<1>2. Launchers \subseteq Threads /\ Cancellers \subseteq Threads
  BY DEF Threads
<1>3. \A g \in Launchers : http'[g] = http[g]
  BY <1>1, <1>2
<1>4. HttpInv'
  BY <1>1, <1>2, <1>3 DEF HttpInv, HttpType, LauncherPcs, CancellerPcs, Placed, Threads, Seen
<1>5. QED BY <1>3, <1>4 DEF By

-----------------------------------------------------------------------------
(***************************************************************************)
(* What holds of one scan: how far the request that launched it, the       *)
(* registry, its future and its execution may be apart.                    *)
(***************************************************************************)
Unsubmitted(s) ==
  /\ s \notin tracked /\ s \notin hooked /\ s \notin ToSet(workq)
  /\ future[s] = "none" /\ run[s].pc = "idle"

\* The future is hooked, and its callback is still to come.
Held(s) ==
  /\ s \in hooked
  /\ \/ future[s] \in {"pending", "running"}
     \/ future[s] = "finished" /\ run[s].pc # "idle"

ScanInv(s) ==
  /\ row[s].status = "none" =>
       s \notin runtimes /\ Unsubmitted(s) /\ \A l \in Placed : ~By(s, l)
  /\ By(s, "register") => s \notin runtimes /\ Unsubmitted(s)
  /\ By(s, "submit") => s \in runtimes /\ Unsubmitted(s)
  /\ By(s, "track") =>
       s \in runtimes /\ s \notin tracked /\ s \notin hooked /\ future[s] # "none"
  /\ By(s, "hook") =>
       s \in runtimes /\ s \in tracked /\ s \notin hooked /\ future[s] # "none"
  /\ s \in runtimes \cup tracked =>
       Held(s) \/ By(s, "submit") \/ By(s, "track") \/ By(s, "hook")
  /\ future[s] \in {"pending", "running"} =>
       s \in runtimes /\ (s \in hooked \/ By(s, "track") \/ By(s, "hook"))
  /\ s \in ToSet(workq) => future[s] \in {"pending", "cancelled"}
  /\ run[s].pc # "idle" => future[s] \in {"running", "finished"}
  /\ run[s].pc \in R!Busy => future[s] = "running"

NoRepeat(q) == \A i, j \in DOMAIN q : q[i] = q[j] => i = j

LocalTypes ==
  /\ RunsInv
  /\ HttpInv
  /\ future \in [Scans -> {"none", "pending", "running", "cancelled", "finished"}]
  /\ workq \in Seq(Scans) /\ NoRepeat(workq)
  /\ runtimes \subseteq Scans /\ tracked \subseteq Scans

LocalInv == LocalTypes /\ \A s \in Scans : ScanInv(s)

\* A step changes nothing of a scan that ScanInv looks at.
Untouched(s) ==
  /\ row[s].status # "none" => row'[s].status # "none"
  /\ run'[s].pc = run[s].pc /\ future'[s] = future[s]
  /\ s \in runtimes' <=> s \in runtimes
  /\ s \in tracked' <=> s \in tracked
  /\ s \in hooked' <=> s \in hooked
  /\ s \in ToSet(workq') <=> s \in ToSet(workq)
  /\ \A l \in Placed : By(s, l)' <=> By(s, l)

LEMMA Alone ==
  ASSUME NEW s \in Scans, ScanInv(s), Untouched(s)
  PROVE  ScanInv(s)'
<1>1. Unsubmitted(s)' <=> Unsubmitted(s)
  BY DEF Unsubmitted, Untouched
<1>2. Held(s)' <=> Held(s)
  BY DEF Held, Untouched
<1>3. /\ By(s, "register")' <=> By(s, "register")
      /\ By(s, "submit")' <=> By(s, "submit")
      /\ By(s, "track")' <=> By(s, "track")
      /\ By(s, "hook")' <=> By(s, "hook")
  BY DEF Placed, Untouched
<1>4. run'[s].pc \in R!Busy' <=> run[s].pc \in R!Busy
  BY DEF R!Busy, R!InTry, Untouched
<1>5. (\A l \in Placed : ~By(s, l))' <=> \A l \in Placed : ~By(s, l)
  BY DEF Placed, Untouched
<1>6. QED BY <1>1, <1>2, <1>3, <1>4, <1>5 DEF ScanInv, Untouched

LEMMA OneScan ==
  ASSUME LocalInv, LocalTypes', NEW s \in Scans, ScanInv(s)',
         \A u \in Scans \ {s} : Untouched(u)
  PROVE  LocalInv'
BY Alone DEF LocalInv

LEMMA NoScan ==
  ASSUME LocalInv, LocalTypes', \A u \in Scans : Untouched(u)
  PROVE  LocalInv'
BY Alone DEF LocalInv

-----------------------------------------------------------------------------
\* The queue of the pool.
LEMMA QueueTail ==
  ASSUME NEW q \in Seq(Scans), q # <<>>, NoRepeat(q)
  PROVE  /\ Tail(q) \in Seq(Scans) /\ NoRepeat(Tail(q))
         /\ Head(q) \in ToSet(q) /\ Head(q) \in Scans
         /\ Head(q) \notin ToSet(Tail(q))
         /\ \A u \in Scans \ {Head(q)} : u \in ToSet(Tail(q)) <=> u \in ToSet(q)
<1>1. /\ Len(q) \in Nat \ {0} /\ Head(q) = q[1]
      /\ Tail(q) \in Seq(Scans) /\ DOMAIN q = 1..Len(q)
      /\ DOMAIN Tail(q) = 1..(Len(q) - 1)
      /\ \A i \in 1..(Len(q) - 1) : Tail(q)[i] = q[i + 1]
      /\ Head(q) \in Scans
  OBVIOUS
<1>2. NoRepeat(Tail(q))
  BY <1>1 DEF NoRepeat
<1>3. Head(q) \in ToSet(q)
  BY <1>1 DEF ToSet
<1>4. Head(q) \notin ToSet(Tail(q))
  <2>1. ASSUME NEW i \in 1..(Len(q) - 1), Tail(q)[i] = Head(q)
        PROVE  FALSE
    <3>1. i + 1 \in DOMAIN q /\ 1 \in DOMAIN q /\ q[i + 1] = q[1] /\ i + 1 # 1
      BY <1>1, <2>1
    <3>2. QED BY <3>1 DEF NoRepeat
  <2>2. QED BY <1>1, <2>1 DEF ToSet
<1>5. ASSUME NEW u \in Scans \ {Head(q)}
      PROVE  u \in ToSet(Tail(q)) <=> u \in ToSet(q)
  <2>1. ASSUME NEW i \in DOMAIN q, q[i] = u
        PROVE  u \in ToSet(Tail(q))
    <3>1. i - 1 \in 1..(Len(q) - 1) /\ Tail(q)[i - 1] = u
      BY <1>1, <2>1
    <3>2. QED BY <1>1, <3>1 DEF ToSet
  <2>2. ASSUME NEW i \in DOMAIN Tail(q), Tail(q)[i] = u
        PROVE  u \in ToSet(q)
    <3>1. i + 1 \in DOMAIN q /\ q[i + 1] = u
      BY <1>1, <2>2
    <3>2. QED BY <3>1 DEF ToSet
  <2>3. QED BY <2>1, <2>2 DEF ToSet
<1>6. QED BY <1>1, <1>2, <1>3, <1>4, <1>5

LEMMA QueueAppend ==
  ASSUME NEW q \in Seq(Scans), NoRepeat(q), NEW s \in Scans, s \notin ToSet(q)
  PROVE  /\ Append(q, s) \in Seq(Scans) /\ NoRepeat(Append(q, s))
         /\ \A u \in Scans \ {s} : u \in ToSet(Append(q, s)) <=> u \in ToSet(q)
<1> DEFINE r == Append(q, s)
<1>1. /\ Len(q) \in Nat /\ r \in Seq(Scans)
      /\ DOMAIN q = 1..Len(q) /\ DOMAIN r = 1..(Len(q) + 1)
      /\ \A i \in 1..Len(q) : r[i] = q[i]
      /\ r[Len(q) + 1] = s
  OBVIOUS
<1>2. \A i \in DOMAIN q : q[i] # s
  BY DEF ToSet
<1> HIDE DEF r
<1>3. NoRepeat(r)
  <2>1. ASSUME NEW i \in DOMAIN r, NEW j \in DOMAIN r, r[i] = r[j]
        PROVE  i = j
    <3>1. CASE i \in DOMAIN q /\ j \in DOMAIN q
      BY <1>1, <2>1, <3>1 DEF NoRepeat
    <3>2. CASE i = Len(q) + 1 \/ j = Len(q) + 1
      BY <1>1, <1>2, <2>1, <3>2
    <3>3. QED BY <1>1, <3>1, <3>2
  <2>2. QED BY <2>1 DEF NoRepeat
<1>4. ASSUME NEW u \in Scans \ {s}
      PROVE  u \in ToSet(r) <=> u \in ToSet(q)
  BY <1>1 DEF ToSet
<1>5. QED BY <1>1, <1>3, <1>4 DEF r

-----------------------------------------------------------------------------
(***************************************************************************)
(* Each action preserves the invariant.                                    *)
(***************************************************************************)
LEMMA RowsKept == ASSUME RunsInv, UNCHANGED <<row, run>> PROVE RunsInv'
BY DEF RunsInv, RowType, RunType, RunPcs

LEMMA KeepsCountActive ==
  ASSUME LocalInv, NEW h \in Launchers, CountActive(h)
  PROVE  LocalInv'
<1> DEFINE x == [http[h] EXCEPT !.pc = "create"]
<1>1. /\ http' = [http EXCEPT ![h] = x] /\ http[h].pc = "free"
      /\ UNCHANGED <<row, run, runtimes, tracked, future, hooked, workq>>
  BY DEF CountActive, HttpGoto, HttpAt, runVars, registry
<1>2. http[h] \in HttpType /\ h \in Threads /\ HttpInv
  BY DEF LocalInv, LocalTypes, HttpInv, Threads
<1>3. x \in HttpType /\ x.pc = "create"
  BY <1>2 DEF HttpType, LauncherPcs
<1> HIDE DEF x
<1>4. /\ http' \in [Threads -> HttpType] /\ http'[h].pc = "create"
      /\ \A g \in Threads \ {h} : http'[g] = http[g]
      /\ h \notin Cancellers
  BY <1>1, <1>2, <1>3, LocalAssumption DEF HttpInv
<1>5. "create" \in LauncherPcs \ Placed /\ "free" \notin Placed
  BY DEF LauncherPcs, Placed
<1>6. HttpInv'
  <2>1. \A g \in Launchers : /\ http'[g].pc \in LauncherPcs
                             /\ http'[g].pc \in Placed => http'[g].scan \in Scans
    BY <1>2, <1>4, <1>5 DEF HttpInv, Threads
  <2>2. \A g \in Cancellers : /\ http'[g].pc \in CancellerPcs
                              /\ http'[g].pc # "free" => http'[g].scan \in Scans
    BY <1>2, <1>4 DEF HttpInv, Threads
  <2>3. \A g, k \in Launchers :
          /\ http'[g].pc \in Placed /\ http'[k].pc \in Placed
          /\ http'[g].scan = http'[k].scan
          => g = k
    BY <1>2, <1>4, <1>5 DEF HttpInv, Threads
  <2>4. QED
    BY <1>4, <2>1, <2>2, <2>3
    DEF HttpInv, HttpType, LauncherPcs, CancellerPcs, Placed, Threads, Seen
<1>7. \A u \in Scans, l \in Placed : By(u, l)' <=> By(u, l)
  BY <1>1, <1>4, <1>5 DEF By, Threads
<1>8. LocalTypes'
  BY <1>1, <1>6, RowsKept DEF LocalInv, LocalTypes, NoRepeat
<1>9. \A u \in Scans : Untouched(u)
  BY <1>1, <1>7 DEF Untouched
<1>10. QED BY <1>8, <1>9, NoScan

LEMMA KeepsCreateRecord ==
  ASSUME LocalInv, NEW h \in Launchers, CreateRecord(h)
  PROVE  LocalInv'
<1>1. PICK s \in Scans :
        /\ row[s].status = "none"
        /\ row' = [row EXCEPT ![s].status = "queued"]
        /\ http' = [http EXCEPT ![h].pc = "register", ![h].scan = s]
  BY DEF CreateRecord
<1>2. /\ UNCHANGED <<run, runtimes, tracked, future, hooked, workq>>
      /\ http[h].pc = "create"
  BY DEF CreateRecord, HttpAt, registry
<1>3. RunsInv /\ HttpInv /\ ScanInv(s)
  BY DEF LocalInv, LocalTypes
<1> DEFINE x == [http[h] EXCEPT !.pc = "register", !.scan = s]
           r == [row[s] EXCEPT !.status = "queued"]
<1>4. http' = [http EXCEPT ![h] = x] /\ row' = [row EXCEPT ![s] = r]
  BY <1>1
<1>5. http[h] \in HttpType
  BY <1>3 DEF HttpInv, Threads
<1>6. x \in HttpType /\ x.pc = "register" /\ x.scan = s
  BY <1>5 DEF HttpType, LauncherPcs, Placed
<1>7. r \in RowType /\ r.status = "queued"
  <2>1. row[s] \in RowType
    BY <1>3 DEF RunsInv
  <2>2. QED BY <2>1 DEF RowType, R!Active
<1> HIDE DEF x, r
<1>8. \A l \in Placed : ~By(s, l)
  BY <1>1, <1>3 DEF ScanInv
<1>9. \A g \in Launchers \ {h} : http[g].pc \in Placed => http[g].scan # s
  BY <1>8 DEF By
<1>10. "register" \in LauncherPcs /\ "create" \notin Placed
  BY DEF LauncherPcs, Placed
<1>11. /\ HttpInv'
       /\ \A u \in Scans \ {s}, l \in Placed : By(u, l)' <=> By(u, l)
       /\ \A l \in Placed : By(s, l)' <=> x.pc = l
  <2>1. /\ x.pc \in LauncherPcs
        /\ x.pc \in Placed => x.scan = s
        /\ http[h].pc \in Placed => http[h].scan = s
    BY <1>2, <1>6, <1>10
  <2>2. HttpInv /\ x \in HttpType /\ http' = [http EXCEPT ![h] = x]
    BY <1>3, <1>4, <1>6
  <2>3. HttpInv'
    BY <1>9, <2>1, <2>2, LauncherMoves
  <2>4. \A u \in Scans \ {s}, l \in Placed : By(u, l)' <=> By(u, l)
    BY <1>9, <2>1, <2>2, LauncherMoves
  <2>5. \A l \in Placed : By(s, l)' <=> x.pc = l
    BY <1>9, <2>1, <2>2, LauncherMoves
  <2>6. QED BY <2>3, <2>4, <2>5
<1>12. RunsInv'
  <2>1. row' \in [Scans -> RowType]
    BY <1>3, <1>4, <1>7 DEF RunsInv
  <2>2. QED BY <1>2, <1>3, <2>1 DEF RunsInv, RowType, RunType, RunPcs
<1>13. LocalTypes'
  BY <1>2, <1>11, <1>12 DEF LocalInv, LocalTypes, NoRepeat
<1>14. \A u \in Scans \ {s} : Untouched(u)
  BY <1>2, <1>3, <1>4, <1>11 DEF Untouched, RunsInv
<1>15. ScanInv(s)'
  <2>1. Unsubmitted(s) /\ s \notin runtimes
    BY <1>1, <1>3 DEF ScanInv
  <2>2. Unsubmitted(s)' /\ s \notin runtimes'
    BY <1>2, <2>1 DEF Unsubmitted
  <2>3. /\ ~By(s, "submit")' /\ ~By(s, "track")' /\ ~By(s, "hook")'
    BY <1>6, <1>11 DEF Placed
  <2>4. row'[s].status # "none"
    BY <1>3, <1>4, <1>7 DEF RunsInv
  <2>5. QED BY <2>2, <2>3, <2>4 DEF ScanInv, Unsubmitted, R!Busy, R!InTry
<1>16. QED BY <1>13, <1>14, <1>15, OneScan

LEMMA KeepsRegister ==
  ASSUME LocalInv, NEW h \in Launchers, Register(h)
  PROVE  LocalInv'
<1>1. PICK s \in Scans : s = http[h].scan
  BY Serves DEF Register, HttpAt, LocalInv, LocalTypes, Placed
<1>2. /\ UNCHANGED <<row, run, tracked, future, hooked, workq>>
      /\ runtimes' = runtimes \cup {s}
      /\ http[h].pc = "register" /\ HttpGoto(h, "submit")
  BY <1>1 DEF Register, HttpAt, runVars
<1>3. RunsInv /\ HttpInv /\ "register" \in Placed /\ "submit" \in Placed
  BY DEF LocalInv, LocalTypes, Placed
<1>4. By(s, "register")
  BY <1>1, <1>2 DEF By
<1>5. /\ HttpInv'
      /\ \A u \in Scans \ {s}, l \in Placed : By(u, l)' <=> By(u, l)
      /\ \A l \in Placed : By(s, l)' <=> "submit" = l
  BY <1>1, <1>2, <1>3, Advances
<1>6. Unsubmitted(s) /\ row[s].status # "none"
  BY <1>3, <1>4 DEF LocalInv, ScanInv
<1>7. LocalTypes'
  BY <1>2, <1>3, <1>5, RowsKept DEF LocalInv, LocalTypes, NoRepeat
<1>8. \A u \in Scans \ {s} : Untouched(u)
  BY <1>2, <1>5 DEF Untouched
<1>9. ScanInv(s)'
  <2>1. Unsubmitted(s)' /\ s \in runtimes' /\ row'[s].status # "none"
    BY <1>2, <1>6 DEF Unsubmitted
  <2>2. By(s, "submit")' /\ ~By(s, "register")' /\ ~By(s, "track")' /\ ~By(s, "hook")'
    BY <1>5 DEF Placed
  <2>3. QED BY <2>1, <2>2 DEF ScanInv, Unsubmitted, R!Busy, R!InTry
<1>10. QED BY <1>7, <1>8, <1>9, OneScan

LEMMA KeepsSubmit ==
  ASSUME LocalInv, NEW h \in Launchers, Submit(h)
  PROVE  LocalInv'
<1>1. PICK s \in Scans : s = http[h].scan
  BY Serves DEF Submit, HttpAt, LocalInv, LocalTypes, Placed
<1>2. /\ UNCHANGED <<row, run, runtimes, tracked, hooked>>
      /\ future' = [future EXCEPT ![s] = "pending"]
      /\ workq' = Append(workq, s)
      /\ http[h].pc = "submit" /\ HttpGoto(h, "track")
  BY <1>1 DEF Submit, HttpAt, runVars
<1>3. RunsInv /\ HttpInv /\ "submit" \in Placed /\ "track" \in Placed
  BY DEF LocalInv, LocalTypes, Placed
<1>4. By(s, "submit")
  BY <1>1, <1>2 DEF By
<1>5. /\ HttpInv'
      /\ \A u \in Scans \ {s}, l \in Placed : By(u, l)' <=> By(u, l)
      /\ \A l \in Placed : By(s, l)' <=> "track" = l
  BY <1>1, <1>2, <1>3, Advances
<1>6. Unsubmitted(s) /\ s \in runtimes /\ row[s].status # "none"
  BY <1>3, <1>4 DEF LocalInv, ScanInv
<1>7. /\ workq' \in Seq(Scans) /\ NoRepeat(workq')
      /\ \A u \in Scans \ {s} : u \in ToSet(workq') <=> u \in ToSet(workq)
  BY <1>2, <1>6, QueueAppend DEF LocalInv, LocalTypes, Unsubmitted
<1>8. /\ future' \in [Scans -> {"none", "pending", "running", "cancelled", "finished"}]
      /\ future'[s] = "pending" /\ \A u \in Scans \ {s} : future'[u] = future[u]
  BY <1>2 DEF LocalInv, LocalTypes
<1>9. LocalTypes'
  BY <1>2, <1>3, <1>5, <1>7, <1>8, RowsKept DEF LocalInv, LocalTypes, NoRepeat
<1>10. \A u \in Scans \ {s} : Untouched(u)
  BY <1>2, <1>5, <1>7, <1>8 DEF Untouched
<1>11. ScanInv(s)'
  <2>1. /\ s \in runtimes' /\ s \notin tracked' /\ s \notin hooked'
        /\ run'[s].pc = "idle" /\ row'[s].status # "none"
    BY <1>2, <1>6 DEF Unsubmitted
  <2>2. By(s, "track")' /\ ~By(s, "register")' /\ ~By(s, "submit")' /\ ~By(s, "hook")'
    BY <1>5 DEF Placed
  <2>3. QED BY <1>8, <2>1, <2>2 DEF ScanInv, R!Busy, R!InTry
<1>12. QED BY <1>9, <1>10, <1>11, OneScan

LEMMA KeepsTrack ==
  ASSUME LocalInv, NEW h \in Launchers, Track(h)
  PROVE  LocalInv'
<1>1. PICK s \in Scans : s = http[h].scan
  BY Serves DEF Track, HttpAt, LocalInv, LocalTypes, Placed
<1>2. /\ UNCHANGED <<row, run, runtimes, future, hooked, workq>>
      /\ tracked' = tracked \cup {s}
      /\ http[h].pc = "track" /\ HttpGoto(h, "hook")
  BY <1>1 DEF Track, HttpAt, runVars
<1>3. RunsInv /\ HttpInv /\ "track" \in Placed /\ "hook" \in Placed
  BY DEF LocalInv, LocalTypes, Placed
<1>4. By(s, "track")
  BY <1>1, <1>2 DEF By
<1>5. /\ HttpInv'
      /\ \A u \in Scans \ {s}, l \in Placed : By(u, l)' <=> By(u, l)
      /\ \A l \in Placed : By(s, l)' <=> "hook" = l
  BY <1>1, <1>2, <1>3, Advances
<1>6. ScanInv(s)
  BY DEF LocalInv
<1>7. LocalTypes'
  BY <1>2, <1>3, <1>5, RowsKept DEF LocalInv, LocalTypes, NoRepeat
<1>8. \A u \in Scans \ {s} : Untouched(u)
  BY <1>2, <1>5 DEF Untouched
<1>9. ScanInv(s)'
  <2>1. /\ s \in runtimes' /\ s \in tracked' /\ s \notin hooked'
        /\ future'[s] # "none" /\ row'[s].status # "none"
    BY <1>2, <1>3, <1>4, <1>6 DEF ScanInv
  <2>2. By(s, "hook")' /\ ~By(s, "register")' /\ ~By(s, "submit")' /\ ~By(s, "track")'
    BY <1>5 DEF Placed
  <2>3. QED BY <1>2, <1>6, <2>1, <2>2 DEF ScanInv, R!Busy, R!InTry
<1>10. QED BY <1>7, <1>8, <1>9, OneScan

\* The callback is attached, or called at once: the request is over.
LEMMA KeepsHook ==
  ASSUME LocalInv, NEW h \in Launchers, Hook(h)
  PROVE  LocalInv'
<1>1. PICK s \in Scans : s = http[h].scan
  BY Serves DEF Hook, HttpAt, LocalInv, LocalTypes, Placed
<1>2. /\ UNCHANGED <<row, run, future, workq>>
      /\ http[h].pc = "hook" /\ http' = [http EXCEPT ![h] = Free]
      /\ \/ FutureDone(s) /\ Unregister(s) /\ hooked' = hooked
         \/ /\ ~FutureDone(s) /\ hooked' = hooked \cup {s}
            /\ runtimes' = runtimes /\ tracked' = tracked
  BY <1>1 DEF Hook, HttpAt, Respond, runVars
<1>3. RunsInv /\ HttpInv /\ "hook" \in Placed /\ "free" \notin Placed /\ "free" \in LauncherPcs
  BY DEF LocalInv, LocalTypes, Placed, LauncherPcs
<1>4. By(s, "hook")
  BY <1>1, <1>2 DEF By
<1> DEFINE x == Free
<1>5. x \in HttpType /\ x.pc = "free"
  BY DEF Free, HttpType, LauncherPcs, Seen
<1> HIDE DEF x
<1>6. /\ HttpInv'
      /\ \A u \in Scans \ {s}, l \in Placed : By(u, l)' <=> By(u, l)
      /\ \A l \in Placed : By(s, l)' <=> x.pc = l
  <2>1. /\ x.pc \in LauncherPcs
        /\ x.pc \in Placed => x.scan = s
        /\ http[h].pc \in Placed => http[h].scan = s
        /\ http' = [http EXCEPT ![h] = x]
    BY <1>1, <1>2, <1>3, <1>5 DEF x
  <2>2. \A g \in Launchers \ {h} : http[g].pc \in Placed => http[g].scan # s
    BY <1>1, <1>2, <1>3, Serves
  <2>3. HttpInv'
    BY <1>3, <1>5, <2>1, <2>2, LauncherMoves
  <2>4. \A u \in Scans \ {s}, l \in Placed : By(u, l)' <=> By(u, l)
    BY <1>3, <1>5, <2>1, <2>2, LauncherMoves
  <2>5. \A l \in Placed : By(s, l)' <=> x.pc = l
    BY <1>3, <1>5, <2>1, <2>2, LauncherMoves
  <2>6. QED BY <2>3, <2>4, <2>5
<1>7. /\ ScanInv(s) /\ future[s] # "none" /\ s \in runtimes /\ s \in tracked
      /\ row[s].status # "none"
  BY <1>3, <1>4 DEF LocalInv, ScanInv
<1>8. LocalTypes'
  BY <1>2, <1>3, <1>6, RowsKept DEF LocalInv, LocalTypes, NoRepeat, Unregister
<1>9. \A u \in Scans \ {s} : Untouched(u)
  BY <1>2, <1>6 DEF Untouched, Unregister
<1>10. ScanInv(s)'
  <2>1. ~By(s, "register")' /\ ~By(s, "submit")' /\ ~By(s, "track")' /\ ~By(s, "hook")'
    BY <1>3, <1>5, <1>6 DEF Placed
  <2>2. /\ future'[s] = future[s] /\ run'[s] = run[s] /\ workq' = workq
        /\ row'[s].status # "none"
    BY <1>2, <1>7
  <2>3. CASE FutureDone(s)
    <3>1. /\ s \notin runtimes' /\ s \notin tracked'
          /\ future[s] \notin {"pending", "running"}
      BY <1>2, <2>3 DEF Unregister, FutureDone
    <3>2. QED BY <1>7, <2>1, <2>2, <3>1 DEF ScanInv
  <2>4. CASE ~FutureDone(s)
    <3>1. /\ s \in runtimes' /\ s \in hooked'
          /\ future[s] \in {"pending", "running"}
      BY <1>2, <1>7, <2>4 DEF FutureDone, LocalInv, LocalTypes
    <3>2. Held(s)'
      BY <2>2, <3>1 DEF Held
    <3>3. QED BY <1>7, <2>1, <2>2, <3>1, <3>2 DEF ScanInv
  <2>5. QED BY <2>3, <2>4
<1>11. QED BY <1>8, <1>9, <1>10, OneScan

LEMMA HttpKept ==
  ASSUME HttpInv, http' = http
  PROVE  /\ HttpInv'
         /\ \A u \in Scans, l \in Placed : By(u, l)' <=> By(u, l)
BY DEF HttpInv, By, HttpType, LauncherPcs, CancellerPcs, Placed, Threads, Seen

LEMMA KeepsPoolStart ==
  ASSUME LocalInv, PoolStart
  PROVE  LocalInv'
<1> DEFINE s == Head(workq)
<1>1. /\ workq # <<>> /\ workq' = Tail(workq)
      /\ UNCHANGED <<row, runtimes, tracked, hooked, http>>
      /\ \/ future[s] = "cancelled" /\ future' = future /\ run' = run
         \/ /\ future[s] # "cancelled" /\ future' = [future EXCEPT ![s] = "running"]
            /\ run[s].pc = "idle"
            /\ run' = [run EXCEPT ![s] = [R!Idle EXCEPT !.pc = "start", !.scan = s]]
  BY DEF PoolStart, R!Begin, R!At, runVars
<1>2. RunsInv /\ HttpInv /\ workq \in Seq(Scans) /\ NoRepeat(workq)
  BY DEF LocalInv, LocalTypes
<1>3. /\ workq' \in Seq(Scans) /\ NoRepeat(workq')
      /\ s \in ToSet(workq) /\ s \in Scans /\ s \notin ToSet(workq')
      /\ \A u \in Scans \ {s} : u \in ToSet(workq') <=> u \in ToSet(workq)
  BY <1>1, <1>2, QueueTail
<1>4. HttpInv' /\ \A u \in Scans, l \in Placed : By(u, l)' <=> By(u, l)
  BY <1>1, <1>2, HttpKept
<1>5. PICK c \in Scans : c = s
  BY <1>3
<1> HIDE DEF s
<1>6. ScanInv(c) /\ future[c] \in {"pending", "cancelled"}
  BY <1>3, <1>5 DEF LocalInv, ScanInv
<1>7. CASE future[c] = "cancelled"
  <2>1. future' = future /\ run' = run /\ row' = row
    BY <1>1, <1>5, <1>7
  <2>2. LocalTypes'
    BY <1>1, <1>2, <1>3, <1>4, <2>1, RowsKept DEF LocalInv, LocalTypes, NoRepeat
  <2>3. \A u \in Scans \ {c} : Untouched(u)
    BY <1>1, <1>3, <1>4, <1>5, <2>1 DEF Untouched
  <2>4. ScanInv(c)'
    <3>1. Held(c)' <=> Held(c)
      BY <1>1, <2>1 DEF Held
    <3>2. Unsubmitted(c) <=> Unsubmitted(c)'
      BY <1>7, <2>1 DEF Unsubmitted
    <3>3. /\ By(c, "register")' <=> By(c, "register")
          /\ By(c, "submit")' <=> By(c, "submit")
          /\ By(c, "track")' <=> By(c, "track")
          /\ By(c, "hook")' <=> By(c, "hook")
      BY <1>4 DEF Placed
    <3>4. row'[c].status # "none"
      BY <1>6, <1>7, <2>1 DEF ScanInv, Unsubmitted
    <3>5. c \notin ToSet(workq')
      BY <1>3, <1>5
    <3>6. QED BY <1>1, <1>6, <2>1, <3>1, <3>2, <3>3, <3>4, <3>5 DEF ScanInv
  <2>5. QED BY <2>2, <2>3, <2>4, OneScan
<1>8. CASE future[c] = "pending"
  <2> DEFINE x == [R!Idle EXCEPT !.pc = "start", !.scan = c]
  <2>1. /\ future' = [future EXCEPT ![c] = "running"] /\ run' = [run EXCEPT ![c] = x]
        /\ run[c].pc = "idle" /\ row' = row
    BY <1>1, <1>5, <1>8
  <2>2. x \in RunType /\ x.pc = "start" /\ x.scan = c
    <3>1. R!Idle \in RunType
      BY DEF R!Idle, RunType, RunPcs, R!Outcomes
    <3>2. "start" \in RunPcs
      BY DEF RunPcs, R!Busy
    <3>3. QED BY <3>1, <3>2 DEF RunType
  <2> HIDE DEF x
  <2>3. /\ run' \in [Scans -> RunType] /\ run'[c] = x
        /\ \A u \in Scans \ {c} : run'[u] = run[u]
    BY <1>2, <2>1, <2>2 DEF RunsInv
  <2>4. RunsInv'
    <3>1. \A u \in Scans : run'[u].pc # "idle" => run'[u].scan = u
      BY <1>2, <2>2, <2>3 DEF RunsInv
    <3>2. row' \in [Scans -> RowType]
      BY <1>2, <2>1 DEF RunsInv
    <3>3. QED BY <2>3, <3>1, <3>2 DEF RunsInv, RowType, RunType, RunPcs
  <2>5. /\ future' \in [Scans -> {"none", "pending", "running", "cancelled", "finished"}]
        /\ future'[c] = "running" /\ \A u \in Scans \ {c} : future'[u] = future[u]
    BY <2>1 DEF LocalInv, LocalTypes
  <2>6. LocalTypes'
    BY <1>1, <1>2, <1>3, <1>4, <2>4, <2>5 DEF LocalInv, LocalTypes, NoRepeat
  <2>7. \A u \in Scans \ {c} : Untouched(u)
    BY <1>1, <1>3, <1>4, <1>5, <2>1, <2>3, <2>5 DEF Untouched
  <2>8. ScanInv(c)'
    <3>1. /\ row[c].status # "none" /\ ~By(c, "register") /\ ~By(c, "submit")
          /\ c \in runtimes
          /\ c \in hooked \/ By(c, "track") \/ By(c, "hook")
      BY <1>6, <1>8 DEF ScanInv, Unsubmitted
    <3>2. c \in hooked => Held(c)'
      BY <1>1, <2>5 DEF Held
    <3>3. /\ By(c, "register")' <=> By(c, "register")
          /\ By(c, "submit")' <=> By(c, "submit")
          /\ By(c, "track")' <=> By(c, "track")
          /\ By(c, "hook")' <=> By(c, "hook")
      BY <1>4 DEF Placed
    <3>4. c \in runtimes
      BY <1>6, <1>8 DEF ScanInv
    <3>5. By(c, "track") => c \notin tracked /\ c \notin hooked
      BY <1>6 DEF ScanInv
    <3>6. By(c, "hook") => c \in tracked /\ c \notin hooked
      BY <1>6 DEF ScanInv
    <3>7. c \notin ToSet(workq') /\ run'[c].pc = "start"
      BY <1>3, <1>5, <2>2, <2>3
    <3>8. QED
      BY <1>1, <2>1, <2>5, <3>1, <3>2, <3>3, <3>4, <3>5, <3>6, <3>7 DEF ScanInv
  <2>9. QED BY <2>6, <2>7, <2>8, OneScan
<1>9. QED BY <1>6, <1>7, <1>8

\* run_scan moves on, or fails.
LEMMA KeepsRun ==
  ASSUME LocalInv, NEW s \in Scans, RunScan(s) \/ RunFails(s)
  PROVE  LocalInv'
<1>1. UNCHANGED <<runtimes, tracked, future, hooked, workq, http>>
  BY DEF RunScan, RunFails, registry
<1>2. RunsInv /\ HttpInv /\ ScanInv(s)
  BY DEF LocalInv, LocalTypes
<1>3. (s \in cancelEvent) \in BOOLEAN
  OBVIOUS
<1>4. RunsInv' /\ Moved(s)
  BY <1>2, <1>3, StepMoves DEF RunScan, RunFails
<1>5. HttpInv' /\ \A u \in Scans, l \in Placed : By(u, l)' <=> By(u, l)
  BY <1>1, <1>2, HttpKept
<1>6. LocalTypes'
  BY <1>1, <1>4, <1>5 DEF LocalInv, LocalTypes, NoRepeat
<1>7. \A u \in Scans \ {s} : Untouched(u)
  BY <1>1, <1>4, <1>5 DEF Untouched, Moved
<1>8. ScanInv(s)'
  <2>1. /\ run[s].pc \in R!Busy /\ run[s].pc # "idle" /\ future[s] = "running"
        /\ run'[s].pc # "idle" /\ row[s].status # "none" /\ row'[s].status # "none"
    BY <1>2, <1>4 DEF Moved, ScanInv, Unsubmitted, R!Busy, R!InTry
  <2>2. Held(s)' <=> Held(s)
    BY <1>1, <2>1 DEF Held
  <2>3. ~Unsubmitted(s)
    BY <2>1 DEF Unsubmitted
  <2>4. /\ By(s, "register")' <=> By(s, "register")
        /\ By(s, "submit")' <=> By(s, "submit")
        /\ By(s, "track")' <=> By(s, "track")
        /\ By(s, "hook")' <=> By(s, "hook")
    BY <1>5 DEF Placed
  <2>5. QED BY <1>1, <1>2, <2>1, <2>2, <2>3, <2>4 DEF ScanInv
<1>9. QED BY <1>6, <1>7, <1>8, OneScan

LEMMA KeepsSetResult ==
  ASSUME LocalInv, NEW s \in Scans, SetResult(s)
  PROVE  LocalInv'
<1>1. /\ UNCHANGED <<row, run, runtimes, tracked, hooked, workq, http>>
      /\ run[s].pc \in {"ended", "raised"} /\ future[s] = "running"
      /\ future' = [future EXCEPT ![s] = "finished"]
  BY DEF SetResult, runVars
<1>2. RunsInv /\ HttpInv /\ ScanInv(s)
  BY DEF LocalInv, LocalTypes
<1>3. HttpInv' /\ \A u \in Scans, l \in Placed : By(u, l)' <=> By(u, l)
  BY <1>1, <1>2, HttpKept
<1>4. /\ future' \in [Scans -> {"none", "pending", "running", "cancelled", "finished"}]
      /\ future'[s] = "finished" /\ \A u \in Scans \ {s} : future'[u] = future[u]
  BY <1>1 DEF LocalInv, LocalTypes
<1>5. LocalTypes'
  BY <1>1, <1>2, <1>3, <1>4, RowsKept DEF LocalInv, LocalTypes, NoRepeat
<1>6. \A u \in Scans \ {s} : Untouched(u)
  BY <1>1, <1>3, <1>4 DEF Untouched
<1>7. ScanInv(s)'
  <2>1. /\ run'[s].pc # "idle" /\ run'[s].pc \notin R!Busy
        /\ row'[s].status # "none" /\ ~Unsubmitted(s) /\ s \notin ToSet(workq')
    BY <1>1, <1>2 DEF ScanInv, Unsubmitted, R!Busy, R!InTry
  <2>2. Held(s)' <=> Held(s)
    BY <1>1, <1>4, <2>1 DEF Held
  <2>3. /\ By(s, "register")' <=> By(s, "register")
        /\ By(s, "submit")' <=> By(s, "submit")
        /\ By(s, "track")' <=> By(s, "track")
        /\ By(s, "hook")' <=> By(s, "hook")
    BY <1>3 DEF Placed
  <2>4. QED BY <1>1, <1>2, <1>4, <2>1, <2>2, <2>3 DEF ScanInv
<1>8. QED BY <1>5, <1>6, <1>7, OneScan

LEMMA KeepsRunCallbacks ==
  ASSUME LocalInv, NEW s \in Scans, RunCallbacks(s)
  PROVE  LocalInv'
<1>1. /\ UNCHANGED <<row, future, hooked, workq, http>>
      /\ future[s] = "finished" /\ run[s].pc # "idle"
      /\ run' = [run EXCEPT ![s] = R!Idle]
      /\ s \in hooked => Unregister(s)
      /\ s \notin hooked => runtimes' = runtimes /\ tracked' = tracked
  BY DEF RunCallbacks, R!Leave, R!At
<1>2. RunsInv /\ HttpInv /\ ScanInv(s)
  BY DEF LocalInv, LocalTypes
<1>3. HttpInv' /\ \A u \in Scans, l \in Placed : By(u, l)' <=> By(u, l)
  BY <1>1, <1>2, HttpKept
<1>4. R!Idle \in RunType /\ R!Idle.pc = "idle"
  BY DEF R!Idle, RunType, RunPcs, R!Outcomes
<1>5. /\ run' \in [Scans -> RunType] /\ run'[s].pc = "idle"
      /\ \A u \in Scans \ {s} : run'[u] = run[u]
  BY <1>1, <1>2, <1>4 DEF RunsInv
<1>6. RunsInv'
  <2>1. \A u \in Scans : run'[u].pc # "idle" => run'[u].scan = u
    BY <1>2, <1>5 DEF RunsInv
  <2>2. row' \in [Scans -> RowType]
    BY <1>1, <1>2 DEF RunsInv
  <2>3. QED BY <1>5, <2>1, <2>2 DEF RunsInv, RowType, RunType, RunPcs
<1>7. LocalTypes'
  BY <1>1, <1>3, <1>6 DEF LocalInv, LocalTypes, NoRepeat, Unregister
<1>8. \A u \in Scans \ {s} : Untouched(u)
  BY <1>1, <1>3, <1>5 DEF Untouched, Unregister
<1>9. ScanInv(s)'
  <2>1. /\ row'[s].status # "none" /\ ~Unsubmitted(s) /\ s \notin ToSet(workq')
        /\ future'[s] = "finished" /\ run'[s].pc \notin R!Busy
    BY <1>1, <1>2, <1>5 DEF ScanInv, Unsubmitted, R!Busy, R!InTry
  <2>2. /\ By(s, "register")' <=> By(s, "register")
        /\ By(s, "submit")' <=> By(s, "submit")
        /\ By(s, "track")' <=> By(s, "track")
        /\ By(s, "hook")' <=> By(s, "hook")
    BY <1>3 DEF Placed
  <2>3. CASE s \in hooked
    <3>1. s \notin runtimes' /\ s \notin tracked'
      BY <1>1, <2>3 DEF Unregister
    <3>2. ~By(s, "register") /\ ~By(s, "submit") /\ ~By(s, "track") /\ ~By(s, "hook")
      BY <1>2, <2>1, <2>3 DEF ScanInv
    <3>3. QED BY <1>5, <2>1, <2>2, <3>1, <3>2 DEF ScanInv
  <2>4. CASE s \notin hooked
    <3>1. ~Held(s)
      BY <2>4 DEF Held
    <3>2. QED BY <1>1, <1>2, <1>5, <2>1, <2>2, <2>4, <3>1 DEF ScanInv
  <2>5. QED BY <2>3, <2>4
<1>10. QED BY <1>7, <1>8, <1>9, OneScan

-----------------------------------------------------------------------------
\* cancel_scan
LEMMA KeepsReadRow ==
  ASSUME LocalInv, NEW h \in Cancellers, NEW s \in Scans, ReadRow(h, s)
  PROVE  LocalInv'
<1> DEFINE x == [pc |-> "cancel", scan |-> s, seen |-> row[s].status]
<1>1. /\ http' = [http EXCEPT ![h] = x]
      /\ UNCHANGED <<row, run, runtimes, tracked, future, hooked, workq>>
  BY DEF ReadRow, runVars, registry
<1>2. RunsInv /\ HttpInv
  BY DEF LocalInv, LocalTypes
<1>3. row[s].status \in Seen /\ "cancel" \in CancellerPcs
  BY <1>2 DEF RunsInv, RowType, Seen, CancellerPcs
<1>4. x \in HttpType /\ x.pc = "cancel" /\ x.scan = s
  BY <1>3 DEF HttpType
<1> HIDE DEF x
<1>5. /\ x.pc \in CancellerPcs
      /\ x.pc # "free" => x.scan \in Scans
  BY <1>3, <1>4
<1>6. HttpInv' /\ \A u \in Scans, l \in Placed : By(u, l)' <=> By(u, l)
  BY <1>1, <1>2, <1>4, <1>5, CancellerMoves
<1>7. LocalTypes'
  BY <1>1, <1>2, <1>6, RowsKept DEF LocalInv, LocalTypes, NoRepeat
<1>8. \A u \in Scans : Untouched(u)
  BY <1>1, <1>6 DEF Untouched
<1>9. QED BY <1>7, <1>8, NoScan

\* A pending future that is tracked is cancelled, and its callback run if it
\* is there already; the job stays in the queue of the pool.
LEMMA KeepsCancelManaged ==
  ASSUME LocalInv, NEW h \in Cancellers, CancelManaged(h)
  PROVE  LocalInv'
<1>1. PICK s \in Scans : s = http[h].scan
  BY DEF CancelManaged, HttpAt, LocalInv, LocalTypes, HttpInv
<1> DEFINE x == [http[h] EXCEPT !.pc = "write"]
<1>2. /\ UNCHANGED <<row, run, hooked, workq>>
      /\ http' = [http EXCEPT ![h] = x]
      /\ \/ UNCHANGED <<future, runtimes, tracked>>
         \/ /\ s \in tracked /\ future[s] = "pending"
            /\ future' = [future EXCEPT ![s] = "cancelled"]
            /\ s \in hooked => Unregister(s)
            /\ s \notin hooked => runtimes' = runtimes /\ tracked' = tracked
  BY <1>1 DEF CancelManaged, HttpGoto, runVars
<1>3. RunsInv /\ HttpInv /\ ScanInv(s)
  BY DEF LocalInv, LocalTypes
<1>4. http[h] \in HttpType /\ "write" \in CancellerPcs
  BY <1>3 DEF HttpInv, Threads, CancellerPcs
<1>5. x \in HttpType /\ x.pc = "write" /\ x.scan = s
  BY <1>1, <1>4 DEF HttpType
<1> HIDE DEF x
<1>6. /\ x.pc \in CancellerPcs
      /\ x.pc # "free" => x.scan \in Scans
  BY <1>4, <1>5
<1>7. HttpInv' /\ \A u \in Scans, l \in Placed : By(u, l)' <=> By(u, l)
  BY <1>2, <1>3, <1>5, <1>6, CancellerMoves
<1>8. CASE UNCHANGED <<future, runtimes, tracked>>
  <2>1. LocalTypes'
    BY <1>2, <1>3, <1>7, <1>8, RowsKept DEF LocalInv, LocalTypes, NoRepeat
  <2>2. \A u \in Scans : Untouched(u)
    BY <1>2, <1>7, <1>8 DEF Untouched
  <2>3. QED BY <2>1, <2>2, NoScan
<1>9. CASE /\ s \in tracked /\ future[s] = "pending"
           /\ future' = [future EXCEPT ![s] = "cancelled"]
           /\ s \in hooked => Unregister(s)
           /\ s \notin hooked => runtimes' = runtimes /\ tracked' = tracked
  <2>1. /\ future' \in [Scans -> {"none", "pending", "running", "cancelled", "finished"}]
        /\ future'[s] = "cancelled" /\ \A u \in Scans \ {s} : future'[u] = future[u]
    BY <1>9 DEF LocalInv, LocalTypes
  <2>2. LocalTypes'
    BY <1>2, <1>3, <1>7, <1>9, <2>1, RowsKept
    DEF LocalInv, LocalTypes, NoRepeat, Unregister
  <2>3. \A u \in Scans \ {s} : Untouched(u)
    BY <1>2, <1>7, <1>9, <2>1 DEF Untouched, Unregister
  <2>4. ScanInv(s)'
    <3>1. /\ row'[s].status # "none" /\ ~Unsubmitted(s) /\ run'[s].pc = "idle"
          /\ s \in runtimes /\ ~By(s, "register") /\ ~By(s, "submit") /\ ~By(s, "track")
      BY <1>2, <1>3, <1>9 DEF ScanInv, Unsubmitted, R!Busy, R!InTry
    <3>2. /\ By(s, "register")' <=> By(s, "register")
          /\ By(s, "submit")' <=> By(s, "submit")
          /\ By(s, "track")' <=> By(s, "track")
          /\ By(s, "hook")' <=> By(s, "hook")
      BY <1>7 DEF Placed
    <3>3. CASE s \in hooked
      <4>1. s \notin runtimes' /\ s \notin tracked' /\ ~By(s, "hook")
        BY <1>3, <1>9, <3>3 DEF Unregister, ScanInv
      <4>2. QED BY <2>1, <3>1, <3>2, <4>1 DEF ScanInv, R!Busy, R!InTry
    <3>4. CASE s \notin hooked
      <4>1. /\ s \in runtimes' /\ s \in tracked' /\ s \notin hooked' /\ By(s, "hook")
        BY <1>2, <1>3, <1>9, <3>1, <3>4 DEF ScanInv
      <4>2. QED BY <2>1, <3>1, <3>2, <4>1 DEF ScanInv, R!Busy, R!InTry
    <3>5. QED BY <3>3, <3>4
  <2>5. QED BY <2>2, <2>3, <2>4, OneScan
<1>10. QED BY <1>2, <1>8, <1>9

LEMMA KeepsWriteCancel ==
  ASSUME LocalInv, NEW h \in Cancellers, WriteCancel(h)
  PROVE  LocalInv'
<1>1. PICK s \in Scans : s = http[h].scan
  BY DEF WriteCancel, HttpAt, LocalInv, LocalTypes, HttpInv
<1>2. PICK next \in {"cancelled", "cancelling"} :
        row' = [row EXCEPT ![s].status = next, ![s].cancelRequested = TRUE,
                           ![s].completed = @ \/ next = "cancelled"]
  BY <1>1 DEF WriteCancel, NextStatus
<1>3. /\ UNCHANGED <<run, runtimes, tracked, future, hooked, workq>>
      /\ http' = [http EXCEPT ![h] = Free]
  BY DEF WriteCancel, Respond, registry
<1>4. RunsInv /\ HttpInv
  BY DEF LocalInv, LocalTypes
<1> DEFINE x == Free
           r == [row[s] EXCEPT !.status = next, !.cancelRequested = TRUE,
                               !.completed = @ \/ next = "cancelled"]
<1>5. x \in HttpType /\ x.pc \in CancellerPcs /\ x.pc = "free"
  BY DEF Free, HttpType, CancellerPcs, Seen
<1>6. row' = [row EXCEPT ![s] = r]
  BY <1>2
<1>7. r \in RowType /\ r.status # "none"
  <2>1. row[s] \in RowType /\ row[s].completed \in BOOLEAN
    BY <1>4 DEF RunsInv, RowType
  <2>2. (row[s].completed \/ next = "cancelled") \in BOOLEAN
    OBVIOUS
  <2>3. next \in R!Terminal \cup R!Active \cup {"none"} /\ next # "none"
    BY DEF R!Terminal, R!Active
  <2>4. QED BY <2>1, <2>2, <2>3 DEF RowType
<1> HIDE DEF x, r
<1>8. HttpInv' /\ \A u \in Scans, l \in Placed : By(u, l)' <=> By(u, l)
  BY <1>3, <1>4, <1>5, CancellerMoves DEF x
<1>9. RunsInv' /\ \A u \in Scans : row[u].status # "none" => row'[u].status # "none"
  <2>1. /\ row' \in [Scans -> RowType] /\ row'[s] = r
        /\ \A u \in Scans \ {s} : row'[u] = row[u]
    BY <1>4, <1>6, <1>7 DEF RunsInv
  <2>2. RunsInv'
    BY <1>3, <1>4, <2>1 DEF RunsInv, RowType, RunType, RunPcs
  <2>3. QED BY <1>7, <2>1, <2>2
<1>10. LocalTypes'
  BY <1>3, <1>8, <1>9 DEF LocalInv, LocalTypes, NoRepeat
<1>11. \A u \in Scans : Untouched(u)
  BY <1>3, <1>8, <1>9 DEF Untouched
<1>12. QED BY <1>10, <1>11, NoScan

\* A new process has nothing but the rows.
Nothing ==
  /\ runtimes = {} /\ tracked = {} /\ hooked = {} /\ workq = <<>>
  /\ future = [s \in Scans |-> "none"]
  /\ run = [s \in Scans |-> R!Idle]
  /\ http = [h \in Threads |-> Free]

LEMMA NothingIsFine == Nothing /\ row \in [Scans -> RowType] => LocalInv
<1> SUFFICES ASSUME Nothing, row \in [Scans -> RowType] PROVE LocalInv
  OBVIOUS
<1>1. R!Idle \in RunType /\ R!Idle.pc = "idle"
  BY DEF R!Idle, RunType, RunPcs, R!Outcomes
<1>2. run \in [Scans -> RunType] /\ \A s \in Scans : run[s].pc = "idle"
  BY <1>1 DEF Nothing
<1>3. RunsInv
  BY <1>2 DEF RunsInv
<1>4. Free \in HttpType /\ Free.pc = "free"
  BY DEF Free, HttpType, LauncherPcs, Seen
<1>5. http \in [Threads -> HttpType] /\ \A h \in Threads : http[h].pc = "free"
  BY <1>4 DEF Nothing
<1>6. "free" \notin Placed /\ "free" \in LauncherPcs /\ "free" \in CancellerPcs
  BY DEF Placed, LauncherPcs, CancellerPcs
<1>7. HttpInv
  BY <1>5, <1>6 DEF HttpInv, Threads
<1>8. \A s \in Scans, l \in Placed : ~By(s, l)
  BY <1>5, <1>6 DEF By, Threads
<1>9. LocalTypes
  <2>1. workq \in Seq(Scans) /\ NoRepeat(workq)
    BY DEF Nothing, NoRepeat
  <2>2. QED BY <1>3, <1>7, <2>1 DEF Nothing, LocalTypes
<1>10. ASSUME NEW s \in Scans PROVE ScanInv(s)
  <2>1. /\ ~By(s, "register") /\ ~By(s, "submit") /\ ~By(s, "track") /\ ~By(s, "hook")
    BY <1>8 DEF Placed
  <2>2. s \notin ToSet(workq)
    BY DEF Nothing, ToSet
  <2>3. /\ s \notin runtimes /\ s \notin tracked /\ s \notin hooked
        /\ future[s] = "none" /\ run[s].pc = "idle"
    BY <1>2 DEF Nothing
  <2>4. QED BY <1>8, <2>1, <2>2, <2>3 DEF ScanInv, Unsubmitted, R!Busy, R!InTry
<1>11. QED BY <1>9, <1>10 DEF LocalInv

LEMMA StartsFine == Init => LocalInv
<1> SUFFICES ASSUME Init PROVE LocalInv
  OBVIOUS
<1>1. R!NoRow \in RowType
  BY DEF R!NoRow, RowType
<1>2. Nothing /\ row \in [Scans -> RowType]
  BY <1>1 DEF Init, Nothing, R!RunInit
<1>3. QED BY <1>2, NothingIsFine

LEMMA KeepsRestart ==
  ASSUME LocalInv, Restart
  PROVE  LocalInv'
<1>1. Nothing'
  BY DEF Restart, Nothing
<1>2. row' \in [Scans -> RowType]
  <2>1. ASSUME NEW s \in Scans PROVE Interrupted(row[s]) \in RowType
    <3>1. row[s] \in RowType
      BY DEF LocalInv, LocalTypes, RunsInv
    <3>2. QED BY <3>1 DEF Interrupted, Stopped, RowType, R!Terminal
  <2>2. QED BY <2>1 DEF Restart
<1>3. (row \in [Scans -> RowType])'
  BY <1>2 DEF RowType
<1>4. (Nothing /\ row \in [Scans -> RowType])' => LocalInv'
  BY NothingIsFine, PTL
<1>5. QED BY <1>1, <1>3, <1>4

LEMMA KeepsLocalInv ==
  ASSUME LocalInv, [Next]_vars
  PROVE  LocalInv'
<1>1. ASSUME NEW h \in Launchers, CountActive(h) \/ Launch(h)
      PROVE  LocalInv'
  BY <1>1, KeepsCountActive, KeepsCreateRecord, KeepsRegister, KeepsSubmit, KeepsTrack,
     KeepsHook
  DEF Launch
<1>2. ASSUME NEW h \in Cancellers, (\E s \in Scans : ReadRow(h, s)) \/ Cancel(h)
      PROVE  LocalInv'
  BY <1>2, KeepsReadRow, KeepsCancelManaged, KeepsWriteCancel DEF Cancel
<1>3. CASE PoolStart
  BY <1>3, KeepsPoolStart
<1>4. ASSUME NEW s \in Scans, Pool(s) \/ RunFails(s)
      PROVE  LocalInv'
  BY <1>4, KeepsRun, KeepsSetResult, KeepsRunCallbacks DEF Pool
<1>5. CASE Restart
  BY <1>5, KeepsRestart
<1>6. CASE UNCHANGED vars
  <2>1. UNCHANGED <<row, run, runtimes, tracked, future, hooked, workq, http>>
    BY <1>6 DEF vars, runVars, registry
  <2>2. RunsInv /\ HttpInv
    BY DEF LocalInv, LocalTypes
  <2>3. HttpInv' /\ \A u \in Scans, l \in Placed : By(u, l)' <=> By(u, l)
    BY <2>1, <2>2, HttpKept
  <2>4. LocalTypes'
    BY <2>1, <2>2, <2>3, RowsKept DEF LocalInv, LocalTypes, NoRepeat
  <2>5. \A u \in Scans : Untouched(u)
    BY <2>1, <2>3 DEF Untouched
  <2>6. QED BY <2>4, <2>5, NoScan
<1>7. QED BY <1>1, <1>2, <1>3, <1>4, <1>5, <1>6 DEF Next

LEMMA LocalInvHolds == Spec => []LocalInv
<1>1. LocalInv /\ [Next]_vars => LocalInv'
  BY KeepsLocalInv
<1>2. QED BY StartsFine, <1>1, PTL DEF Spec

-----------------------------------------------------------------------------
(***************************************************************************)
(* The quota.  A request that has passed the check of the quota and has    *)
(* not registered its scan yet holds a slot nobody else can see.           *)
(***************************************************************************)
Entering == {h \in Launchers : http[h].pc \in {"create", "register"}}

QuotaInv ==
  Cardinality(runtimes) + Cardinality(Entering)
    <= MaxActive + Cardinality(Launchers) - 1

LEMMA FiniteSlots ==
  ASSUME LocalInv
  PROVE  /\ IsFiniteSet(runtimes) /\ IsFiniteSet(Entering)
         /\ Cardinality(runtimes) \in Nat /\ Cardinality(Entering) \in Nat
         /\ Cardinality(Entering) <= Cardinality(Launchers) /\ Cardinality(Launchers) \in Nat
BY LocalAssumption, FS_Subset, FS_CardinalityType DEF LocalInv, LocalTypes, Entering

LEMMA FewerSlots ==
  ASSUME LocalInv, QuotaInv, runtimes' \subseteq runtimes, Entering' \subseteq Entering
  PROVE  QuotaInv'
<1>1. /\ Cardinality(runtimes') \in Nat /\ Cardinality(Entering') \in Nat
      /\ Cardinality(runtimes') <= Cardinality(runtimes)
      /\ Cardinality(Entering') <= Cardinality(Entering)
  BY FiniteSlots, FS_Subset, FS_CardinalityType
<1>2. QED BY <1>1, FiniteSlots, LocalAssumption DEF QuotaInv

\* A server thread that goes elsewhere is not on its way to the registry.
LEMMA GoesElsewhere ==
  ASSUME LocalInv, NEW h \in Threads, NEW x, http' = [http EXCEPT ![h] = x],
         x.pc \notin {"create", "register"}
  PROVE  Entering' \subseteq Entering \ {h}
BY DEF LocalInv, LocalTypes, HttpInv, Entering, Threads

LEMMA KeepsQuota ==
  ASSUME LocalInv, LocalInv', QuotaInv, [Next]_vars
  PROVE  QuotaInv'
<1>1. ASSUME NEW h \in Launchers, CountActive(h) PROVE QuotaInv'
  <2>1. runtimes' = runtimes /\ Cardinality(runtimes) < MaxActive
    BY <1>1 DEF CountActive, BelowLimit, registry
  <2>2. /\ Cardinality(Entering') \in Nat
        /\ Cardinality(Entering') <= Cardinality(Launchers)
    BY LocalAssumption, FS_Subset, FS_CardinalityType DEF Entering
  <2>3. QED BY <2>1, <2>2, FiniteSlots, LocalAssumption DEF QuotaInv
<1>2. ASSUME NEW h \in Launchers, CreateRecord(h) PROVE QuotaInv'
  <2>1. PICK s \in Scans : http' = [http EXCEPT ![h].pc = "register", ![h].scan = s]
    BY <1>2 DEF CreateRecord
  <2>2. Entering' \subseteq Entering /\ runtimes' = runtimes
    BY <1>2, <2>1
    DEF CreateRecord, HttpAt, Entering, registry, LocalInv, LocalTypes, HttpInv, HttpType,
        Threads
  <2>3. QED BY <2>2, FewerSlots
<1>3. ASSUME NEW h \in Launchers, Register(h) PROVE QuotaInv'
  <2> DEFINE x == [http[h] EXCEPT !.pc = "submit"]
  <2>1. /\ http' = [http EXCEPT ![h] = x] /\ h \in Entering /\ h \in Threads
        /\ runtimes' = runtimes \cup {http[h].scan}
    BY <1>3 DEF Register, HttpGoto, HttpAt, Entering, Threads
  <2>2. x.pc = "submit"
    BY <2>1 DEF LocalInv, LocalTypes, HttpInv, HttpType
  <2> HIDE DEF x
  <2>3. Entering' \subseteq Entering \ {h}
    BY <2>1, <2>2, GoesElsewhere
  <2>4. Cardinality(Entering \ {h}) = Cardinality(Entering) - 1 /\ IsFiniteSet(Entering \ {h})
    BY <2>1, FiniteSlots, FS_RemoveElement
  <2>5. /\ Cardinality(Entering') \in Nat
        /\ Cardinality(Entering') <= Cardinality(Entering) - 1
    BY <2>3, <2>4, FS_Subset, FS_CardinalityType
  <2>6. /\ Cardinality(runtimes') \in Nat
        /\ Cardinality(runtimes') <= Cardinality(runtimes) + 1
    <3>1. CASE http[h].scan \in runtimes
      <4>1. runtimes' = runtimes
        BY <2>1, <3>1
      <4>2. QED BY <4>1, FiniteSlots
    <3>2. CASE http[h].scan \notin runtimes
      <4>1. Cardinality(runtimes') = Cardinality(runtimes) + 1
        BY <2>1, <3>2, FiniteSlots, FS_AddElement
      <4>2. QED BY <4>1, FiniteSlots
    <3>3. QED BY <3>1, <3>2
  <2>7. QED BY <2>5, <2>6, FiniteSlots, LocalAssumption DEF QuotaInv
<1>4. ASSUME NEW h \in Launchers, Submit(h) \/ Track(h) \/ Hook(h) PROVE QuotaInv'
  <2>1. PICK x : http' = [http EXCEPT ![h] = x] /\ x.pc \in {"track", "hook", "free"}
    <3>1. http[h] \in HttpType
      BY DEF LocalInv, LocalTypes, HttpInv, Threads
    <3>2. CASE Hook(h)
      <4> WITNESS Free
      <4>1. QED BY <3>2 DEF Hook, Respond, Free
    <3>3. CASE Submit(h)
      <4> WITNESS [http[h] EXCEPT !.pc = "track"]
      <4>1. QED BY <3>1, <3>3 DEF Submit, HttpGoto, HttpType
    <3>4. CASE Track(h)
      <4> WITNESS [http[h] EXCEPT !.pc = "hook"]
      <4>1. QED BY <3>1, <3>4 DEF Track, HttpGoto, HttpType
    <3>5. QED BY <1>4, <3>2, <3>3, <3>4
  <2>2. Entering' \subseteq Entering
    BY <2>1, GoesElsewhere DEF Threads
  <2>3. runtimes' \subseteq runtimes
    BY <1>4 DEF Submit, Track, Hook, Unregister
  <2>4. QED BY <2>2, <2>3, FewerSlots
<1>5. ASSUME NEW h \in Cancellers, (\E s \in Scans : ReadRow(h, s)) \/ Cancel(h)
      PROVE  QuotaInv'
  <2>1. \A g \in Launchers : http'[g] = http[g]
    BY <1>5, LocalAssumption
    DEF ReadRow, Cancel, CancelManaged, WriteCancel, HttpGoto, Respond, LocalInv, LocalTypes,
        HttpInv, Threads
  <2>2. Entering' = Entering
    BY <2>1 DEF Entering
  <2>3. runtimes' \subseteq runtimes
    BY <1>5 DEF ReadRow, Cancel, CancelManaged, WriteCancel, Unregister, registry
  <2>4. QED BY <2>2, <2>3, FewerSlots
<1>6. CASE PoolStart \/ \E s \in Scans : Pool(s) \/ RunFails(s)
  <2>1. http' = http /\ runtimes' \subseteq runtimes
    BY <1>6
    DEF PoolStart, Pool, RunScan, RunFails, SetResult, RunCallbacks, Unregister, registry
  <2>2. Entering' = Entering
    BY <2>1 DEF Entering
  <2>3. QED BY <2>1, <2>2, FewerSlots
<1>7. CASE Restart
  <2>1. runtimes' = {} /\ \A h \in Launchers : http'[h].pc = "free"
    BY <1>7 DEF Restart, Threads, Free
  <2>2. Entering' = {}
    BY <2>1 DEF Entering
  <2>3. QED BY <2>1, <2>2, FewerSlots
<1>8. CASE UNCHANGED vars
  <2>1. http' = http /\ runtimes' = runtimes
    BY <1>8 DEF vars, registry
  <2>2. Entering' = Entering
    BY <2>1 DEF Entering
  <2>3. QED BY <2>1, <2>2, FewerSlots
<1>9. QED BY <1>1, <1>2, <1>3, <1>4, <1>5, <1>6, <1>7, <1>8 DEF Next, Launch

LEMMA StartsBelowQuota == Init => QuotaInv
<1> SUFFICES ASSUME Init PROVE QuotaInv
  OBVIOUS
<1>1. runtimes = {} /\ \A h \in Launchers : http[h].pc = "free"
  BY DEF Init, Threads, Free
<1>2. Entering = {}
  BY <1>1 DEF Entering
<1>3. QED BY <1>1, <1>2, FS_EmptySet, LocalAssumption, FS_CardinalityType DEF QuotaInv

-----------------------------------------------------------------------------
(***************************************************************************)
(* Who will bring a scan to an end.                                        *)
(***************************************************************************)
Live(s) == row[s].status \in {"queued", "running"}
Writer(s) == \E h \in Cancellers : http[h].pc = "write" /\ http[h].scan = s
Early(s) == By(s, "register") \/ By(s, "submit")

LiveInv(s) ==
  /\ future[s] = "none" => ~Live(s) \/ Early(s)
  /\ future[s] = "running" => run[s].pc # "idle"
  /\ future[s] = "cancelled" => ~Live(s) \/ Writer(s)
  /\ future[s] = "finished" => ~Live(s) \/ DbErrors
  /\ run[s].pc = "ended" => ~Live(s)
  /\ run[s].pc = "raised" => DbErrors

\* A step takes nothing away from the owner of a scan.
Steady(s) ==
  /\ row'[s].status = row[s].status \/ ~Live(s)'
  /\ run'[s].pc = run[s].pc /\ future'[s] = future[s]
  /\ Writer(s) => Writer(s)' \/ ~Live(s)'
  /\ Early(s) => Early(s)'

LEMMA SteadyStep ==
  ASSUME NEW s \in Scans, LiveInv(s), Steady(s) PROVE LiveInv(s)'
BY DEF LiveInv, Steady, Live

\* An execution that returns has written its outcome, and one that raises had
\* an error of the database.
LEMMA EndIsWritten ==
  ASSUME RunsInv, NEW s \in Scans, NEW c \in BOOLEAN, R!RunStep(s, c) \/ R!RunError(s)
  PROVE  /\ run'[s].pc = "ended" => ~Live(s)'
         /\ run'[s].pc = "raised" => DbErrors
<1>1. /\ run[s] \in RunType /\ run \in [Scans -> RunType] /\ row \in [Scans -> RowType]
      /\ run[s].pc \in R!Busy => run[s].scan = s
  BY DEF RunsInv, R!Busy, R!InTry
<1>2. CASE R!Persist(s)
  <2>1. row' = R!Persisted(s) /\ run[s].scan = s
    BY <1>1, <1>2 DEF R!Persist, R!At, R!Busy
  <2>2. row'[s].status = run[s].outcome
    BY <1>1, <2>1 DEF R!Persisted, RowType
  <2>3. run[s].outcome \in R!Outcomes
    BY <1>1 DEF RunType
  <2>4. run'[s].pc = "ended"
    BY <1>1, <1>2 DEF R!Persist, R!Goto, RunType
  <2>5. QED BY <2>2, <2>3, <2>4 DEF Live, R!Outcomes
<1>3. CASE R!RunError(s)
  BY <1>1, <1>3
  DEF R!RunError, R!StartFails, R!Fatal, R!PersistFails, R!Goto, R!Finish, RunType
<1>4. CASE R!RunStep(s, c) /\ ~R!Persist(s)
  BY <1>1, <1>4
  DEF R!RunStep, R!Start, R!Check, R!AllScanned, R!Mark, R!BeforeRequest, R!Charge,
      R!ScannerEnds, R!Record, R!Wrapup, R!Goto, R!Finish, RunType
<1>5. QED BY <1>2, <1>3, <1>4

\* What a server thread does leaves the other threads where they are.
LEMMA OthersStay ==
  ASSUME LocalInv, NEW h \in Threads, NEW x, http' = [http EXCEPT ![h] = x]
  PROVE  /\ http'[h] = x /\ \A g \in Threads \ {h} : http'[g] = http[g]
         /\ h \in Launchers => \A s \in Scans : Writer(s) => Writer(s)'
         /\ h \in Cancellers => \A s \in Scans : Early(s) => Early(s)'
<1>1. /\ http'[h] = x /\ \A g \in Threads \ {h} : http'[g] = http[g]
      /\ Launchers \subseteq Threads /\ Cancellers \subseteq Threads
  BY DEF LocalInv, LocalTypes, HttpInv, Threads
<1>2. h \in Launchers => h \notin Cancellers
  BY LocalAssumption
<1>3. QED BY <1>1, <1>2 DEF Writer, Early, By

LEMMA LauncherKeepsLive ==
  ASSUME LocalInv, \A s \in Scans : LiveInv(s),
         NEW h \in Launchers, CountActive(h) \/ Launch(h), NEW s \in Scans
  PROVE  LiveInv(s)'
<1>1. /\ http[h] \in HttpType /\ h \in Threads
      /\ http[h].pc \in Placed => http[h].scan \in Scans
      /\ RunsInv /\ HttpInv /\ ScanInv(s) /\ LiveInv(s)
  BY DEF LocalInv, LocalTypes, HttpInv, Threads
<1>2. CASE CountActive(h)
  <2> DEFINE x == [http[h] EXCEPT !.pc = "create"]
  <2>1. /\ http' = [http EXCEPT ![h] = x] /\ http[h].pc = "free"
        /\ UNCHANGED <<row, run, future>>
    BY <1>2 DEF CountActive, HttpGoto, HttpAt, runVars, registry
  <2> HIDE DEF x
  <2>2. (Early(s) => Early(s)') /\ (Writer(s) => Writer(s)')
    BY <1>1, <2>1, OthersStay, ZenonT(40) DEF Early, By, Threads
  <2>3. QED BY <1>1, <2>1, <2>2, SteadyStep DEF Steady, Live
<1>3. CASE CreateRecord(h)
  <2>1. PICK u \in Scans :
          /\ row[u].status = "none"
          /\ row' = [row EXCEPT ![u].status = "queued"]
          /\ http' = [http EXCEPT ![h].pc = "register", ![h].scan = u]
    BY <1>3 DEF CreateRecord
  <2> DEFINE x == [http[h] EXCEPT !.pc = "register", !.scan = u]
  <2>2. /\ http' = [http EXCEPT ![h] = x] /\ http[h].pc = "create"
        /\ UNCHANGED <<run, future>>
    BY <1>3, <2>1 DEF CreateRecord, HttpAt, registry
  <2>3. x.pc = "register" /\ x.scan = u
    BY <1>1 DEF HttpType
  <2> HIDE DEF x
  <2>4. (Early(s) => Early(s)') /\ (Writer(s) => Writer(s)')
    BY <1>1, <2>2, OthersStay, ZenonT(40) DEF Early, By, Threads
  <2>5. CASE s = u
    <3>1. Early(s)'
      <4>1. http'[h].pc = "register" /\ http'[h].scan = s
        BY <1>1, <2>2, <2>3, <2>5, OthersStay
      <4>2. QED BY <4>1 DEF Early, By
    <3>2. future'[s] = "none" /\ run'[s].pc = "idle"
      BY <1>1, <2>1, <2>2, <2>5 DEF ScanInv, Unsubmitted
    <3>3. QED BY <3>1, <3>2 DEF LiveInv
  <2>6. CASE s # u
    <3>1. row'[s].status = row[s].status
      BY <1>1, <2>1, <2>6 DEF RunsInv
    <3>2. QED BY <1>1, <2>2, <2>4, <3>1, SteadyStep DEF Steady
  <2>7. QED BY <2>5, <2>6
<1>4. CASE Register(h)
  <2> DEFINE x == [http[h] EXCEPT !.pc = "submit"]
  <2>1. /\ http' = [http EXCEPT ![h] = x] /\ http[h].pc = "register"
        /\ UNCHANGED <<row, run, future>>
    BY <1>4 DEF Register, HttpGoto, HttpAt, runVars
  <2>2. x.pc = "submit" /\ x.scan = http[h].scan
    BY <1>1 DEF HttpType
  <2> HIDE DEF x
  <2>3. (Early(s) => Early(s)') /\ (Writer(s) => Writer(s)')
    BY <1>1, <2>1, <2>2, OthersStay, ZenonT(40) DEF Early, By, Threads
  <2>4. QED BY <1>1, <2>1, <2>3, SteadyStep DEF Steady, Live
<1>5. CASE Submit(h)
  <2> DEFINE x == [http[h] EXCEPT !.pc = "track"]
  <2>1. /\ http' = [http EXCEPT ![h] = x] /\ http[h].pc = "submit"
        /\ future' = [future EXCEPT ![http[h].scan] = "pending"]
        /\ UNCHANGED <<row, run>>
    BY <1>5 DEF Submit, HttpGoto, HttpAt, runVars
  <2>2. future \in [Scans -> {"none", "pending", "running", "cancelled", "finished"}]
    BY DEF LocalInv, LocalTypes
  <2> HIDE DEF x
  <2>3. CASE s = http[h].scan
    <3>1. future'[s] = "pending"
      BY <2>1, <2>2, <2>3
    <3>2. run[s].pc = "idle"
      <4>1. By(s, "submit")
        BY <2>1, <2>3 DEF By
      <4>2. QED BY <1>1, <4>1 DEF ScanInv, Unsubmitted
    <3>3. QED BY <2>1, <3>1, <3>2 DEF LiveInv
  <2>4. CASE s # http[h].scan
    <3>1. (Early(s) => Early(s)') /\ (Writer(s) => Writer(s)')
      BY <1>1, <2>1, <2>4, OthersStay, ZenonT(40) DEF Early, By, Threads
    <3>2. future'[s] = future[s]
      BY <2>1, <2>2, <2>4
    <3>3. QED BY <1>1, <2>1, <3>1, <3>2, SteadyStep DEF Steady, Live
  <2>5. QED BY <2>3, <2>4
<1>6. CASE Track(h) \/ Hook(h)
  <2>1. /\ UNCHANGED <<row, run, future>>
        /\ http[h].pc \in {"track", "hook"}
        /\ \E x : http' = [http EXCEPT ![h] = x]
    BY <1>6 DEF Track, Hook, Respond, HttpGoto, HttpAt, runVars
  <2>2. PICK x : http' = [http EXCEPT ![h] = x]
    BY <2>1
  <2>3. (Early(s) => Early(s)') /\ (Writer(s) => Writer(s)')
    <3>1. /\ Writer(s) => Writer(s)'
          /\ \A g \in Threads \ {h} : http'[g] = http[g]
      BY <1>1, <2>2, OthersStay
    <3>2. QED BY <2>1, <3>1 DEF Early, By, Threads
  <2>4. QED BY <1>1, <2>1, <2>3, SteadyStep DEF Steady, Live
<1>7. QED BY <1>2, <1>3, <1>4, <1>5, <1>6 DEF Launch

LEMMA CancellerKeepsLive ==
  ASSUME LocalInv, \A s \in Scans : LiveInv(s), NEW h \in Cancellers,
         (\E u \in Scans : ReadRow(h, u)) \/ Cancel(h), NEW s \in Scans
  PROVE  LiveInv(s)'
<1>1. /\ http[h] \in HttpType /\ h \in Threads
      /\ http[h].pc # "free" => http[h].scan \in Scans
      /\ RunsInv /\ HttpInv /\ ScanInv(s) /\ LiveInv(s)
  BY DEF LocalInv, LocalTypes, HttpInv, Threads
<1>2. CASE \E u \in Scans : ReadRow(h, u)
  <2>1. PICK x : http' = [http EXCEPT ![h] = x]
    BY <1>2 DEF ReadRow
  <2>2. /\ http[h].pc = "free" /\ UNCHANGED <<row, run, future>>
    BY <1>2 DEF ReadRow, HttpAt, runVars, registry
  <2>3. (Early(s) => Early(s)') /\ (Writer(s) => Writer(s)')
    BY <1>1, <2>1, <2>2, OthersStay, ZenonT(40) DEF Writer, Threads
  <2>4. QED BY <1>1, <2>2, <2>3, SteadyStep DEF Steady, Live
<1>3. CASE CancelManaged(h)
  <2> DEFINE x == [http[h] EXCEPT !.pc = "write"]
             u == http[h].scan
  <2>1. /\ http' = [http EXCEPT ![h] = x] /\ http[h].pc = "cancel"
        /\ UNCHANGED <<row, run>>
        /\ \/ future' = future
           \/ future[u] = "pending" /\ future' = [future EXCEPT ![u] = "cancelled"]
    BY <1>3 DEF CancelManaged, HttpGoto, HttpAt, runVars
  <2>2. /\ x.pc = "write" /\ x.scan = u
        /\ future \in [Scans -> {"none", "pending", "running", "cancelled", "finished"}]
    BY <1>1 DEF HttpType, LocalInv, LocalTypes
  <2> HIDE DEF x
  <2>3. /\ Early(s) => Early(s)'
        /\ Writer(s) => Writer(s)'
        /\ s = u => Writer(s)'
    <3>1. /\ Early(s) => Early(s)'
          /\ http'[h] = x /\ \A g \in Threads \ {h} : http'[g] = http[g]
      BY <1>1, <2>1, OthersStay
    <3>2. Writer(s) => Writer(s)'
      BY <2>1, <3>1 DEF Writer, Threads
    <3>3. s = u => http'[h].pc = "write" /\ http'[h].scan = s
      BY <2>2, <3>1
    <3>4. s = u => Writer(s)'
      BY <3>3 DEF Writer
    <3>5. QED BY <3>1, <3>2, <3>4
  <2>4. CASE future'[s] = future[s]
    BY <1>1, <2>1, <2>3, <2>4, SteadyStep DEF Steady, Live
  <2>5. CASE future'[s] # future[s]
    <3>1. s = u /\ future'[s] = "cancelled" /\ future[s] = "pending"
      BY <2>1, <2>2, <2>5
    <3>2. run'[s].pc = "idle"
      BY <1>1, <2>1, <3>1 DEF ScanInv
    <3>3. QED BY <2>3, <3>1, <3>2 DEF LiveInv
  <2>6. QED BY <2>4, <2>5
<1>4. CASE WriteCancel(h)
  <2> DEFINE u == http[h].scan
  <2>1. PICK next \in {"cancelled", "cancelling"} :
          row' = [row EXCEPT ![u].status = next, ![u].cancelRequested = TRUE,
                             ![u].completed = @ \/ next = "cancelled"]
    BY <1>4 DEF WriteCancel, NextStatus
  <2>2. /\ http' = [http EXCEPT ![h] = Free] /\ http[h].pc = "write"
        /\ UNCHANGED <<run, future>>
    BY <1>4 DEF WriteCancel, Respond, HttpAt, registry
  <2>3. Early(s) => Early(s)'
    BY <1>1, <2>2, OthersStay
  <2>4. CASE s = u
    <3>1. row'[s].status = next
      BY <1>1, <2>1, <2>4 DEF RunsInv, RowType
    <3>2. ~Live(s)'
      BY <3>1 DEF Live
    <3>3. QED BY <1>1, <2>2, <2>3, <3>2, SteadyStep DEF Steady
  <2>5. CASE s # u
    <3>1. Writer(s) => Writer(s)'
      BY <1>1, <2>2, <2>5, OthersStay, ZenonT(40) DEF Writer, Threads
    <3>2. row'[s].status = row[s].status
      BY <1>1, <2>1, <2>5 DEF RunsInv
    <3>3. QED BY <1>1, <2>2, <2>3, <3>1, <3>2, SteadyStep DEF Steady
  <2>6. QED BY <2>4, <2>5
<1>5. QED BY <1>2, <1>3, <1>4 DEF Cancel

LEMMA PoolKeepsLive ==
  ASSUME LocalInv, \A s \in Scans : LiveInv(s),
         PoolStart \/ \E u \in Scans : Pool(u) \/ RunFails(u), NEW s \in Scans
  PROVE  LiveInv(s)'
<1>1. /\ RunsInv /\ ScanInv(s) /\ LiveInv(s)
      /\ run \in [Scans -> RunType]
      /\ future \in [Scans -> {"none", "pending", "running", "cancelled", "finished"}]
  BY DEF LocalInv, LocalTypes, RunsInv
<1>2. (Early(s) => Early(s)') /\ (Writer(s) => Writer(s)')
  <2>1. http' = http
    BY DEF PoolStart, Pool, RunScan, RunFails, SetResult, RunCallbacks
  <2>2. QED BY <2>1 DEF Early, By, Writer
<1>3. CASE PoolStart
  <2> DEFINE u == Head(workq)
             x == [R!Idle EXCEPT !.pc = "start", !.scan = u]
  <2>1. /\ row' = row
        /\ \/ future' = future /\ run' = run
           \/ future' = [future EXCEPT ![u] = "running"] /\ run' = [run EXCEPT ![u] = x]
    BY <1>3 DEF PoolStart, R!Begin, runVars
  <2>2. x.pc = "start"
    BY DEF R!Idle
  <2> HIDE DEF x, u
  <2>3. CASE future'[s] = future[s] /\ run'[s] = run[s]
    BY <1>1, <1>2, <2>1, <2>3, SteadyStep DEF Steady, Live
  <2>4. CASE ~(future'[s] = future[s] /\ run'[s] = run[s])
    <3>1. future'[s] = "running" /\ run'[s].pc = "start"
      BY <1>1, <2>1, <2>2, <2>4
    <3>2. QED BY <3>1 DEF LiveInv
  <2>5. QED BY <2>3, <2>4
<1>4. ASSUME NEW u \in Scans, RunScan(u) \/ RunFails(u)
      PROVE  LiveInv(s)'
  <2>1. (u \in cancelEvent) \in BOOLEAN /\ future' = future
    BY <1>4 DEF RunScan, RunFails, registry
  <2>2. Moved(u)
    BY <1>1, <1>4, <2>1, StepMoves DEF RunScan, RunFails
  <2>3. CASE s = u
    <3>1. /\ run'[s].pc = "ended" => ~Live(s)'
          /\ run'[s].pc = "raised" => DbErrors
      BY <1>1, <1>4, <2>1, <2>3, EndIsWritten DEF RunScan, RunFails
    <3>2. future'[s] = "running" /\ run'[s].pc # "idle"
      BY <1>1, <2>1, <2>2, <2>3 DEF ScanInv, Moved
    <3>3. QED BY <3>1, <3>2 DEF LiveInv
  <2>4. CASE s # u
    BY <1>1, <1>2, <2>1, <2>2, <2>4, SteadyStep DEF Steady, Moved
  <2>5. QED BY <2>3, <2>4
<1>5. ASSUME NEW u \in Scans, SetResult(u)
      PROVE  LiveInv(s)'
  <2>1. /\ row' = row /\ run' = run /\ run[u].pc \in {"ended", "raised"}
        /\ future' = [future EXCEPT ![u] = "finished"]
    BY <1>5 DEF SetResult, runVars
  <2>2. CASE s = u
    <3>1. future'[s] = "finished"
      BY <1>1, <2>1, <2>2
    <3>2. QED BY <1>1, <2>1, <2>2, <3>1 DEF LiveInv, Live
  <2>3. CASE s # u
    <3>1. future'[s] = future[s]
      BY <1>1, <2>1, <2>3
    <3>2. QED BY <1>1, <1>2, <2>1, <3>1, SteadyStep DEF Steady
  <2>4. QED BY <2>2, <2>3
<1>6. ASSUME NEW u \in Scans, RunCallbacks(u)
      PROVE  LiveInv(s)'
  <2>1. /\ row' = row /\ future' = future /\ future[u] = "finished"
        /\ run' = [run EXCEPT ![u] = R!Idle]
    BY <1>6 DEF RunCallbacks, R!Leave
  <2>2. CASE s = u
    <3>1. run'[s].pc = "idle"
      BY <1>1, <2>1, <2>2 DEF R!Idle
    <3>2. QED BY <1>1, <2>1, <2>2, <3>1 DEF LiveInv, Live
  <2>3. CASE s # u
    <3>1. run'[s] = run[s]
      BY <1>1, <2>1, <2>3
    <3>2. QED BY <1>1, <1>2, <2>1, <3>1, SteadyStep DEF Steady
  <2>4. QED BY <2>2, <2>3
<1>7. QED BY <1>3, <1>4, <1>5, <1>6 DEF Pool

LEMMA KeepsLive ==
  ASSUME LocalInv, \A s \in Scans : LiveInv(s), [Next]_vars
  PROVE  (\A s \in Scans : LiveInv(s))'
<1> SUFFICES ASSUME NEW s \in Scans PROVE LiveInv(s)'
  OBVIOUS
<1>1. CASE Restart
  <2>1. /\ row'[s] = Interrupted(row[s]) /\ future'[s] = "none" /\ run'[s].pc = "idle"
    BY <1>1 DEF Restart, R!Idle
  <2>2. row[s] \in RowType
    BY DEF LocalInv, LocalTypes, RunsInv
  <2>3. ~Live(s)'
    BY <2>1, <2>2 DEF Live, Interrupted, Stopped, RowType, R!Active
  <2>4. QED BY <2>1, <2>3 DEF LiveInv
<1>2. CASE UNCHANGED vars
  BY <1>2 DEF vars, runVars, registry, LiveInv, Live, Early, By, Writer
<1>3. QED
  BY <1>1, <1>2, LauncherKeepsLive, CancellerKeepsLive, PoolKeepsLive DEF Next

LEMMA StartsDead == Init => \A s \in Scans : LiveInv(s)
<1> SUFFICES ASSUME Init, NEW s \in Scans PROVE LiveInv(s)
  OBVIOUS
<1>1. /\ future[s] = "none" /\ run[s].pc = "idle" /\ row[s].status = "none"
  BY DEF Init, R!RunInit, R!NoRow, R!Idle
<1>2. QED BY <1>1 DEF LiveInv, Live

-----------------------------------------------------------------------------
(***************************************************************************)
(* What the registry promises.                                             *)
(***************************************************************************)

\* A runtime in _RUNTIMES, or a future in _FUTURES, always has something
\* that will take it out again, at whatever step of submit, of the pool or
\* of cancel the others are: no slot of the quota is lost for good.
THEOREM RegistryIsBackedHolds == Spec => []RegistryIsBacked
<1>1. ASSUME LocalInv, NEW s \in runtimes \cup tracked
      PROVE  \/ Launching(s) # {}
             \/ s \in hooked /\ future[s] \in {"pending", "running"}
             \/ s \in hooked /\ future[s] = "finished" /\ run[s].pc # "idle"
  <2>1. ScanInv(s)
    BY <1>1 DEF LocalInv, LocalTypes
  <2>2. CASE Held(s)
    BY <2>2 DEF Held
  <2>3. CASE By(s, "submit") \/ By(s, "track") \/ By(s, "hook")
    BY <2>3 DEF By, Launching
  <2>4. QED BY <1>1, <2>1, <2>2, <2>3 DEF ScanInv
<1>2. LocalInv => RegistryIsBacked
  BY <1>1 DEF RegistryIsBacked
<1>3. QED BY LocalInvHolds, <1>2, PTL

\* A scan that executes is in _RUNTIMES: it is counted by active_scan_count,
\* and cancel finds the event that stops it.
THEOREM RunningIsRegisteredHolds == Spec => []RunningIsRegistered
<1>1. LocalInv => RunningIsRegistered
  BY DEF LocalInv, ScanInv, RunningIsRegistered
<1>2. QED BY LocalInvHolds, <1>1, PTL

\* The check of the quota in scan_live and the registration in submit are
\* not atomic: however many requests race, they overshoot
\* MAX_ACTIVE_SCANS_PER_USER by less than the number of server threads.
THEOREM OvershootBoundedHolds == Spec => []OvershootBounded
<1>1. LocalInv /\ LocalInv' /\ QuotaInv /\ [Next]_vars => QuotaInv'
  BY KeepsQuota
<1>2. Spec => []QuotaInv
  BY StartsBelowQuota, LocalInvHolds, <1>1, PTL DEF Spec
<1>3. LocalInv /\ QuotaInv => OvershootBounded
  BY FiniteSlots, LocalAssumption DEF QuotaInv, OvershootBounded
<1>4. QED BY <1>2, <1>3, LocalInvHolds, PTL

\* A row that says queued or running is never forgotten: the request that
\* inserted it, the pool, its execution or the cancellation of it is still to
\* write to it, unless an error of the database ended the execution.
THEOREM LiveRowIsOwnedHolds == Spec => []LiveRowIsOwned
<1> DEFINE LI == \A s \in Scans : LiveInv(s)
<1>1. Init => LI
  BY StartsDead
<1>2. LocalInv /\ LI /\ [Next]_vars => LI'
  BY KeepsLive
<1>3. LocalInv /\ LI => LiveRowIsOwned
  <2> SUFFICES ASSUME LocalInv, LI, NEW s \in Scans, row[s].status \in {"queued", "running"}
               PROVE  \/ Launching(s) # {}
                      \/ future[s] = "pending"
                      \/ run[s].pc \in R!Busy
                      \/ DbErrors /\ (run[s].pc = "raised" \/ future[s] = "finished")
                      \/ \E h \in Cancellers : HttpAt(h, "write") /\ http[h].scan = s
    BY DEF LiveRowIsOwned
  <2>1. LiveInv(s) /\ Live(s)
    BY DEF Live
  <2>2. /\ future[s] \in {"none", "pending", "running", "cancelled", "finished"}
        /\ run[s].pc \in R!Busy \cup {"idle", "ended", "raised"}
    BY DEF LocalInv, LocalTypes, RunsInv, RunType, RunPcs
  <2>3. Early(s) => Launching(s) # {}
    BY DEF Early, By, Launching
  <2>4. Writer(s) => \E h \in Cancellers : HttpAt(h, "write") /\ http[h].scan = s
    BY DEF Writer, HttpAt
  <2>5. QED BY <2>1, <2>2, <2>3, <2>4 DEF LiveInv
<1> HIDE DEF LI
<1>4. QED BY <1>1, <1>2, <1>3, LocalInvHolds, PTL DEF Spec

-----------------------------------------------------------------------------
(***************************************************************************)
(* Without cancellations: the status agrees with the place of the request, *)
(* of the future and of the execution, and goes the way of ScanLifecycle.  *)
(***************************************************************************)
Statuses == Lifecycle!Closing \cup Lifecycle!Open \cup {"none", "interrupted"}

QuietScan(s) ==
  /\ row[s].status \in Statuses
  /\ Early(s) \/ future[s] = "pending" => row[s].status = "queued"
  /\ future[s] # "cancelled"
  /\ run[s].pc = "start" => row[s].status = "queued"
  /\ run[s].pc \in R!Busy \ {"start"} => row[s].status = "running"
  /\ run[s].outcome \in Lifecycle!Closing

QuietInv == cancelEvent = {} /\ \A s \in Scans : QuietScan(s)

\* What a step may do to the status of one scan while the process lives.
StatusMoves(s) ==
  \/ row'[s].status = row[s].status
  \/ row[s].status = "none" /\ row'[s].status = "queued"
  \/ row[s].status = "queued" /\ row'[s].status = "running"
  \/ row[s].status = "running" /\ row'[s].status \in Lifecycle!Closing

\* A step leaves the status, the future and the execution of a scan alone.
LEMMA StaysQuiet ==
  ASSUME NEW s \in Scans, QuietScan(s), row'[s].status = row[s].status, run'[s] = run[s],
         future'[s] = future[s], Early(s)' => Early(s)
  PROVE  QuietScan(s)'
BY DEF QuietScan, R!Busy, R!InTry, Statuses, Lifecycle!Closing, Lifecycle!Open

\* run_scan that nobody cancels writes "running" until its last write, and
\* then its outcome.
LEMMA QuietRun ==
  ASSUME RunsInv, NEW s \in Scans, QuietScan(s), future[s] = "running",
         R!RunStep(s, FALSE) \/ R!RunError(s)
  PROVE  /\ StatusMoves(s)
         /\ run'[s].pc # "start"
         /\ run'[s].pc \in R!Busy => row'[s].status = "running"
         /\ run'[s].outcome \in Lifecycle!Closing
<1>1. /\ run[s] \in RunType /\ run \in [Scans -> RunType] /\ row \in [Scans -> RowType]
      /\ run[s].pc \in R!Busy => run[s].scan = s
      /\ run[s].outcome \in Lifecycle!Closing
      /\ row[s] \in RowType
  BY DEF RunsInv, R!Busy, R!InTry, QuietScan
<1>2. /\ run[s].pc = "start" => row[s].status = "queued"
      /\ run[s].pc \in {"check", "mark", "scan", "charge", "record", "wrapup", "final"}
           => row[s].status = "running"
      /\ {"start", "check", "mark", "scan", "charge", "record", "wrapup", "final"} = R!Busy
      /\ {"done", "budget_exhausted", "failed"} = Lifecycle!Closing
  BY DEF QuietScan, R!Busy, R!InTry, Lifecycle!Closing
<1>3. CASE R!Start(s) \/ R!StartFails(s)
  <2>1. /\ run[s].pc = "start" /\ run[s].scan = s
        /\ row' = row \/ row' = R!Opened(s)
        /\ R!Start(s) => row' = R!Opened(s)
    BY <1>1, <1>2, <1>3 DEF R!Start, R!StartFails, R!At
  <2>2. row' = R!Opened(s) => row'[s].status = "running"
    BY <1>1 DEF R!Opened, RowType
  <2>3. /\ run'[s].outcome = run[s].outcome
        /\ \/ R!Start(s) /\ run'[s].pc = "check"
           \/ run'[s].pc = "raised"
    BY <1>1, <1>3 DEF R!Start, R!StartFails, R!Goto, RunType
  <2>4. QED BY <1>1, <1>2, <2>1, <2>2, <2>3 DEF StatusMoves
<1>4. CASE R!Check(s, FALSE) \/ R!AllScanned(s) \/ R!BeforeRequest(s, FALSE) \/ R!Charge(s)
           \/ R!ScannerEnds(s) \/ R!Wrapup(s) \/ R!Fatal(s)
  <2>1. row' = row /\ run[s].pc \in {"check", "mark", "scan", "charge", "record", "wrapup"}
    BY <1>4
    DEF R!Check, R!AllScanned, R!BeforeRequest, R!Charge, R!ScannerEnds, R!Wrapup, R!Fatal,
        R!Finish, R!At
  <2>2. /\ run'[s].pc # "start"
        /\ run'[s].outcome \in {run[s].outcome, "done", "budget_exhausted", "failed"}
    BY <1>1, <1>4
    DEF R!Check, R!AllScanned, R!BeforeRequest, R!Charge, R!ScannerEnds, R!Wrapup, R!Fatal,
        R!Finish, R!Goto, RunType
  <2>3. QED BY <1>1, <1>2, <2>1, <2>2 DEF StatusMoves
<1>5. CASE R!Mark(s) \/ R!Record(s)
  <2>1. /\ run[s].pc \in {"mark", "record"} /\ run[s].scan = s
        /\ row'[s].status = "running"
    BY <1>1, <1>2, <1>5 DEF R!Mark, R!Record, R!Report, R!At, RowType
  <2>2. run'[s].pc # "start" /\ run'[s].outcome = run[s].outcome
    BY <1>1, <1>5 DEF R!Mark, R!Record, R!Goto, RunType
  <2>3. QED BY <1>1, <1>2, <2>1, <2>2 DEF StatusMoves
<1>6. CASE R!Persist(s) \/ R!PersistFails(s)
  <2>1. /\ run[s].pc = "final" /\ run[s].scan = s
        /\ row' = row \/ row' = R!Persisted(s)
    BY <1>1, <1>2, <1>6 DEF R!Persist, R!PersistFails, R!At
  <2>2. row' = R!Persisted(s) => row'[s].status = run[s].outcome
    BY <1>1, <2>1 DEF R!Persisted, RowType
  <2>3. run'[s].pc \in {"ended", "raised"} /\ run'[s].outcome = run[s].outcome
    BY <1>1, <1>6 DEF R!Persist, R!PersistFails, R!Goto, RunType
  <2>4. QED BY <1>1, <1>2, <2>1, <2>2, <2>3 DEF StatusMoves
<1>7. QED BY <1>3, <1>4, <1>5, <1>6 DEF R!RunStep, R!RunError

\* A launcher that goes where no new scan waits brings none there.
LEMMA EarlyOnly ==
  ASSUME LocalInv, NEW h \in Launchers, NEW x, http' = [http EXCEPT ![h] = x], NEW s \in Scans,
         x.pc \notin {"register", "submit"} \/ x.scan # s
  PROVE  Early(s)' => Early(s)
<1>1. \A g \in Launchers \ {h} : http'[g] = http[g]
  BY DEF LocalInv, LocalTypes, HttpInv, Threads
<1>2. http'[h] = x
  BY DEF LocalInv, LocalTypes, HttpInv, Threads
<1>3. QED BY <1>1, <1>2 DEF Early, By

LEMMA LauncherStaysQuiet ==
  ASSUME LocalInv, NEW s \in Scans, QuietScan(s), NEW h \in Launchers,
         CountActive(h) \/ Launch(h)
  PROVE  QuietScan(s)' /\ StatusMoves(s)
<1>1. /\ http[h] \in HttpType /\ RunsInv /\ ScanInv(s)
      /\ future \in [Scans -> {"none", "pending", "running", "cancelled", "finished"}]
  BY DEF LocalInv, LocalTypes, HttpInv, Threads
<1>2. CASE CreateRecord(h)
  <2>1. PICK u \in Scans :
          /\ row[u].status = "none"
          /\ row' = [row EXCEPT ![u].status = "queued"]
          /\ http' = [http EXCEPT ![h].pc = "register", ![h].scan = u]
    BY <1>2 DEF CreateRecord
  <2> DEFINE x == [http[h] EXCEPT !.pc = "register", !.scan = u]
  <2>2. http' = [http EXCEPT ![h] = x] /\ run' = run /\ future' = future
    BY <1>2, <2>1 DEF CreateRecord, registry
  <2>3. x.scan = u
    BY <1>1 DEF HttpType
  <2> HIDE DEF x
  <2>4. CASE s = u
    <3>1. row'[s].status = "queued" /\ run[s].pc = "idle" /\ future[s] = "none"
      BY <1>1, <2>1, <2>4 DEF ScanInv, Unsubmitted, RunsInv, RowType
    <3>2. QED
      BY <2>1, <2>2, <2>4, <3>1
      DEF QuietScan, StatusMoves, R!Busy, R!InTry, Statuses, Lifecycle!Closing, Lifecycle!Open
  <2>5. CASE s # u
    <3>1. row'[s].status = row[s].status
      BY <1>1, <2>1, <2>5 DEF RunsInv
    <3>2. Early(s)' => Early(s)
      BY <2>2, <2>3, <2>5, EarlyOnly
    <3>3. QED BY <2>2, <3>1, <3>2, StaysQuiet DEF StatusMoves
  <2>6. QED BY <2>4, <2>5
<1>3. CASE Register(h)
  <2> DEFINE x == [http[h] EXCEPT !.pc = "submit"]
  <2>1. /\ http' = [http EXCEPT ![h] = x] /\ http[h].pc = "register"
        /\ UNCHANGED <<row, run, future>>
    BY <1>3 DEF Register, HttpGoto, HttpAt, runVars
  <2>2. x.scan = http[h].scan
    BY <1>1 DEF HttpType
  <2> HIDE DEF x
  <2>3. Early(s)' => Early(s)
    <3>1. CASE http[h].scan = s
      BY <2>1, <3>1 DEF Early, By
    <3>2. CASE http[h].scan # s
      BY <2>1, <2>2, <3>2, EarlyOnly
    <3>3. QED BY <3>1, <3>2
  <2>4. QED BY <2>1, <2>3, StaysQuiet DEF StatusMoves
<1>4. CASE Submit(h)
  <2> DEFINE x == [http[h] EXCEPT !.pc = "track"]
  <2>1. /\ http' = [http EXCEPT ![h] = x] /\ http[h].pc = "submit"
        /\ future' = [future EXCEPT ![http[h].scan] = "pending"]
        /\ UNCHANGED <<row, run>>
    BY <1>4 DEF Submit, HttpGoto, HttpAt, runVars
  <2>2. x.pc = "track"
    BY <1>1 DEF HttpType
  <2> HIDE DEF x
  <2>3. Early(s)' => Early(s)
    BY <2>1, <2>2, EarlyOnly
  <2>4. CASE s = http[h].scan
    <3>1. Early(s) /\ future'[s] = "pending"
      BY <1>1, <2>1, <2>4 DEF Early, By
    <3>2. QED
      BY <2>1, <3>1
      DEF QuietScan, StatusMoves, R!Busy, R!InTry, Statuses, Lifecycle!Closing, Lifecycle!Open
  <2>5. CASE s # http[h].scan
    <3>1. future'[s] = future[s]
      BY <1>1, <2>1, <2>5
    <3>2. QED BY <2>1, <2>3, <3>1, StaysQuiet DEF StatusMoves
  <2>6. QED BY <2>4, <2>5
<1>5. CASE CountActive(h) \/ Track(h) \/ Hook(h)
  <2>1. UNCHANGED <<row, run, future>>
    BY <1>5 DEF CountActive, Track, Hook, runVars, registry
  <2>2. \E x : http' = [http EXCEPT ![h] = x] /\ x.pc \in {"create", "hook", "free"}
    <3>1. CASE CountActive(h)
      <4> WITNESS [http[h] EXCEPT !.pc = "create"]
      <4>1. QED BY <1>1, <3>1 DEF CountActive, HttpGoto, HttpType
    <3>2. CASE Track(h)
      <4> WITNESS [http[h] EXCEPT !.pc = "hook"]
      <4>1. QED BY <1>1, <3>2 DEF Track, HttpGoto, HttpType
    <3>3. CASE Hook(h)
      <4> WITNESS Free
      <4>1. QED BY <3>3 DEF Hook, Respond, Free
    <3>4. QED BY <1>5, <3>1, <3>2, <3>3
  <2>3. Early(s)' => Early(s)
    BY <2>2, EarlyOnly
  <2>4. QED BY <2>1, <2>3, StaysQuiet DEF StatusMoves
<1>6. QED BY <1>2, <1>3, <1>4, <1>5 DEF Launch

LEMMA PoolStaysQuiet ==
  ASSUME LocalInv, QuietInv, NEW s \in Scans,
         PoolStart \/ \E u \in Scans : Pool(u) \/ RunFails(u)
  PROVE  QuietScan(s)' /\ StatusMoves(s)
<1>1. /\ RunsInv /\ ScanInv(s) /\ QuietScan(s) /\ cancelEvent = {}
      /\ run \in [Scans -> RunType]
      /\ future \in [Scans -> {"none", "pending", "running", "cancelled", "finished"}]
  BY DEF LocalInv, LocalTypes, RunsInv, QuietInv
<1>2. Early(s)' => Early(s)
  <2>1. http' = http
    BY DEF PoolStart, Pool, RunScan, RunFails, SetResult, RunCallbacks
  <2>2. QED BY <2>1 DEF Early, By
<1>3. CASE PoolStart
  <2> DEFINE u == Head(workq)
             x == [R!Idle EXCEPT !.pc = "start", !.scan = u]
  <2>1. /\ row' = row
        /\ \/ future' = future /\ run' = run
           \/ /\ future[u] # "cancelled"
              /\ future' = [future EXCEPT ![u] = "running"] /\ run' = [run EXCEPT ![u] = x]
    BY <1>3 DEF PoolStart, R!Begin, runVars
  <2>2. x.pc = "start" /\ x.outcome = "done"
    BY DEF R!Idle
  <2>3. u \in ToSet(workq)
    BY <1>3, QueueTail DEF PoolStart, LocalInv, LocalTypes
  <2> HIDE DEF x, u
  <2>4. CASE future'[s] = future[s] /\ run'[s] = run[s]
    BY <1>1, <1>2, <2>1, <2>4, StaysQuiet DEF StatusMoves
  <2>5. CASE ~(future'[s] = future[s] /\ run'[s] = run[s])
    <3>1. /\ s = u /\ future[s] # "cancelled" /\ future'[s] = "running"
          /\ run'[s].pc = "start" /\ run'[s].outcome = "done"
      BY <1>1, <2>1, <2>2, <2>5
    <3>2. future[s] = "pending"
      BY <1>1, <2>3, <3>1 DEF ScanInv
    <3>3. ~Early(s)'
      BY <1>1, <1>2, <3>2 DEF Early, ScanInv, Unsubmitted
    <3>4. row'[s].status = "queued" /\ row'[s].status = row[s].status
      BY <1>1, <2>1, <3>2 DEF QuietScan
    <3>5. QED
      BY <3>1, <3>3, <3>4
      DEF QuietScan, StatusMoves, R!Busy, R!InTry, Statuses, Lifecycle!Closing, Lifecycle!Open
  <2>6. QED BY <2>4, <2>5
<1>4. ASSUME NEW u \in Scans, RunScan(u) \/ RunFails(u)
      PROVE  QuietScan(s)' /\ StatusMoves(s)
  <2>1. /\ FALSE \in BOOLEAN /\ future' = future
        /\ R!RunStep(u, FALSE) \/ R!RunError(u)
    <3>1. (u \in cancelEvent) = FALSE
      BY <1>1
    <3>2. CASE RunScan(u)
      BY <3>1, <3>2 DEF RunScan, registry
    <3>3. CASE RunFails(u)
      BY <3>3 DEF RunFails, registry
    <3>4. QED BY <1>4, <3>2, <3>3
  <2>2. Moved(u)
    BY <1>1, <2>1, StepMoves
  <2>3. CASE s = u
    <3>1. future[s] = "running"
      BY <1>1, <2>2, <2>3 DEF ScanInv, Moved
    <3>2. /\ StatusMoves(s)
          /\ run'[s].pc # "start"
          /\ run'[s].pc \in R!Busy => row'[s].status = "running"
          /\ run'[s].outcome \in Lifecycle!Closing
      BY <1>1, <2>1, <2>3, <3>1, QuietRun
    <3>3. row'[s].status \in Statuses
      BY <1>1, <3>2 DEF StatusMoves, QuietScan, Statuses, Lifecycle!Open
    <3>4. ~Early(s)'
      BY <1>1, <1>2, <3>1 DEF Early, ScanInv, Unsubmitted
    <3>5. QED
      BY <2>1, <3>1, <3>2, <3>3, <3>4
      DEF QuietScan, R!Busy, R!InTry, Statuses, Lifecycle!Closing, Lifecycle!Open
  <2>4. CASE s # u
    BY <1>1, <1>2, <2>1, <2>2, <2>4, StaysQuiet DEF Moved, StatusMoves
  <2>5. QED BY <2>3, <2>4
<1>5. ASSUME NEW u \in Scans, SetResult(u) \/ RunCallbacks(u)
      PROVE  QuietScan(s)' /\ StatusMoves(s)
  <2>1. row' = row
    BY <1>5 DEF SetResult, RunCallbacks, R!Leave, runVars
  <2>2. CASE s = u
    <3>1. /\ future'[s] = "finished" /\ future[s] \in {"running", "finished"}
          /\ \/ run' = run /\ run[s].pc \in {"ended", "raised"}
             \/ run'[s] = R!Idle
      BY <1>1, <1>5, <2>2 DEF SetResult, RunCallbacks, R!Leave, runVars
    <3>2. /\ run'[s].pc \notin R!Busy /\ run'[s].pc # "start"
          /\ run'[s].outcome \in Lifecycle!Closing
      BY <1>1, <3>1 DEF R!Idle, R!Busy, R!InTry, QuietScan, Lifecycle!Closing
    <3>3. ~Early(s)'
      BY <1>1, <1>2, <3>1 DEF Early, ScanInv, Unsubmitted
    <3>4. QED
      BY <1>1, <2>1, <3>1, <3>2, <3>3
      DEF QuietScan, StatusMoves, R!Busy, R!InTry, Statuses, Lifecycle!Closing, Lifecycle!Open
  <2>3. CASE s # u
    <3>1. future'[s] = future[s] /\ run'[s] = run[s]
      BY <1>1, <1>5, <2>3 DEF SetResult, RunCallbacks, R!Leave, runVars
    <3>2. QED BY <1>1, <1>2, <2>1, <3>1, StaysQuiet DEF StatusMoves
  <2>4. QED BY <2>2, <2>3
<1>6. QED BY <1>3, <1>4, <1>5 DEF Pool

LEMMA RestartIsQuiet ==
  ASSUME LocalInv, QuietInv, Restart
  PROVE  QuietInv' /\ Lifecycle!Interrupt
<1>1. ASSUME NEW s \in Scans
      PROVE  /\ QuietScan(s)'
             /\ row'[s].status = IF row[s].status \in Lifecycle!Open THEN "interrupted"
                                 ELSE row[s].status
  <2>1. /\ row'[s] = Interrupted(row[s]) /\ future'[s] = "none"
        /\ run'[s].pc = "idle" /\ run'[s].outcome = "done"
        /\ \A h \in Launchers : http'[h].pc = "free"
    BY <1>1 DEF Restart, R!Idle, Threads, Free
  <2>2. row[s] \in RowType /\ row[s].status \in Statuses
    BY DEF LocalInv, LocalTypes, RunsInv, QuietInv, QuietScan
  <2>3. row'[s].status = IF row[s].status \in Lifecycle!Open THEN "interrupted"
                         ELSE row[s].status
    BY <2>1, <2>2
    DEF Interrupted, Stopped, RowType, R!Active, Statuses, Lifecycle!Closing, Lifecycle!Open
  <2>4. ~Early(s)'
    BY <2>1 DEF Early, By
  <2>5. QuietScan(s)'
    BY <2>1, <2>2, <2>3, <2>4
    DEF QuietScan, R!Busy, R!InTry, Statuses, Lifecycle!Closing, Lifecycle!Open
  <2>6. QED BY <2>3, <2>5
<1>2. cancelEvent' = {}
  BY DEF Restart
<1>3. QED BY <1>1, <1>2 DEF QuietInv, Lifecycle!Interrupt

\* A step keeps the scans quiet, and is a step of the lifecycle or a stutter:
\* it changes the status of one scan at most, unless it is the restart.
LEMMA QuietStep ==
  ASSUME Cancellers = {}, LocalInv, QuietInv, Next \/ UNCHANGED vars
  PROVE  /\ QuietInv'
         /\ Restart \/ \A s \in Scans : StatusMoves(s)
<1>1. CASE Restart
  BY <1>1, RestartIsQuiet
<1>2. CASE \E h \in Launchers : CountActive(h) \/ Launch(h)
  <2>1. \A s \in Scans : QuietScan(s)' /\ StatusMoves(s)
    BY <1>2, LauncherStaysQuiet DEF QuietInv
  <2>2. cancelEvent' = cancelEvent
    BY <1>2 DEF CountActive, Launch, CreateRecord, Register, Submit, Track, Hook, registry
  <2>3. QED BY <2>1, <2>2 DEF QuietInv
<1>3. CASE PoolStart \/ \E s \in Scans : Pool(s) \/ RunFails(s)
  <2>1. \A s \in Scans : QuietScan(s)' /\ StatusMoves(s)
    BY <1>3, PoolStaysQuiet
  <2>2. cancelEvent' = cancelEvent
    BY <1>3 DEF PoolStart, Pool, RunScan, RunFails, SetResult, RunCallbacks, registry
  <2>3. QED BY <2>1, <2>2 DEF QuietInv
<1>4. CASE UNCHANGED vars
  <2>1. UNCHANGED <<row, run, future, http, cancelEvent>>
    BY <1>4 DEF vars, runVars, registry
  <2>2. \A s \in Scans : Early(s)' => Early(s)
    BY <2>1 DEF Early, By
  <2>3. \A s \in Scans : QuietScan(s)' /\ StatusMoves(s)
    BY <2>1, <2>2, StaysQuiet DEF QuietInv, StatusMoves
  <2>4. QED BY <2>1, <2>3 DEF QuietInv
<1>5. QED BY <1>1, <1>2, <1>3, <1>4 DEF Next

\* Which scan an action is about.
LEMMA OneStatus ==
  ASSUME Cancellers = {}, LocalInv, Next, ~Restart
  PROVE  \/ row' = row
         \/ \E s \in Scans : \A u \in Scans \ {s} : row'[u] = row[u]
<1>1. RunsInv
  BY DEF LocalInv, LocalTypes
<1>2. CASE \E h \in Launchers : CountActive(h) \/ Launch(h)
  <2>1. PICK h \in Launchers : CountActive(h) \/ Launch(h)
    BY <1>2
  <2>2. CASE CreateRecord(h)
    BY <1>1, <2>2 DEF CreateRecord, RunsInv
  <2>3. CASE ~CreateRecord(h)
    BY <2>1, <2>3 DEF CountActive, Launch, Register, Submit, Track, Hook, runVars
  <2>4. QED BY <2>2, <2>3
<1>3. CASE PoolStart \/ \E s \in Scans : SetResult(s) \/ RunCallbacks(s)
  BY <1>3 DEF PoolStart, SetResult, RunCallbacks, R!Begin, R!Leave, runVars
<1>4. ASSUME NEW s \in Scans, RunScan(s) \/ RunFails(s)
      PROVE  \A u \in Scans \ {s} : row'[u] = row[u]
  <2>1. (s \in cancelEvent) \in BOOLEAN
    OBVIOUS
  <2>2. Moved(s)
    BY <1>1, <1>4, <2>1, StepMoves DEF RunScan, RunFails
  <2>3. QED BY <2>2 DEF Moved
<1>5. QED BY <1>2, <1>3, <1>4 DEF Next, Pool

StatusNow == [s \in Scans |-> row[s].status]

LEMMA LifecycleStep ==
  ASSUME Cancellers = {}, LocalInv, QuietInv, [Next]_vars
  PROVE  QuietInv' /\ (Lifecycle!LifecycleNext \/ StatusNow' = StatusNow)
<1>1. QuietInv' /\ (Restart \/ \A s \in Scans : StatusMoves(s))
  BY QuietStep
<1>2. CASE Restart
  BY <1>1, <1>2, RestartIsQuiet DEF Lifecycle!LifecycleNext
<1>3. CASE ~Restart /\ Next
  <2>1. CASE row' = row
    BY <1>1, <2>1 DEF StatusNow
  <2>2. CASE \E s \in Scans : \A u \in Scans \ {s} : row'[u] = row[u]
    <3>1. PICK s \in Scans : \A u \in Scans \ {s} : row'[u] = row[u]
      BY <2>2
    <3>2. /\ StatusNow' = [StatusNow EXCEPT ![s] = row'[s].status]
          /\ StatusNow[s] = row[s].status
      BY <3>1 DEF StatusNow
    <3>3. CASE row'[s].status = row[s].status
      BY <1>1, <3>1, <3>3 DEF StatusNow
    <3>4. CASE row[s].status = "none" /\ row'[s].status = "queued"
      BY <1>1, <3>2, <3>4 DEF Lifecycle!LifecycleNext, Lifecycle!Accept, StatusNow
    <3>5. CASE row[s].status = "queued" /\ row'[s].status = "running"
      BY <1>1, <3>2, <3>5 DEF Lifecycle!LifecycleNext, Lifecycle!StartScan, StatusNow
    <3>6. CASE row[s].status = "running" /\ row'[s].status \in Lifecycle!Closing
      BY <1>1, <3>2, <3>6 DEF Lifecycle!LifecycleNext, Lifecycle!Close, StatusNow
    <3>7. QED BY <1>1, <1>3, <3>3, <3>4, <3>5, <3>6 DEF StatusMoves
  <2>3. QED BY <1>3, <2>1, <2>2, OneStatus
<1>4. CASE UNCHANGED vars
  BY <1>1, <1>4 DEF vars, runVars, StatusNow
<1>5. QED BY <1>2, <1>3, <1>4

LEMMA StartsQuiet == Init => QuietInv /\ Lifecycle!LifecycleInit
<1> SUFFICES ASSUME Init PROVE QuietInv /\ Lifecycle!LifecycleInit
  OBVIOUS
<1>1. /\ cancelEvent = {} /\ \A h \in Launchers : http[h].pc = "free"
      /\ \A s \in Scans : /\ future[s] = "none" /\ row[s].status = "none"
                          /\ run[s].pc = "idle" /\ run[s].outcome = "done"
  BY DEF Init, R!RunInit, R!NoRow, R!Idle, Threads, Free
<1>2. \A s \in Scans : ~Early(s)
  BY <1>1 DEF Early, By
<1>3. QuietInv
  BY <1>1, <1>2
  DEF QuietInv, QuietScan, Statuses, R!Busy, R!InTry, Lifecycle!Closing, Lifecycle!Open
<1>4. QED BY <1>1, <1>3 DEF Lifecycle!LifecycleInit

LEMMA QuietHolds ==
  ASSUME Cancellers = {}
  PROVE  Spec => []QuietInv
<1>1. LocalInv /\ QuietInv /\ [Next]_vars => QuietInv'
  BY LifecycleStep
<1>2. QED BY StartsQuiet, LocalInvHolds, <1>1, PTL DEF Spec

\* Where nobody cancels, a client that reads a terminal status may rely on
\* run_scan having stopped working on the scan: the finally clause writes it
\* last, and init_db only after the process that ran the scan is gone.
THEOREM TerminalIsQuietHolds ==
  ASSUME Cancellers = {}
  PROVE  Spec => []TerminalIsQuiet
<1>1. LocalInv /\ QuietInv => TerminalIsQuiet
  BY DEF QuietInv, QuietScan, TerminalIsQuiet, R!Terminal, R!Busy, R!InTry
<1>2. QED BY QuietHolds, LocalInvHolds, <1>1, PTL

\* Where nobody cancels, the requests, the pool, the executions, the errors
\* of the database and the restarts together implement the lifecycle of a
\* scan: its status goes from queued to running to one terminal status.
THEOREM FollowsLifecycleHolds ==
  ASSUME Cancellers = {}
  PROVE  Spec => FollowsLifecycle
<1>1. LocalInv /\ QuietInv /\ [Next]_vars
        => [Lifecycle!LifecycleNext]_([s \in Scans |-> row[s].status])
  BY LifecycleStep DEF StatusNow
<1>2. Init => Lifecycle!LifecycleInit
  BY StartsQuiet
<1>3. QED
  BY <1>1, <1>2, LocalInvHolds, QuietHolds, PTL
  DEF Spec, FollowsLifecycle, Lifecycle!LifecycleSpec

-----------------------------------------------------------------------------
(***************************************************************************)
(* What a set cancel_event stops.                                          *)
(***************************************************************************)
Placing(s) == \E l \in Placed : By(s, l)

\* A scan that died with its process: nothing can start it again.
Over(s) ==
  /\ row[s].status # "none" /\ ~Placing(s) /\ future[s] = "none"
  /\ run[s].pc = "idle" /\ run[s].requests = 0

\* From n requests at most one more is sent: the one that is past its check.
Stopping(s, n) ==
  \/ s \in cancelEvent /\ run[s].requests <= n
  \/ s \in cancelEvent /\ run[s].requests = n + 1 /\ run[s].pc # "charge"
  \/ Over(s)

CancelInv == \A s \in Scans : s \in cancelEvent => row[s].status # "none"

LEMMA RowStays ==
  ASSUME LocalInv, Next \/ UNCHANGED vars, NEW s \in Scans, row[s].status # "none"
  PROVE  row'[s].status # "none"
<1>1. RunsInv /\ row[s] \in RowType
  BY DEF LocalInv, LocalTypes, RunsInv
<1>2. ASSUME NEW h \in Launchers, CreateRecord(h) PROVE row'[s].status # "none"
  <2>1. PICK u \in Scans : row[u].status = "none" /\ row' = [row EXCEPT ![u].status = "queued"]
    BY <1>2 DEF CreateRecord
  <2>2. u # s
    BY <2>1
  <2>3. QED BY <1>1, <2>1, <2>2 DEF RunsInv
<1>3. ASSUME NEW h \in Cancellers, WriteCancel(h) PROVE row'[s].status # "none"
  <2>1. PICK next \in {"cancelled", "cancelling"} :
          row' = [row EXCEPT ![http[h].scan].status = next,
                             ![http[h].scan].cancelRequested = TRUE,
                             ![http[h].scan].completed = @ \/ next = "cancelled"]
    BY <1>3 DEF WriteCancel, NextStatus
  <2>2. row'[s].status \in {row[s].status, next}
    BY <1>1, <2>1 DEF RunsInv, RowType
  <2>3. QED BY <2>2
<1>4. ASSUME NEW u \in Scans, RunScan(u) \/ RunFails(u) PROVE row'[s].status # "none"
  <2>1. (u \in cancelEvent) \in BOOLEAN
    OBVIOUS
  <2>2. Moved(u)
    BY <1>1, <1>4, <2>1, StepMoves DEF RunScan, RunFails
  <2>3. QED BY <2>2 DEF Moved
<1>5. CASE Restart
  <2>1. row'[s] = Interrupted(row[s])
    BY <1>5 DEF Restart
  <2>2. QED BY <1>1, <2>1 DEF Interrupted, Stopped, RowType
<1>6. CASE row' = row
  BY <1>6
<1>7. ASSUME NEW h \in Launchers, CountActive(h) \/ Register(h) \/ Submit(h) \/ Track(h) \/ Hook(h)
      PROVE  row' = row
  BY <1>7 DEF CountActive, Register, Submit, Track, Hook, runVars
<1>8. ASSUME NEW h \in Cancellers, (\E u \in Scans : ReadRow(h, u)) \/ CancelManaged(h)
      PROVE  row' = row
  BY <1>8 DEF ReadRow, CancelManaged, runVars
<1>9. ASSUME PoolStart \/ \E u \in Scans : SetResult(u) \/ RunCallbacks(u)
      PROVE  row' = row
  BY <1>9 DEF PoolStart, SetResult, RunCallbacks, R!Begin, R!Leave, runVars
<1>10. CASE UNCHANGED vars
  BY <1>10 DEF vars, runVars
<1>11. QED
  BY <1>2, <1>3, <1>4, <1>5, <1>6, <1>7, <1>8, <1>9, <1>10 DEF Next, Launch, Cancel, Pool

\* Nothing counts requests but the charge that follows an unanswered check.
LEMMA RequestsGrow ==
  ASSUME RunsInv, NEW s \in Scans, NEW c \in BOOLEAN, R!RunStep(s, c) \/ R!RunError(s)
  PROVE  /\ \/ run'[s].requests = run[s].requests
            \/ /\ run[s].pc = "charge" /\ run'[s].pc # "charge"
               /\ run'[s].requests = run[s].requests + 1
         /\ run'[s].pc = "charge" => ~c
<1>1. run[s] \in RunType /\ run \in [Scans -> RunType]
  BY DEF RunsInv
<1>2. CASE R!BeforeRequest(s, c)
  BY <1>1, <1>2 DEF R!BeforeRequest, R!Goto, R!Finish, RunType
<1>3. CASE R!Charge(s)
  BY <1>1, <1>3 DEF R!Charge, R!At, R!Finish, RunType
<1>4. CASE R!Start(s) \/ R!Check(s, c) \/ R!AllScanned(s) \/ R!Mark(s) \/ R!ScannerEnds(s)
           \/ R!Record(s) \/ R!Wrapup(s) \/ R!Persist(s)
  BY <1>1, <1>4
  DEF R!Start, R!Check, R!AllScanned, R!Mark, R!ScannerEnds, R!Record, R!Wrapup, R!Persist,
      R!Goto, R!Finish, RunType
<1>5. CASE R!RunError(s)
  BY <1>1, <1>5
  DEF R!RunError, R!StartFails, R!Fatal, R!PersistFails, R!Goto, R!Finish, RunType
<1>6. QED BY <1>2, <1>3, <1>4, <1>5 DEF R!RunStep

\* No request is placed on a scan that has a row already.
LEMMA NotPlacedAgain ==
  ASSUME LocalInv, NEW s \in Scans, row[s].status # "none", ~Placing(s),
         NEW h \in Launchers, CountActive(h) \/ Launch(h)
  PROVE  ~Placing(s)' /\ future'[s] = future[s]
<1>1. /\ http[h] \in HttpType /\ http \in [Threads -> HttpType] /\ h \in Threads
      /\ future \in [Scans -> {"none", "pending", "running", "cancelled", "finished"}]
      /\ http[h].pc \in Placed => http[h].scan # s
  BY DEF LocalInv, LocalTypes, HttpInv, Threads, Placing, By
<1>2. \A g \in Launchers \ {h} : http'[g] = http[g]
  BY <1>1
  DEF CountActive, Launch, CreateRecord, Register, Submit, Track, Hook, HttpGoto, Respond,
      Threads
<1>3. http'[h].pc \in Placed => http'[h].scan # s
  <2>1. CASE CountActive(h)
    BY <1>1, <2>1 DEF CountActive, HttpGoto, HttpType, Placed
  <2>2. CASE CreateRecord(h)
    BY <1>1, <2>2 DEF CreateRecord, HttpType
  <2>3. CASE Register(h)
    BY <1>1, <2>3 DEF Register, HttpGoto, HttpAt, HttpType, Placed
  <2>4. CASE Submit(h)
    BY <1>1, <2>4 DEF Submit, HttpGoto, HttpAt, HttpType, Placed
  <2>5. CASE Track(h)
    BY <1>1, <2>5 DEF Track, HttpGoto, HttpAt, HttpType, Placed
  <2>6. CASE Hook(h)
    BY <1>1, <2>6 DEF Hook, Respond, Free, Placed
  <2>7. QED BY <2>1, <2>2, <2>3, <2>4, <2>5, <2>6 DEF Launch
<1>4. ~Placing(s)'
  BY <1>2, <1>3 DEF Placing, By
<1>5. future'[s] = future[s]
  <2>1. CASE Submit(h)
    BY <1>1, <2>1 DEF Submit, HttpAt, Placed
  <2>2. CASE ~Submit(h)
    BY <2>2 DEF CountActive, Launch, CreateRecord, Register, Track, Hook, registry
  <2>3. QED BY <2>1, <2>2
<1>6. QED BY <1>4, <1>5

LEMMA KeepsStopping ==
  ASSUME LocalInv, CancelInv, NEW s \in Scans, NEW n \in Nat, Stopping(s, n),
         Next \/ UNCHANGED vars
  PROVE  Stopping(s, n)'
<1>1. /\ RunsInv /\ HttpInv /\ ScanInv(s) /\ run \in [Scans -> RunType]
      /\ http \in [Threads -> HttpType]
      /\ future \in [Scans -> {"none", "pending", "running", "cancelled", "finished"}]
  BY DEF LocalInv, LocalTypes, RunsInv, HttpInv
<1>2. row[s].status # "none" /\ row'[s].status # "none"
  BY RowStays DEF Stopping, Over, CancelInv
<1>3. ASSUME NEW h \in Launchers, CountActive(h) \/ Launch(h)
      PROVE  Stopping(s, n)'
  <2>1. run' = run /\ cancelEvent' = cancelEvent
    BY <1>3
    DEF CountActive, Launch, CreateRecord, Register, Submit, Track, Hook, runVars, registry
  <2>2. Over(s) => Over(s)'
    BY <1>2, <1>3, <2>1, NotPlacedAgain DEF Over
  <2>3. QED BY <2>1, <2>2 DEF Stopping
<1>4. ASSUME NEW h \in Cancellers, (\E u \in Scans : ReadRow(h, u)) \/ Cancel(h)
      PROVE  Stopping(s, n)'
  <2>1. run' = run /\ cancelEvent \subseteq cancelEvent'
    BY <1>4 DEF ReadRow, Cancel, CancelManaged, WriteCancel, runVars, registry
  <2>2. future[s] = "none" => future'[s] = "none"
    BY <1>1, <1>4 DEF ReadRow, Cancel, CancelManaged, WriteCancel, registry
  <2>3. \A g \in Launchers : http'[g] = http[g]
    BY <1>1, <1>4, LocalAssumption
    DEF ReadRow, Cancel, CancelManaged, WriteCancel, HttpGoto, Respond, Threads
  <2>4. Placing(s)' => Placing(s)
    BY <2>3 DEF Placing, By
  <2>5. Over(s) => Over(s)'
    BY <1>2, <2>1, <2>2, <2>4 DEF Over
  <2>6. QED BY <2>1, <2>5 DEF Stopping
<1>5. ASSUME PoolStart \/ \E u \in Scans : Pool(u) \/ RunFails(u)
      PROVE  cancelEvent' = cancelEvent /\ (Placing(s)' => Placing(s))
  <2>1. http' = http /\ cancelEvent' = cancelEvent
    BY <1>5 DEF PoolStart, Pool, RunScan, RunFails, SetResult, RunCallbacks, registry
  <2>2. QED BY <2>1 DEF Placing, By
<1>6. CASE PoolStart
  <2> DEFINE u == Head(workq)
             x == [R!Idle EXCEPT !.pc = "start", !.scan = u]
  <2>1. \/ future' = future /\ run' = run
        \/ future' = [future EXCEPT ![u] = "running"] /\ run' = [run EXCEPT ![u] = x]
    BY <1>6 DEF PoolStart, R!Begin, runVars
  <2>2. x.requests = 0
    BY DEF R!Idle
  <2>3. u \in ToSet(workq)
    BY <1>6, QueueTail DEF PoolStart, LocalInv, LocalTypes
  <2> HIDE DEF x, u
  <2>4. Over(s) => s # u
    BY <1>1, <2>3 DEF Over, ScanInv
  <2>5. CASE future'[s] = future[s] /\ run'[s] = run[s]
    BY <1>2, <1>5, <1>6, <2>5 DEF Stopping, Over
  <2>6. CASE ~(future'[s] = future[s] /\ run'[s] = run[s])
    <3>1. run'[s].requests = 0 /\ ~Over(s)
      BY <1>1, <2>1, <2>2, <2>4, <2>6
    <3>2. QED BY <1>5, <1>6, <3>1 DEF Stopping
  <2>7. QED BY <2>5, <2>6
<1>7. ASSUME NEW u \in Scans, RunScan(u) \/ RunFails(u)
      PROVE  Stopping(s, n)'
  <2>1. /\ (u \in cancelEvent) \in BOOLEAN /\ future' = future
        /\ R!RunStep(u, u \in cancelEvent) \/ R!RunError(u)
    BY <1>7 DEF RunScan, RunFails, registry
  <2>2. Moved(u)
    BY <1>1, <2>1, StepMoves
  <2>3. cancelEvent' = cancelEvent /\ (Placing(s)' => Placing(s))
    BY <1>5, <1>7 DEF Pool
  <2>4. CASE s = u
    <3>1. /\ \/ run'[s].requests = run[s].requests
             \/ /\ run[s].pc = "charge" /\ run'[s].pc # "charge"
                /\ run'[s].requests = run[s].requests + 1
          /\ run'[s].pc = "charge" => s \notin cancelEvent
      BY <1>1, <2>1, <2>4, RequestsGrow
    <3>2. run[s].requests \in Int /\ ~Over(s)
      BY <1>1, <2>2, <2>4 DEF RunType, Over, Moved, R!Busy, R!InTry
    <3>3. QED BY <2>3, <3>1, <3>2 DEF Stopping
  <2>5. CASE s # u
    <3>1. run'[s] = run[s]
      BY <2>2, <2>5 DEF Moved
    <3>2. future' = future
      BY <2>1
    <3>3. Over(s) => Over(s)'
      BY <1>2, <2>3, <3>1, <3>2 DEF Over
    <3>4. QED BY <2>3, <3>1, <3>3 DEF Stopping
  <2>6. QED BY <2>4, <2>5
<1>8. ASSUME NEW u \in Scans, SetResult(u)
      PROVE  Stopping(s, n)'
  <2>1. run' = run /\ future[u] = "running" /\ future' = [future EXCEPT ![u] = "finished"]
    BY <1>8 DEF SetResult, runVars
  <2>2. Over(s) => Over(s)'
    BY <1>1, <1>2, <1>5, <1>8, <2>1 DEF Over, Pool
  <2>3. cancelEvent' = cancelEvent
    BY <1>5, <1>8 DEF Pool
  <2>4. QED BY <2>1, <2>2, <2>3 DEF Stopping
<1>9. ASSUME NEW u \in Scans, RunCallbacks(u)
      PROVE  Stopping(s, n)'
  <2>1. run[u].pc # "idle" /\ future' = future /\ run' = [run EXCEPT ![u] = R!Idle]
    BY <1>9 DEF RunCallbacks, R!Leave, R!At
  <2>2. Over(s) => Over(s)'
    BY <1>1, <1>2, <1>5, <1>9, <2>1 DEF Over, Pool
  <2>3. cancelEvent' = cancelEvent
    BY <1>5, <1>9 DEF Pool
  <2>4. run'[s] = run[s] \/ run'[s].requests = 0
    BY <1>1, <2>1 DEF R!Idle
  <2>5. QED BY <2>2, <2>3, <2>4 DEF Stopping
<1>10. CASE Restart
  <2>1. /\ future'[s] = "none" /\ run'[s].pc = "idle" /\ run'[s].requests = 0
        /\ \A h \in Launchers : http'[h].pc = "free"
    BY <1>10 DEF Restart, R!Idle, Threads, Free
  <2>2. ~Placing(s)'
    BY <2>1 DEF Placing, By, Placed
  <2>3. QED BY <1>2, <2>1, <2>2 DEF Stopping, Over
<1>11. CASE UNCHANGED vars
  BY <1>11 DEF vars, runVars, registry, Stopping, Over, Placing, By
<1>12. QED
  BY <1>3, <1>4, <1>6, <1>7, <1>8, <1>9, <1>10, <1>11 DEF Next, Pool

LEMMA CancelInvHolds == Spec => []CancelInv
<1>1. Init => CancelInv
  BY DEF Init, CancelInv
<1>2. LocalInv /\ CancelInv /\ [Next]_vars => CancelInv'
  <2> SUFFICES ASSUME LocalInv, CancelInv, Next \/ UNCHANGED vars,
                      NEW s \in Scans, s \in cancelEvent'
               PROVE  row'[s].status # "none"
    BY DEF CancelInv
  <2>1. s \in cancelEvent \/ s \in runtimes
    BY DEF Next, CountActive, Launch, CreateRecord, Register, Submit, Track, Hook, ReadRow,
           Cancel, CancelManaged, WriteCancel, PoolStart, Pool, RunScan, RunFails, SetResult,
           RunCallbacks, Restart, vars, registry
  <2>2. row[s].status # "none"
    BY <2>1 DEF CancelInv, LocalInv, ScanInv
  <2>3. QED BY <2>2, RowStays
<1>3. QED BY <1>1, <1>2, LocalInvHolds, PTL DEF Spec

\* Whenever the event of a scan is set, its execution sends one more request
\* at most, whichever scanner it is in: before_request asks is_cancelled ahead
\* of every request, and a scan that a restart stopped is never begun again.
THEOREM CancelStopsRequestsHolds == Spec => CancelStopsRequests
<1>1. ASSUME NEW CONSTANT s \in Scans, NEW CONSTANT n \in 0..Budget
      PROVE  Spec => [](s \in cancelEvent /\ run[s].requests = n
                          => [](run[s].requests <= n + 1))
  <2>1. n \in Nat
    BY LocalAssumption
  <2>2. LocalInv /\ CancelInv /\ Stopping(s, n) /\ [Next]_vars => Stopping(s, n)'
    BY <2>1, KeepsStopping
  <2>3. s \in cancelEvent /\ run[s].requests = n => Stopping(s, n)
    BY <2>1 DEF Stopping
  <2>4. LocalInv /\ Stopping(s, n) => run[s].requests <= n + 1
    <3>1. LocalInv => run[s].requests \in Int
      BY DEF LocalInv, LocalTypes, RunsInv, RunType
    <3>2. QED BY <2>1, <3>1 DEF Stopping, Over
  <2>5. QED BY <2>2, <2>3, <2>4, LocalInvHolds, CancelInvHolds, PTL DEF Spec
<1>2. QED BY <1>1 DEF CancelStopsRequests
=============================================================================
