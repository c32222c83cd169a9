--------------------------- MODULE ScanRunProofs ---------------------------
(***************************************************************************)
(* Proofs about ScanRun, for any number of scans, executions, scanners and *)
(* requests, for any answer of is_cancelled and any database error.        *)
(***************************************************************************)
EXTENDS ScanRun, TLAPS

-----------------------------------------------------------------------------
(* The progress that run_scan reports. *)

\* int(part / total * 100) is a percentage while no more than all scanners
\* are counted, and a number in any case.
LEMMA PercentBounds ==
  /\ \A n \in Nat : Percent(n) \in Nat
  /\ \A n \in 0..Total : Percent(n) \in 0..100
<1>1. Total \in Nat \ {0}
  BY ScanRunAssumption
<1>2. ASSUME NEW n \in Nat
      PROVE  Percent(n) \in Nat
  <2>1. 100 * n \in Nat
    BY <1>2
  <2>2. QED BY <1>1, <2>1 DEF Percent
<1>3. ASSUME NEW n \in 0..Total
      PROVE  Percent(n) <= 100
  <2> DEFINE q == (100 * n) \div Total
  <2>1. n \in Nat /\ q \in Nat
    BY <1>1, <1>2 DEF Percent
  <2>2. Total * q <= 100 * n
    BY <1>1, <2>1
  <2>3. 100 * n <= 100 * Total
    BY <1>1, <1>3
  <2>4. ASSUME q >= 101
        PROVE  FALSE
    <3> HIDE DEF q
    <3>1. Total * q >= Total * 101
      BY <1>1, <2>1, <2>4
    <3>2. QED BY <1>1, <2>1, <2>2, <2>3, <3>1
  <2>5. QED BY <2>1, <2>4 DEF Percent
<1>4. QED BY <1>2, <1>3

\* A scan that is not done reports at most 99.
LEMMA CappedBounds == \A n \in Nat : AtMost99(Percent(n)) \in 0..99
<1>1. TAKE n \in Nat
<1>2. Percent(n) \in Nat
  BY PercentBounds
<1>3. QED BY <1>2 DEF AtMost99

-----------------------------------------------------------------------------
(***************************************************************************)
(* The inductive invariant: what an execution has counted at each of its   *)
(* places, and what a row says.                                            *)
(***************************************************************************)
ExecType ==
  [pc : Busy \cup {"idle", "ended", "raised"}, scan : Scans \cup {None},
   index : 0..Total, results : 0..(Total + 1), requests : 0..Budget,
   outcome : Outcomes]

RowType ==
  [status : Terminal \cup Active \cup {"none"}, cancelRequested : BOOLEAN,
   progress : 0..100, results : 0..(Total + 1), requests : 0..Budget,
   completed : BOOLEAN]

\* There is one result for every scanner the execution is through with; the
\* outcome is "done" only after the last one.
Counts(x) ==
  /\ x.pc # "idle" => x.scan \in Scans
  /\ x.pc \in {"start", "check", "mark", "scan", "charge"} => x.results = x.index
  /\ x.pc = "record" => x.results = x.index + 1
  /\ x.pc \in {"mark", "scan", "charge", "record"} => x.index < Total
  /\ x.pc \in {"wrapup", "final"} /\ x.outcome = "done" => x.results = Total

Complete(r) ==
  r.status = "done" => r.results = Total /\ r.progress = 100 /\ r.completed

Counting == \A e \in Execs : Counts(run[e])
Announcing == \A e \in Execs : run[e].pc = "final" => run[e].scan \in announced
Rows == \A s \in Scans : Complete(row[s])

RunInv ==
  /\ row \in [Scans -> RowType]
  /\ run \in [Execs -> ExecType]
  /\ announced \subseteq Scans
  /\ Counting /\ Announcing /\ Rows /\ TerminalIsAnnounced

\* Initially no scan exists and nothing executes.
LEMMA InitRunInv == RunInit => RunInv
<1> SUFFICES ASSUME RunInit PROVE RunInv
  OBVIOUS
<1>1. NoRow \in RowType /\ Idle \in ExecType
  BY ScanRunAssumption DEF NoRow, Idle, RowType, ExecType, Active, Terminal,
     Outcomes, Busy, InTry
<1>2. Counts(Idle) /\ Complete(NoRow)
  BY DEF Counts, Complete, Idle, NoRow
<1>3. Idle.pc # "final" /\ NoRow.status \notin Outcomes
  BY DEF Idle, NoRow, Outcomes
<1>4. QED
  BY <1>1, <1>2, <1>3 DEF RunInit, RunInv, Counting, Announcing, Rows,
     TerminalIsAnnounced

\* An execution moves to x, and the rows stay as they are.
LEMMA Move ==
  ASSUME RunInv, NEW e \in Execs, NEW x \in ExecType, Counts(x),
         run' = [run EXCEPT ![e] = x], row' = row,
         announced \subseteq announced', announced' \subseteq Scans,
         x.pc = "final" => x.scan \in announced'
  PROVE  RunInv'
<1>1. /\ run' \in [Execs -> ExecType]
      /\ run'[e] = x
      /\ \A d \in Execs \ {e} : run'[d] = run[d]
  BY DEF RunInv
<1>2. Counting'
  BY <1>1 DEF RunInv, Counting
<1>3. Announcing'
  BY <1>1 DEF RunInv, Announcing
<1>4. TerminalIsAnnounced'
  BY DEF RunInv, TerminalIsAnnounced
<1>5. QED BY <1>1, <1>2, <1>3, <1>4 DEF RunInv, Rows

\* The row of s becomes r; what executes moves as Move allows.
LEMMA Write ==
  ASSUME RunInv, NEW s \in Scans, NEW r \in RowType, Complete(r),
         row' = [row EXCEPT ![s] = r], run' = run, announced' = announced,
         r.status \in Outcomes => s \in announced
  PROVE  RunInv'
<1>1. /\ row' \in [Scans -> RowType]
      /\ row'[s] = r
      /\ \A t \in Scans \ {s} : row'[t] = row[t]
  BY DEF RunInv
<1>2. Rows'
  BY <1>1 DEF RunInv, Rows
<1>3. TerminalIsAnnounced'
  BY <1>1 DEF RunInv, TerminalIsAnnounced
<1>4. QED BY <1>1, <1>2, <1>3 DEF RunInv, Counting, Announcing

\* Both at once.
LEMMA MoveAndWrite ==
  ASSUME RunInv, NEW e \in Execs, NEW x \in ExecType, Counts(x),
         run' = [run EXCEPT ![e] = x], x.pc # "final",
         NEW s \in Scans, NEW r \in RowType, Complete(r),
         row' = [row EXCEPT ![s] = r], announced' = announced,
         r.status \in Outcomes => s \in announced
  PROVE  RunInv'
<1>1. /\ run' \in [Execs -> ExecType]
      /\ run'[e] = x
      /\ \A d \in Execs \ {e} : run'[d] = run[d]
  BY DEF RunInv
<1>2. /\ row' \in [Scans -> RowType]
      /\ row'[s] = r
      /\ \A t \in Scans \ {s} : row'[t] = row[t]
  BY DEF RunInv
<1>3. Counting' /\ Announcing'
  BY <1>1 DEF RunInv, Counting, Announcing
<1>4. Rows' /\ TerminalIsAnnounced'
  BY <1>2 DEF RunInv, Rows, TerminalIsAnnounced
<1>5. QED BY <1>1, <1>2, <1>3, <1>4 DEF RunInv

\* Finish: the except clauses and the end of the loop.
LEMMA FinishStep ==
  ASSUME RunInv, NEW e \in Execs, NEW outcome \in Outcomes,
         NEW results \in 0..(Total + 1), run[e].pc # "idle",
         outcome = "done" => results = Total, Finish(e, outcome, results)
  PROVE  RunInv'
<1> DEFINE x == [run[e] EXCEPT !.pc = "wrapup", !.outcome = outcome,
                               !.results = results]
<1>1. run[e] \in ExecType /\ Counts(run[e])
  BY DEF RunInv, Counting
<1>2. x \in ExecType
  BY <1>1 DEF ExecType, Busy
<1>3. /\ x.pc = "wrapup" /\ x.outcome = outcome /\ x.results = results
      /\ x.scan = run[e].scan
  BY <1>1 DEF ExecType
<1>4. Counts(x)
  BY <1>1, <1>3 DEF Counts
<1>5. run' = [run EXCEPT ![e] = x] /\ row' = row /\ announced' = announced
  BY DEF Finish
<1>6. QED
  <2> HIDE DEF x
  <2>1. announced \subseteq announced' /\ announced' \subseteq Scans
    BY <1>5 DEF RunInv
  <2>2. QED BY <1>2, <1>3, <1>4, <1>5, <2>1, Move

\* Going to another place of the code, and nothing else.
LEMMA GotoStep ==
  ASSUME RunInv, NEW e \in Execs, NEW label,
         label \in Busy \cup {"ended", "raised"}, run[e].pc # "idle",
         Counts([run[e] EXCEPT !.pc = label]), label # "final",
         Goto(e, label), UNCHANGED <<row, announced>>
  PROVE  RunInv'
<1> DEFINE x == [run[e] EXCEPT !.pc = label]
<1>1. run[e] \in ExecType
  BY DEF RunInv
<1>2. x \in ExecType /\ x.pc = label
  BY <1>1 DEF ExecType
<1>3. run' = [run EXCEPT ![e] = x]
  BY DEF Goto
<1>4. QED
  <2> HIDE DEF x
  <2>1. Counts(x)
    BY DEF x
  <2>2. announced \subseteq announced' /\ announced' \subseteq Scans
    BY DEF RunInv
  <2>3. QED BY <1>2, <1>3, <2>1, <2>2, Move

\* The steps of the loop that leave the rows alone keep the invariant.
LEMMA LoopStep ==
  ASSUME RunInv, NEW e \in Execs, NEW cancelled \in BOOLEAN,
         \/ Check(e, cancelled) \/ AllScanned(e)
         \/ BeforeRequest(e, cancelled) \/ Charge(e) \/ ScannerEnds(e)
  PROVE  RunInv'
<1>1. run[e] \in ExecType /\ Counts(run[e])
  BY DEF RunInv, Counting
<1>2. /\ run[e].results \in 0..(Total + 1) /\ run[e].requests \in 0..Budget
      /\ run[e].index \in 0..Total
      /\ {"cancelled", "done", "budget_exhausted"} \subseteq Outcomes
  BY <1>1 DEF ExecType, Outcomes
<1>3. ASSUME NEW outcome \in {"cancelled", "budget_exhausted"}, run[e].pc # "idle",
             Finish(e, outcome, run[e].results)
      PROVE  RunInv'
  BY <1>2, <1>3, FinishStep
<1>4. CASE AllScanned(e)
  <2>1. run[e].pc # "idle" /\ run[e].results = Total
    BY <1>1, <1>4 DEF AllScanned, At, Counts
  <2>2. QED BY <1>2, <1>4, <2>1, FinishStep DEF AllScanned
<1>5. CASE Check(e, cancelled)
  <2>1. CASE cancelled
    BY <1>3, <1>5, <2>1 DEF Check, At
  <2>2. CASE ~cancelled
    <3>1. Goto(e, "mark") /\ UNCHANGED <<row, announced>> /\ run[e].pc = "check"
          /\ run[e].index < Total
      BY <1>5, <2>2 DEF Check, At
    <3>2. Counts([run[e] EXCEPT !.pc = "mark"])
      BY <1>1, <3>1 DEF Counts, ExecType
    <3>3. QED BY <3>1, <3>2, GotoStep DEF Busy, InTry
  <2>3. QED BY <2>1, <2>2
<1>6. CASE BeforeRequest(e, cancelled)
  <2>1. CASE cancelled
    BY <1>3, <1>6, <2>1 DEF BeforeRequest, At
  <2>2. CASE ~cancelled
    <3>1. Goto(e, "charge") /\ UNCHANGED <<row, announced>> /\ run[e].pc = "scan"
      BY <1>6, <2>2 DEF BeforeRequest, At
    <3>2. Counts([run[e] EXCEPT !.pc = "charge"])
      BY <1>1, <3>1 DEF Counts, ExecType
    <3>3. QED BY <3>1, <3>2, GotoStep DEF Busy, InTry
  <2>3. QED BY <2>1, <2>2
<1>7. CASE Charge(e)
  <2>1. CASE run[e].requests >= Budget
    BY <1>3, <1>7, <2>1 DEF Charge, At
  <2>2. CASE ~(run[e].requests >= Budget)
    <3> DEFINE x == [run[e] EXCEPT !.pc = "scan", !.requests = @ + 1]
    <3>1. run[e].pc = "charge" /\ run' = [run EXCEPT ![e] = x]
          /\ UNCHANGED <<row, announced>>
      BY <1>7, <2>2 DEF Charge, At
    <3>2. run[e].requests + 1 \in 0..Budget
      BY <1>2, <2>2, ScanRunAssumption
    <3>3. x \in ExecType
      BY <1>1, <3>2 DEF ExecType, Busy, InTry
    <3>4. /\ x.pc = "scan" /\ x.scan = run[e].scan /\ x.index = run[e].index
          /\ x.results = run[e].results
      BY <1>1 DEF ExecType
    <3>5. Counts(x)
      BY <1>1, <3>1, <3>4 DEF Counts
    <3>6. announced \subseteq announced' /\ announced' \subseteq Scans
      BY <3>1 DEF RunInv
    <3>7. QED
      <4> HIDE DEF x
      <4>1. QED BY <3>1, <3>3, <3>4, <3>5, <3>6, Move
  <2>3. QED BY <2>1, <2>2
<1>8. CASE ScannerEnds(e)
  <2> DEFINE x == [run[e] EXCEPT !.pc = "record", !.results = @ + 1]
  <2>1. run[e].pc = "scan" /\ run' = [run EXCEPT ![e] = x]
        /\ UNCHANGED <<row, announced>>
    BY <1>8 DEF ScannerEnds, At
  <2>2. run[e].results = run[e].index /\ run[e].index < Total
    BY <1>1, <2>1 DEF Counts
  <2>3. run[e].results + 1 \in 0..(Total + 1)
    BY <1>2, <2>2, ScanRunAssumption
  <2>4. x \in ExecType
    BY <1>1, <2>3 DEF ExecType, Busy, InTry
  <2>5. /\ x.pc = "record" /\ x.scan = run[e].scan /\ x.index = run[e].index
        /\ x.results = run[e].results + 1
    BY <1>1 DEF ExecType
  <2>6. Counts(x)
    BY <1>1, <2>1, <2>2, <2>5 DEF Counts
  <2>7. announced \subseteq announced' /\ announced' \subseteq Scans
    BY <2>1 DEF RunInv
  <2>8. QED
    <3> HIDE DEF x
    <3>1. QED BY <2>1, <2>4, <2>5, <2>6, <2>7, Move
<1>9. QED BY <1>4, <1>5, <1>6, <1>7, <1>8

\* The error inside the try: one result more than there were.
LEMMA FatalStep == ASSUME RunInv, NEW e \in Execs, Fatal(e) PROVE RunInv'
<1>1. run[e] \in ExecType /\ Counts(run[e])
  BY DEF RunInv, Counting
<1>2. run[e].pc # "idle" /\ run[e].results <= Total /\ "failed" \in Outcomes
  BY <1>1, ScanRunAssumption DEF Fatal, Counts, ExecType, Outcomes
<1>3. run[e].results + 1 \in 0..(Total + 1)
  BY <1>1, <1>2, ScanRunAssumption DEF ExecType
<1>4. QED BY <1>2, <1>3, FinishStep DEF Fatal

\* The audit and the emits come before the last update.
LEMMA WrapupStep == ASSUME RunInv, NEW e \in Execs, Wrapup(e) PROVE RunInv'
<1> DEFINE x == [run[e] EXCEPT !.pc = "final"]
<1>1. run[e] \in ExecType /\ Counts(run[e]) /\ run[e].pc = "wrapup"
  BY DEF RunInv, Counting, Wrapup, At
<1>2. x \in ExecType
  BY <1>1 DEF ExecType, Busy
<1>3. /\ x.pc = "final" /\ x.scan = run[e].scan /\ x.outcome = run[e].outcome
      /\ x.results = run[e].results
  BY <1>1 DEF ExecType
<1>4. Counts(x)
  BY <1>1, <1>3 DEF Counts
<1>5. /\ run' = [run EXCEPT ![e] = x] /\ row' = row
      /\ announced' = announced \cup {run[e].scan}
  BY DEF Wrapup, Goto
<1>6. announced \subseteq announced' /\ announced' \subseteq Scans /\ x.scan \in announced'
  BY <1>1, <1>3, <1>5 DEF RunInv, Counts
<1>7. QED
  <2> HIDE DEF x
  <2>1. QED BY <1>2, <1>4, <1>5, <1>6, Move

\* run_scan begins, or is left.
LEMMA BeginStep ==
  ASSUME RunInv, NEW e \in Execs, NEW s \in Scans, Begin(e, s)
  PROVE  RunInv'
<1> DEFINE x == [Idle EXCEPT !.pc = "start", !.scan = s]
<1>1. Idle \in ExecType /\ Idle.results = Idle.index
  BY ScanRunAssumption DEF Idle, ExecType, Outcomes
<1>2. x \in ExecType /\ Counts(x) /\ x.pc # "final"
  <2>1. x \in ExecType
    BY <1>1 DEF ExecType, Busy
  <2>2. /\ x.pc = "start" /\ x.scan = s /\ x.results = Idle.results
        /\ x.index = Idle.index
    BY <1>1 DEF ExecType
  <2>3. QED BY <1>1, <2>1, <2>2 DEF Counts
<1>3. run' = [run EXCEPT ![e] = x] /\ row' = row /\ announced' = announced
  BY DEF Begin
<1>4. announced \subseteq announced' /\ announced' \subseteq Scans
  BY <1>3 DEF RunInv
<1>5. QED
  <2> HIDE DEF x
  <2>1. QED BY <1>2, <1>3, <1>4, Move

\* What executed is gone.
LEMMA LeaveStep == ASSUME RunInv, NEW e \in Execs, Leave(e) PROVE RunInv'
<1>1. Idle \in ExecType /\ Counts(Idle) /\ Idle.pc # "final"
  BY ScanRunAssumption DEF Idle, ExecType, Counts, Outcomes
<1>2. run' = [run EXCEPT ![e] = Idle] /\ row' = row /\ announced' = announced
  BY DEF Leave
<1>3. announced \subseteq announced' /\ announced' \subseteq Scans
  BY <1>2 DEF RunInv
<1>4. QED BY <1>1, <1>2, <1>3, Move

-----------------------------------------------------------------------------
(* The steps that write the row. *)

\* create_scan_record inserts a queued row.
LEMMA CreateStep == ASSUME RunInv, NEW s \in Scans, Create(s) PROVE RunInv'
<1> DEFINE r == [row[s] EXCEPT !.status = "queued"]
<1>1. row[s] \in RowType
  BY DEF RunInv
<1>2. r \in RowType /\ r.status = "queued"
  BY <1>1 DEF RowType, Active
<1>3. Complete(r) /\ r.status \notin Outcomes
  BY <1>2 DEF Complete, Outcomes
<1>4. row' = [row EXCEPT ![s] = r] /\ run' = run /\ announced' = announced
  BY DEF Create
<1>5. QED
  <2> HIDE DEF r
  <2>1. QED BY <1>2, <1>3, <1>4, Write

\* An execution that goes to label and leaves the row as it is, or reports
\* the status running.
LEMMA ReportStep ==
  ASSUME RunInv, NEW e \in Execs, run[e].pc # "idle",
         NEW x \in ExecType, Counts(x), x.pc # "final",
         run' = [run EXCEPT ![e] = x], announced' = announced,
         NEW r \in RowType, r.status = "running",
         row' \in {row, [row EXCEPT ![run[e].scan] = r]}
  PROVE  RunInv'
<1>1. run[e].scan \in Scans
  BY DEF RunInv, Counting, Counts
<1>2. announced \subseteq announced' /\ announced' \subseteq Scans
  BY DEF RunInv
<1>3. CASE row' = row
  BY <1>2, <1>3, Move
<1>4. CASE row' = [row EXCEPT ![run[e].scan] = r]
  <2>1. Complete(r) /\ r.status \notin Outcomes
    BY DEF Complete, Outcomes
  <2>2. QED BY <1>1, <1>4, <2>1, MoveAndWrite
<1>5. QED BY <1>3, <1>4

\* The first update of the row, done or failed.
LEMMA StartStep ==
  ASSUME RunInv, NEW e \in Execs, Start(e) \/ StartFails(e)
  PROVE  RunInv'
<1> DEFINE s == run[e].scan
           p == 0
           r == [row[s] EXCEPT !.status = "running", !.progress = p]
<1>1. run[e] \in ExecType /\ Counts(run[e]) /\ run[e].pc = "start" /\ s \in Scans
  BY DEF RunInv, Counting, Start, StartFails, At, Counts
<1>2. row[s] \in RowType
  BY <1>1 DEF RunInv
<1>3. r \in RowType /\ r.status = "running"
  <2>1. p \in 0..100
    OBVIOUS
  <2> HIDE DEF p
  <2>2. QED BY <1>2, <2>1 DEF RowType, Active
<1>4. row' \in {row, [row EXCEPT ![s] = r]} /\ announced' = announced
  <2>1. CASE Start(e)
    BY <2>1 DEF Start, Opened
  <2>2. CASE StartFails(e)
    BY <2>2 DEF StartFails, Opened
  <2>3. QED BY <2>1, <2>2
<1>5. ASSUME NEW label \in {"check", "raised"}, Goto(e, label)
      PROVE  RunInv'
  <2> DEFINE x == [run[e] EXCEPT !.pc = label]
  <2>1. x \in ExecType
    BY <1>1, <1>5 DEF ExecType, Busy, InTry
  <2>2. /\ x.pc = label /\ x.scan = s /\ x.results = run[e].results
        /\ x.index = run[e].index
    BY <1>1 DEF ExecType
  <2>3. Counts(x) /\ x.pc # "final"
    BY <1>1, <1>5, <2>2 DEF Counts
  <2>4. run' = [run EXCEPT ![e] = x]
    BY <1>5 DEF Goto
  <2>5. QED
    <3> HIDE DEF x, r
    <3>1. QED BY <1>1, <1>3, <1>4, <2>1, <2>3, <2>4, ReportStep
<1>6. QED BY <1>5 DEF Start, StartFails

\* The updates around a scanner.
LEMMA MarkStep == ASSUME RunInv, NEW e \in Execs, Mark(e) PROVE RunInv'
<1> DEFINE s == run[e].scan
           p == Percent(run[e].index)
           r == [row[s] EXCEPT !.status = "running", !.results = run[e].results,
                               !.progress = p, !.requests = run[e].requests]
           x == [run[e] EXCEPT !.pc = "scan"]
<1>1. run[e] \in ExecType /\ Counts(run[e]) /\ run[e].pc = "mark" /\ s \in Scans
  BY DEF RunInv, Counting, Mark, At, Counts
<1>2. row[s] \in RowType
  BY <1>1 DEF RunInv
<1>3. p \in 0..100
  BY <1>1, PercentBounds DEF ExecType
<1>4. r \in RowType /\ r.status = "running"
  <2> HIDE DEF p
  <2>1. QED BY <1>1, <1>2, <1>3 DEF RowType, ExecType, Active
<1>5. x \in ExecType
  BY <1>1 DEF ExecType, Busy, InTry
<1>6. /\ x.pc = "scan" /\ x.scan = s /\ x.results = run[e].results
      /\ x.index = run[e].index
  BY <1>1 DEF ExecType
<1>7. Counts(x) /\ x.pc # "final"
  BY <1>1, <1>6 DEF Counts
<1>8. /\ row' = [row EXCEPT ![s] = r] /\ run' = [run EXCEPT ![e] = x]
      /\ announced' = announced
  BY DEF Mark, Report, Goto
<1>9. QED
  <2> HIDE DEF x, r
  <2>1. QED BY <1>1, <1>4, <1>5, <1>7, <1>8, ReportStep

\* One scanner more is through.
LEMMA RecordStep == ASSUME RunInv, NEW e \in Execs, Record(e) PROVE RunInv'
<1> DEFINE s == run[e].scan
           p == Percent(run[e].index + 1)
           r == [row[s] EXCEPT !.status = "running", !.results = run[e].results,
                               !.progress = p, !.requests = run[e].requests]
           x == [run[e] EXCEPT !.pc = "check", !.index = @ + 1]
<1>1. run[e] \in ExecType /\ Counts(run[e]) /\ run[e].pc = "record" /\ s \in Scans
  BY DEF RunInv, Counting, Record, At, Counts
<1>2. row[s] \in RowType
  BY <1>1 DEF RunInv
<1>3. run[e].index + 1 \in 0..Total
  BY <1>1, ScanRunAssumption DEF ExecType, Counts
<1>4. p \in 0..100
  BY <1>3, PercentBounds
<1>5. r \in RowType /\ r.status = "running"
  <2> HIDE DEF p
  <2>1. QED BY <1>1, <1>2, <1>4 DEF RowType, ExecType, Active
<1>6. x \in ExecType
  BY <1>1, <1>3 DEF ExecType, Busy, InTry
<1>7. /\ x.pc = "check" /\ x.scan = s /\ x.results = run[e].results
      /\ x.index = run[e].index + 1
  BY <1>1 DEF ExecType
<1>8. Counts(x) /\ x.pc # "final"
  BY <1>1, <1>7 DEF Counts
<1>9. /\ row' = [row EXCEPT ![s] = r] /\ run' = [run EXCEPT ![e] = x]
      /\ announced' = announced
  BY DEF Record, Report
<1>10. QED
  <2> HIDE DEF x, r
  <2>1. QED BY <1>1, <1>5, <1>6, <1>8, <1>9, ReportStep

\* The last update, done or failed: the outcome is "done" only with all
\* results, and everything was announced.
LEMMA PersistStep ==
  ASSUME RunInv, NEW e \in Execs, Persist(e) \/ PersistFails(e)
  PROVE  RunInv'
<1> DEFINE s == run[e].scan
           done == run[e].outcome = "done"
           p == IF done THEN 100 ELSE AtMost99(Percent(run[e].results))
           r == [row[s] EXCEPT !.status = run[e].outcome,
                   !.results = run[e].results, !.progress = p,
                   !.requests = run[e].requests, !.completed = TRUE]
<1>1. run[e] \in ExecType /\ Counts(run[e]) /\ run[e].pc = "final" /\ s \in Scans
  BY DEF RunInv, Counting, Persist, PersistFails, At, Counts
<1>2. row[s] \in RowType /\ s \in announced
  BY <1>1 DEF RunInv, Announcing
<1>3. run[e].results \in Nat
  BY <1>1, ScanRunAssumption DEF ExecType
<1>4. p \in 0..100 /\ (done => p = 100)
  BY <1>3, CappedBounds
<1>5. r \in RowType
  <2> HIDE DEF p
  <2>1. QED BY <1>1, <1>2, <1>4 DEF RowType, ExecType, Terminal, Outcomes
<1>6. /\ r.status = run[e].outcome /\ r.results = run[e].results
      /\ r.progress = p /\ r.completed
  <2> HIDE DEF p
  <2>1. QED BY <1>2 DEF RowType
<1>7. Complete(r)
  <2> HIDE DEF p, r
  <2>1. QED BY <1>1, <1>4, <1>6 DEF Counts, Complete
<1>8. row' \in {row, [row EXCEPT ![s] = r]} /\ announced' = announced
  BY DEF Persist, PersistFails, Persisted
<1>9. ASSUME NEW label \in {"ended", "raised"}, Goto(e, label)
      PROVE  RunInv'
  <2> DEFINE x == [run[e] EXCEPT !.pc = label]
  <2>1. x \in ExecType
    BY <1>1, <1>9 DEF ExecType
  <2>2. x.pc = label /\ x.scan = s
    BY <1>1 DEF ExecType
  <2>3. Counts(x) /\ x.pc # "final"
    BY <1>1, <1>9, <2>2 DEF Counts
  <2>4. run' = [run EXCEPT ![e] = x]
    BY <1>9 DEF Goto
  <2>5. announced \subseteq announced' /\ announced' \subseteq Scans
    BY <1>8 DEF RunInv
  <2>6. QED
    <3> HIDE DEF x, r
    <3>1. CASE row' = row
      BY <2>1, <2>3, <2>4, <2>5, <3>1, Move
    <3>2. CASE row' = [row EXCEPT ![s] = r]
      BY <1>1, <1>2, <1>5, <1>7, <1>8, <2>1, <2>3, <2>4, <3>2, MoveAndWrite
    <3>3. QED BY <1>8, <3>1, <3>2
<1>10. QED BY <1>9 DEF Persist, PersistFails

-----------------------------------------------------------------------------
\* One step of run_scan, whatever is_cancelled answers.
LEMMA RunStepInv ==
  ASSUME RunInv, NEW e \in Execs, NEW cancelled \in BOOLEAN,
         RunStep(e, cancelled) \/ RunError(e)
  PROVE  RunInv'
BY StartStep, LoopStep, FatalStep, WrapupStep, MarkStep, RecordStep, PersistStep
   DEF RunStep, RunError

\* Any step of any caller.
LEMMA RunInvStep == RunInv /\ [RunNext]_runVars => RunInv'
<1> SUFFICES ASSUME RunInv, [RunNext]_runVars PROVE RunInv'
  OBVIOUS
<1>1. CASE UNCHANGED runVars
  BY <1>1 DEF runVars, RunInv, Counting, Announcing, Rows, TerminalIsAnnounced
<1>2. ASSUME NEW s \in Scans, Create(s) \/ \E e \in Execs : Begin(e, s)
      PROVE  RunInv'
  BY <1>2, CreateStep, BeginStep
<1>3. ASSUME NEW e \in Execs,
             (\E cancelled \in BOOLEAN : RunStep(e, cancelled)) \/ RunError(e) \/ Leave(e)
      PROVE  RunInv'
  BY <1>3, RunStepInv, LeaveStep
<1>4. QED BY <1>1, <1>2, <1>3 DEF RunNext

\* The inductive invariant holds in every reachable state.
THEOREM RunInductive == RunSpec => []RunInv
<1>1. QED BY InitRunInv, RunInvStep, PTL DEF RunSpec

\* The invariant gives the properties the runs check.
LEMMA RunInvImplies ==
  RunInv => RunTypeOK /\ DoneIsComplete /\ BudgetRespected /\ TerminalIsAnnounced
<1> SUFFICES ASSUME RunInv PROVE RunTypeOK /\ DoneIsComplete /\ BudgetRespected /\ TerminalIsAnnounced
  OBVIOUS
<1>1. RunTypeOK
  BY DEF RunInv, RunTypeOK, RowType, ExecType
<1>2. DoneIsComplete
  BY DEF RunInv, Rows, Complete, DoneIsComplete
<1>3. BudgetRespected
  BY ScanRunAssumption DEF RunInv, RowType, ExecType, BudgetRespected
<1>4. QED BY <1>1, <1>2, <1>3 DEF RunInv

\* The type invariant of an execution and its row: counters stay within the
\* scanners and the budget, progress within 0..100.
THEOREM RunTypeCorrect == RunSpec => []RunTypeOK
<1>1. QED BY RunInductive, RunInvImplies, PTL

\* A scan that says it is done has a result for every scanner, for every
\* number of concurrent executions and every error.
THEOREM DoneIsCompleteHolds == RunSpec => []DoneIsComplete
<1>1. QED BY RunInductive, RunInvImplies, PTL

\* No execution sends, and no row reports, more requests than the budget.
THEOREM BudgetRespectedHolds == RunSpec => []BudgetRespected
<1>1. QED BY RunInductive, RunInvImplies, PTL

\* A terminal status is written after the audit and the emits.
THEOREM TerminalIsAnnouncedHolds == RunSpec => []TerminalIsAnnounced
<1>1. QED BY RunInductive, RunInvImplies, PTL
=============================================================================
