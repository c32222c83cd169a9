------------------------------- MODULE Results -------------------------------
(***************************************************************************)
(* What becomes of the results of a scan: how run_scan normalizes them,    *)
(* the risk score, and the pages, exports and statistics made of them      *)
(* (src/app.py), with the summary of src/ai_analyzer.py and its cache.     *)
(*                                                                         *)
(* A result is its status, its severity and its confidence.  "absent" is a *)
(* field that a scanner left out or that is not one of the known values;   *)
(* no_dict is set when what was returned is not a dict at all.             *)
(***************************************************************************)
EXTENDS Integers, Lists

CONSTANTS
  RawResults,  \* what scanners return
  MaxResults,  \* how many of them a scan has: a bound
  AiThreads,   \* the threads that serve /ai-analysis
  CacheMax,    \* 128
  AiMax        \* 100: _MAX_FINDINGS

Severities == {"Critical", "High", "Medium", "Low", "Info"}
RawStatuses ==
  {"confirmed", "potential", "not_vulnerable", "inconclusive", "error", "absent"}

ASSUME ResultsAssumption ==
  /\ RawResults \subseteq
       [no_dict : BOOLEAN, status : RawStatuses, vulnerable : BOOLEAN,
        severity : Severities \cup {"absent"}, confidence : {"High", "Medium", "Low", "absent"}]
  /\ {MaxResults, AiMax} \subseteq Nat
  /\ CacheMax \in Nat \ {0}

VARIABLES
  results,  \* of a scan
  risk,     \* risk_score
  cache,    \* the keys of _CACHE, in the order of their insertion
  analysis  \* thread -> what it serves

resultVars == <<results, risk, cache, analysis>>

-----------------------------------------------------------------------------
\* A result once it is normalized.
Items == [status : RawStatuses \ {"absent"}, severity : Severities,
          confidence : {"High", "Medium", "Low"}]

normalize_severity(s) == IF s \in Severities THEN s ELSE "Info"

normalize_scanner_result(raw) ==
  IF raw.no_dict
  THEN [status |-> "error", severity |-> "Info", confidence |-> "Low"]
  ELSE [severity |-> normalize_severity(raw.severity),
        confidence |-> IF raw.confidence = "absent" THEN "Low" ELSE raw.confidence,
        status |-> IF raw.status # "absent" THEN raw.status
                   ELSE IF raw.vulnerable THEN "confirmed" ELSE "not_vulnerable"]

ErrorIsFinding(item) ==  \* variant: as it was, says PROJECT_CONTEXT_FOR_CHATGPT.md
  item.status \in {"confirmed", "potential", "error"}
is_finding(item) == item.status \in {"confirmed", "potential"}

\* In 1/10000 of the score, before it is rounded to a tenth.
Weight(severity) ==
  CASE severity = "Critical" -> 40 [] severity = "High" -> 25
    [] severity = "Medium" -> 12 [] severity = "Low" -> 5 [] severity = "Info" -> 1
Confidence(confidence) ==
  CASE confidence = "High" -> 100 [] confidence = "Medium" -> 70 [] OTHER -> 35
Factor100(status) == IF status = "confirmed" THEN 100 ELSE 45

ScorePoints(item) ==
  IF item.status \notin {"confirmed", "potential"} THEN 0
  ELSE Weight(item.severity) * Confidence(item.confidence) * Factor100(item.status)

calculate_risk_score(items) ==
  Min({100 * 10000, SumFunction([i \in DOMAIN items |-> ScorePoints(items[i])])})

-----------------------------------------------------------------------------
\* The views of the results.

Findings == {item \in Items : is_finding(item)}
OfStatus(statuses) == {item \in Items : item.status \in statuses}

normalize_scan_results(items) == Keep(items, Findings)
normalize_scan_checks(items, statuses) == Keep(items, OfStatus(statuses))

severity_distribution(items) ==
  [s \in Severities |-> Cardinality({i \in DOMAIN items : items[i].severity = s})]

Order(severity) ==
  CASE severity = "Critical" -> 4 [] severity = "High" -> 3
    [] severity = "Medium" -> 2 [] severity = "Low" -> 1 [] severity = "Info" -> 0
highest_severity(items) ==
  IF items = <<>> THEN "Info"
  ELSE CHOOSE s \in Severities : Order(s) = Max({Order(items[i].severity) : i \in DOMAIN items})

\* analyze_scan, of the list the browser posts: findings and operational results
Posted(items) == SubSeq(items, 1, Min({AiMax, Len(items)}))
AiFindings(items) == Keep(Posted(items), OfStatus({"confirmed", "potential"}))
AiOperational(items) == Keep(Posted(items), OfStatus({"error", "inconclusive"}))
AiKey(items) == <<AiFindings(items), AiOperational(items)>>

-----------------------------------------------------------------------------
ResultsInit ==
  /\ results = <<>>
  /\ risk = 0
  /\ cache = <<>>
  /\ analysis = [t \in AiThreads |-> [pc |-> "idle"]]

\* run_scan, and the progress it persists with it
ScannerReturns(raw) ==
  /\ Len(results) < MaxResults
  /\ results' = Append(results, normalize_scanner_result(raw))
  /\ risk' = calculate_risk_score(results')
  /\ UNCHANGED <<cache, analysis>>

\* /ai-analysis: the first look at the cache
LookUpAnalysis(t) ==
  /\ analysis[t].pc = "idle"
  /\ LET key == AiKey(results)
     IN  IF Contains(cache, key) THEN UNCHANGED analysis
         ELSE analysis' = [analysis EXCEPT ![t] = [pc |-> "computing", key |-> key]]
  /\ UNCHANGED <<results, risk, cache>>

\* Another thread may have stored the same key meanwhile; the oldest entry goes
\* even then, and a key that is still there keeps its place.
RoomBeyond == IF Len(cache) > CacheMax THEN Tail(cache) ELSE cache  \* variant
Room == IF Len(cache) >= CacheMax THEN Tail(cache) ELSE cache

StoreAnalysis(t) ==
  /\ analysis[t].pc = "computing"
  /\ cache' = IF Contains(Room, analysis[t].key) THEN Room ELSE Append(Room, analysis[t].key)
  /\ analysis' = [analysis EXCEPT ![t] = [pc |-> "idle"]]
  /\ UNCHANGED <<results, risk>>

ResultsNext ==
  \/ \E raw \in RawResults : ScannerReturns(raw)
  \/ \E t \in AiThreads : LookUpAnalysis(t)
  \/ \E t \in AiThreads : StoreAnalysis(t)

ResultsSpec == ResultsInit /\ [][ResultsNext]_resultVars

-----------------------------------------------------------------------------
\* Properties

\* The views of one scan tell the same story: the score is 0 exactly when no
\* page lists a finding; history, distribution and assistant count the same
\* findings; and a result that is no finding is an error, an inconclusive
\* check or a clean one, so no failure of a scanner shows up as a finding
\* (app.py 340-456, ai_analyzer.py 129-152).
ViewsAgree ==
  LET found == normalize_scan_results(results)
      checks == normalize_scan_checks(results, {"error", "inconclusive"})
      clean == normalize_scan_checks(results, {"not_vulnerable"})
      counts == severity_distribution(found)
  IN  /\ risk > 0 <=> found # <<>>
      /\ SumFunction(counts) = Len(found)
      /\ found # <<>> => counts[highest_severity(found)] > 0
      /\ Len(found) + Len(checks) + Len(clean) = Len(results)
      /\ Len(results) <= AiMax => AiKey(results) = <<found, checks>>

\* The cache of analyses keeps its bound and has no key twice, although two
\* threads may compute one and store it between the lookup of the other and
\* its own store (ai_analyzer.py 163-196).
CacheIsBounded ==
  /\ Len(cache) <= CacheMax
  /\ \A i, j \in DOMAIN cache : cache[i] = cache[j] => i = j
=============================================================================
