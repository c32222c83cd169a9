-------------------------------- MODULE Oast --------------------------------
(***************************************************************************)
(* Out-of-band callbacks: the token registry of src/services/oast.py, the  *)
(* handler oast_callback of src/app.py, and the scanners that plant a      *)
(* token and wait for it (src/vulnerabilities/blind_xss.py and             *)
(* ssrf_scanner.py), all in one process.                                   *)
(*                                                                         *)
(* The target is free: it, or whoever it shows the payload to, may request *)
(* the urls of both tokens at any time after they were planted, any number *)
(* of times and in any order, after the scanner has given up as well.  The *)
(* payload has the token of the execution in clear, so the script that the *)
(* handler answers with tells nobody anything new and is left out.         *)
(* A wait ends when a hit has come or at any moment before: its timeout.   *)
(***************************************************************************)
EXTENDS FiniteSets

CONSTANTS
  Probes,  \* runs of the two scanners
  Xss      \* those of blind_xss; the others are ssrf_scanner's

ASSUME OastAssumption == Xss \subseteq Probes

\* fetch_token and execution_token; ssrf_scanner has the first only.
Tokens(p) == {<<p, "fetch">>} \cup (IF p \in Xss THEN {<<p, "exec">>} ELSE {})
AllTokens == UNION {Tokens(p) : p \in Probes}

VARIABLES
  events,    \* the tokens registered
  hits,      \* the tokens with a recorded hit
  probePc,
  seen,      \* what each probe has read: its tokens with hits
  verdict,
  planted,   \* the probes whose payload the target knows
  waited,    \* history: the probes whose observation window is over
  called,    \* history: the tokens with a callback that was recorded
  inTime     \* history: those with one that came before the window was over

oastVars == <<events, hits, probePc, seen, verdict, planted, waited, called, inTime>>

OastInit ==
  /\ events = {}
  /\ hits = {}
  /\ probePc = [p \in Probes |-> "off"]
  /\ seen = [p \in Probes |-> {}]
  /\ verdict = [p \in Probes |-> "none"]
  /\ planted = {}
  /\ waited = {}
  /\ called = {}
  /\ inTime = {}

ProbeAt(p, label) == probePc[p] = label
ProbeGoto(p, label) == probePc' = [probePc EXCEPT ![p] = label]

-----------------------------------------------------------------------------
\* The registry; each operation holds its lock.

RegisterToken(t) == events' = events \cup {t} /\ hits' = hits \ {t}

RecordAnyway(t) == hits' = hits \cup {t}  \* variant
RecordHit(t) == hits' = IF t \in events THEN hits \cup {t} ELSE hits

Cleanup(t) == events' = events \ {t} /\ hits' = hits \ {t}

-----------------------------------------------------------------------------
\* scan, from the registration of its tokens on.

RegisterProbe(p) ==
  /\ ProbeAt(p, "off")
  /\ \E t \in Tokens(p) \ events :
       /\ t = <<p, "exec">> => <<p, "fetch">> \in events
       /\ RegisterToken(t)
       /\ ProbeGoto(p, IF Tokens(p) \subseteq events \cup {t} THEN "send" ELSE "off")
  /\ UNCHANGED <<seen, verdict, planted, waited, called, inTime>>

\* The request with the payload, which may fail after the target got it.
SendPayload(p) ==
  /\ ProbeAt(p, "send")
  /\ planted' = planted \cup {p}
  /\ ProbeGoto(p, "wait")
  /\ UNCHANGED <<events, hits, seen, verdict, waited, called, inTime>>

Give(p, v) ==
  /\ verdict' = [verdict EXCEPT ![p] = v]
  /\ ProbeGoto(p, "cleanup")

SendFails(p) ==
  /\ ProbeAt(p, "send")
  /\ planted' \in {planted, planted \cup {p}}
  /\ Give(p, "error")
  /\ UNCHANGED <<events, hits, seen, waited, called, inTime>>

\* The token whose callback is proof, and which the probe waits for.
Proof(p) == IF p \in Xss THEN <<p, "exec">> ELSE <<p, "fetch">>

Read(p, t) ==
  /\ seen' = [seen EXCEPT ![p] = @ \cup ({t} \cap hits)]
  /\ waited' = IF t = Proof(p) THEN waited \cup {p} ELSE waited

\* Variant: the fetch is read before the wait for the execution.
ReadFetchFirst(p) ==
  \/ /\ ProbeAt(p, "wait")
     /\ Read(p, <<p, "fetch">>)
     /\ ProbeGoto(p, IF p \in Xss THEN "second" ELSE "decide")
  \/ /\ ProbeAt(p, "second")
     /\ Read(p, <<p, "exec">>)
     /\ ProbeGoto(p, "decide")

\* wait_for_hit of the execution, then of the fetch with timeout 0; of the
\* only token in ssrf_scanner.
ReadHits(p) ==
  \/ /\ ProbeAt(p, "wait")
     /\ Read(p, Proof(p))
     /\ ProbeGoto(p, IF p \in Xss THEN "second" ELSE "decide")
  \/ /\ ProbeAt(p, "second")
     /\ Read(p, <<p, "fetch">>)
     /\ ProbeGoto(p, "decide")

WaitProbe(p) ==
  /\ ReadHits(p)
  /\ UNCHANGED <<events, hits, verdict, planted, called, inTime>>

\* The last check of a cancellation comes before the verdict.
Decide(p) ==
  /\ ProbeAt(p, "decide")
  /\ \/ Give(p, "cancelled")
     \/ Give(p, CASE p \in Xss /\ <<p, "exec">> \in seen[p] -> "confirmed"
                  [] p \in Xss /\ <<p, "exec">> \notin seen[p]
                       /\ <<p, "fetch">> \in seen[p] -> "potential"
                  [] p \notin Xss /\ <<p, "fetch">> \in seen[p] -> "confirmed"
                  [] OTHER -> "inconclusive")
  /\ UNCHANGED <<events, hits, seen, planted, waited, called, inTime>>

\* The finally clause: one token after the other.
CleanupProbe(p) ==
  /\ ProbeAt(p, "cleanup")
  /\ \E t \in Tokens(p) \cap events :
       /\ Cleanup(t)
       /\ t = <<p, "exec">> => <<p, "fetch">> \notin events
       /\ ProbeGoto(p, IF (Tokens(p) \cap events) = {t} THEN "over" ELSE "cleanup")
  /\ UNCHANGED <<seen, verdict, planted, waited, called, inTime>>

-----------------------------------------------------------------------------
\* What the target and its visitors do: oast_callback.

Callback(p, t) ==
  /\ p \in planted
  /\ RecordHit(t)
  /\ called' = called \cup ({t} \cap events)
  /\ inTime' = IF p \in waited THEN inTime ELSE inTime \cup ({t} \cap events)
  /\ UNCHANGED <<events, probePc, seen, verdict, planted, waited>>

-----------------------------------------------------------------------------
OastNext ==
  \E p \in Probes :
    \/ RegisterProbe(p) \/ SendPayload(p) \/ SendFails(p) \/ WaitProbe(p)
    \/ Decide(p) \/ CleanupProbe(p)
    \/ \E t \in Tokens(p) : Callback(p, t)

OastSpec == OastInit /\ [][OastNext]_oastVars

-----------------------------------------------------------------------------
\* A verdict is what was called back, however the callbacks race the two waits:
\* a finding is confirmed only if the url that proves it was requested, it is
\* potential only if that request did not come before the end of the wait, and
\* a probe that says it has observed nothing had no callback of either token
\* until then (the order of the waits in blind_xss.py).  That the request came
\* from a script a browser ran is not known: the target has the url as well.
VerdictMatchesCallbacks ==
  \A p \in Probes :
    /\ verdict[p] = "confirmed" => Proof(p) \in called
    /\ verdict[p] = "potential" => <<p, "fetch">> \in called /\ Proof(p) \notin inTime
    /\ verdict[p] = "inconclusive" => Tokens(p) \cap inTime = {}

\* A probe that is over leaves nothing behind in the registry, however late
\* its callbacks come.
NothingLeaks ==
  \A p \in Probes : ProbeAt(p, "over") => Tokens(p) \cap (events \cup hits) = {}
=============================================================================
