---------------------------- MODULE ScannerCommon ----------------------------
(***************************************************************************)
(* What the scanners of src/vulnerabilities have in common.                *)
(*                                                                         *)
(* A scanner asks one request after the other and returns a result.  Here  *)
(* it is an operator of its inputs and of the answers so far, which yields *)
(* the next request or the result: the loops, breaks and early returns of  *)
(* scan() are in the order in which it asks and tells.                     *)
(*                                                                         *)
(* An answer is a record of what the scanners look at in a response, or    *)
(* the exception the request raised.                                       *)
(***************************************************************************)
EXTENDS Integers, Sequences, FiniteSets, FiniteSetsExt

CONSTANTS
  Bodies,   \* response bodies
  Likeness  \* similarity of two bodies, in percent; their order may matter

ASSUME LikenessAssumption == \A b, c \in Bodies : Likeness[b][c] \in 0..100

\* The request that comes next: where it goes, what it carries, and whether
\* safe_request follows redirects.
Request(at, probe, follow) ==
  [do |-> "ask", at |-> at, probe |-> probe, follow |-> follow]
Get(at, probe) == Request(at, probe, FALSE)
Follow(at, probe) == Request(at, probe, TRUE)

\* make_result with the status it is given or derives
Tell(status) == [do |-> "tell", status |-> status]
Confirmed == Tell("confirmed")
Potential == Tell("potential")
NotVulnerable == Tell("not_vulnerable")
Inconclusive == Tell("inconclusive")
Error == Tell("error")

Statuses == {"confirmed", "potential", "not_vulnerable", "inconclusive", "error"}
Reported == {"confirmed", "potential"}

\* A request that raises: the connection failed, the url was not accepted (a
\* ValueError), or before_request refused it.
Failed == [kind |-> "failed"]
Unsafe == [kind |-> "unsafe"]
Refused == [kind |-> "refused"]
Raised == {Failed, Unsafe, Refused}
AnyRaised(h) == \E i \in DOMAIN h : h[i] \in Raised
Stopped(h) == \E i \in DOMAIN h : h[i] = Refused

\* except (ScanCancelled, RequestBudgetExceeded): raise; except Exception: an error
OrError(h, result) ==
  IF Stopped(h) THEN Tell("raised") ELSE IF AnyRaised(h) THEN Error ELSE result

\* The same, with except ValueError: inconclusive, in between
OrInvalid(h, result) ==
  IF ~Stopped(h) /\ (\E i \in DOMAIN h : h[i] = Unsafe) THEN Inconclusive
  ELSE OrError(h, result)

similarity(a, b) == Likeness[a.body][b.body]

Successful(a) == a.code \in 200..299
Redirects(a) == a.code \in {301, 302, 303, 307, 308}
=============================================================================
