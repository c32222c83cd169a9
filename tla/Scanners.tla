------------------------------- MODULE Scanners -------------------------------
(***************************************************************************)
(* One scanner against a target that answers as it likes.                  *)
(*                                                                         *)
(* The state is the exchange so far: everything else, the next request     *)
(* included, follows from it.  A request is one step here, the redirects   *)
(* that safe_request follows included; it may raise, and before_request    *)
(* may refuse it because the scan is cancelled or its budget exhausted     *)
(* (module ScanRun says when).                                             *)
(***************************************************************************)
EXTENDS InjectionScanners, AccessScanners, ProtocolScanners

CONSTANTS
  Inputs,   \* scanner -> the inputs a user may give it
  Answers   \* scanner -> kind of request -> what the target may answer

\* Those of the registry that need no callbacks (module Oast has the others).
ScannerNames ==
  {"sql_injection", "xss", "html_injection", "open_redirect_scanner",
   "host_header_scanner", "stored_xss_scanner", "path_traversal", "idor", "auth_scanner",
   "rate_limit", "weak_password_scanner", "csrf_scan", "clickjacking_scanner",
   "info_scan", "cors_scanner", "dir_scan", "file_upload",
   "authorization_matrix_scanner", "graphql_scanner", "oidc_scanner",
   "openapi_scanner", "websocket_scanner", "grpc_scanner", "modern_spa_scanner"}

ASSUME ScannersAssumption == DOMAIN Inputs \subseteq ScannerNames

VARIABLES
  scanner,  \* "none" before it is chosen
  input,
  answers

scannerVars == <<scanner, input, answers>>

-----------------------------------------------------------------------------
\* What a scanner asks or tells next, with the except clauses of its scan(): the
\* last three keep some of the failures, and raise the rest themselves.
Respond(s, in, h) ==
  CASE s = "sql_injection" -> OrError(h, sql_injection(in, h))
    [] s = "xss" -> OrError(h, xss(in, h))
    [] s = "html_injection" -> OrError(h, html_injection(in, h))
    [] s = "open_redirect_scanner" -> OrError(h, open_redirect(in, h))
    [] s = "host_header_scanner" -> OrError(h, host_header(in, h))
    [] s = "stored_xss_scanner" -> OrError(h, stored_xss(in, h))
    [] s = "path_traversal" -> OrError(h, path_traversal(in, h))
    [] s = "idor" -> OrError(h, idor(in, h))
    [] s = "auth_scanner" -> OrError(h, auth_scanner(in, h))
    [] s = "rate_limit" -> OrError(h, rate_limit(in, h))
    [] s = "weak_password_scanner" -> OrError(h, weak_password(in, h))
    [] s = "csrf_scan" -> OrError(h, csrf_scan(in, h))
    [] s = "clickjacking_scanner" -> OrError(h, clickjacking(in, h))
    [] s = "info_scan" -> OrError(h, info_scan(in, h))
    [] s = "cors_scanner" -> OrError(h, cors(in, h))
    [] s = "dir_scan" -> OrError(h, dir_scan(in, h))
    [] s = "file_upload" -> OrError(h, file_upload(in, h))
    [] s = "authorization_matrix_scanner" -> OrError(h, authorization_matrix(in, h))
    [] s = "graphql_scanner" -> OrInvalid(h, graphql(in, h))
    [] s = "oidc_scanner" -> OrInvalid(h, oidc(in, h))
    [] s = "openapi_scanner" -> OrInvalid(h, openapi(in, h))
    [] s = "websocket_scanner" -> websocket(in, h)
    [] s = "grpc_scanner" -> grpc(in, h)
    [] s = "modern_spa_scanner" -> modern_spa(in, h)

-----------------------------------------------------------------------------
Now == Respond(scanner, input, answers)
Asks == scanner # "none" /\ Now.do = "ask"
Tells(statuses) == scanner # "none" /\ Now.do = "tell" /\ Now.status \in statuses

Asked(i) == Respond(scanner, input, SubSeq(answers, 1, i - 1))

ScannerInit ==
  /\ scanner = "none"
  /\ input = [param |-> FALSE]
  /\ answers = <<>>

BeginScanner ==
  /\ scanner = "none"
  /\ scanner' \in DOMAIN Inputs
  /\ input' \in Inputs[scanner']
  /\ UNCHANGED answers

Receive(a) == answers' = Append(answers, a) /\ UNCHANGED <<scanner, input>>

Answered ==
  /\ Asks
  /\ \E a \in Answers[scanner][Now.probe] \ Raised : Receive(a)

\* safe_request, the handshake and the crawl validate their url; the requests
\* for the descriptors of a gRPC server do not.
RequestFails ==
  /\ Asks
  /\ \/ Receive(Failed)
     \/ Now.probe # "file_containing_symbol" /\ Receive(Unsafe)

\* The launch of the browser is no request of the runtime's.
RequestRefused ==
  /\ Asks
  /\ Now.probe # "launch"
  /\ Receive(Refused)

ScannerNext == BeginScanner \/ Answered \/ RequestFails \/ RequestRefused

ScannerSpec == ScannerInit /\ [][ScannerNext]_scannerVars

-----------------------------------------------------------------------------
\* Properties

\* Scanners that send a benign request to compare the others with.
Comparing == {"sql_injection", "xss", "html_injection"}

\* The target answers the requests to one place alike, whatever they carry.
Indifferent ==
  \A i, j \in DOMAIN answers : Asked(i).at = Asked(j).at => answers[i] = answers[j]

\* A target whose answers do not depend on the probe, however suspicious they
\* look, is never reported by the scanners that take a baseline
\* (sql_injection.py, xss.py, html_injection.py); for html_injection, if a live
\* element it finds is written as in the probe (HtmlAnswers of ScannersProofs).
ReportDependsOnProbe == scanner \in Comparing /\ Indifferent => ~Tells(Reported)

\* A refused request, or one that the browser's guard has aborted.
StopMet ==
  Stopped(answers) \/ (scanner = "modern_spa_scanner" /\ Kept(answers))

\* Once the scan is cancelled or out of budget, no scanner sends another request
\* or turns the refusal into a result: it raises, wherever it was in its requests
\* (except (ScanCancelled, RequestBudgetExceeded): raise).  modern_spa_scanner may
\* tell a result, if the guard refused a request of the last page it opened.
StopIsPassedOn ==
  StopMet =>
    /\ ~Asks
    /\ Tells({"raised"}) \/ (scanner = "modern_spa_scanner" /\ ~Stopped(answers))

\* A "not vulnerable" rests on an answer to every request that was sent; but
\* modern_spa_scanner needs only one page, which it opened or gave up waiting
\* for, and grpc_scanner nothing at all (SilenceIsNotSafety).
SafetyIsObserved ==
  Tells({"not_vulnerable"}) =>
    \/ ~AnyRaised(answers)
    \/ scanner = "modern_spa_scanner" /\ Rendered(answers) # {}
    \/ scanner = "grpc_scanner"

\* The target has sent something: a page that timed out need not have.
FromTarget(a) ==
  /\ a \notin Raised \cup {Skipped}
  /\ scanner = "modern_spa_scanner" => "links" \in DOMAIN a /\ ~a.timed_out

\* A scanner none of whose requests was answered does not say that the target
\* is not vulnerable (PROJECT_CONTEXT_FOR_CHATGPT.md: "not proof of safety").
SilenceIsNotSafety ==
  Tells({"not_vulnerable"}) => \E i \in DOMAIN answers : FromTarget(answers[i])
=============================================================================
