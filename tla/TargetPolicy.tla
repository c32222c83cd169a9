----------------------------- MODULE TargetPolicy -----------------------------
(***************************************************************************)
(* Where a scanner's request may go: the policy on urls and safe_request   *)
(* (src/vulnerabilities/common.py), the urls a user gives a scanner        *)
(* (normalize_scanner_inputs, src/app.py), and those a scanner takes from  *)
(* a page, a document or the crawl.                                        *)
(*                                                                         *)
(* Urls are what urlparse makes of them, after urljoin; the addresses of a *)
(* host do not change.                                                     *)
(***************************************************************************)
EXTENDS Integers, Sequences

CONSTANTS
  PolicyUrls,    \* [scheme, host, port, credentials]
  ScanTarget,    \* the target that was authorized
  Callbacks,     \* OAST_PUBLIC_BASE_URL, if it is set and in order
  Addresses,     \* host -> {"public", "private"}, empty when it does not resolve
  AllowPrivate,  \* allow_private of the runtime
  MaxRedirects,  \* 3: MAX_REDIRECTS
  NoHost,        \* the host of a url that has none
  NoPort         \* the port of a url that names none

Schemes == {"http", "https", "ws", "wss", "other"}

ASSUME TargetPolicyAssumption ==
  /\ PolicyUrls \subseteq [scheme : Schemes, host : DOMAIN Addresses \cup {NoHost},
                           port : Int \cup {NoPort}, credentials : BOOLEAN]
  /\ ScanTarget \in PolicyUrls
  /\ Callbacks \subseteq PolicyUrls
  /\ AllowPrivate \in BOOLEAN
  /\ MaxRedirects \in Nat
  /\ NoPort \notin Int
  /\ NoHost \notin DOMAIN Addresses

VARIABLES
  policyPc,   \* "idle", "ready", "sending", "returned", "raised", "rejected"
  source,     \* where the url comes from
  url,        \* current
  hop,
  method,
  follow,     \* allow_redirects
  requested   \* the urls given to requests, the websocket client or gRPC so far

policyVars == <<policyPc, source, url, hop, method, follow, requested>>

-----------------------------------------------------------------------------
\* The policy on urls.

Blocked(host) == "private" \in Addresses[host]

Ports == 1..65535

\* Otherwise urlparse's port raises.
PortParses(u) == u.port \in {NoPort, 0} \cup Ports

validate_target_url(u) ==
  /\ u.scheme \in {"http", "https"}
  /\ u.host # NoHost
  /\ ~u.credentials
  /\ u.port \in {NoPort} \cup Ports
  /\ Addresses[u.host] # {}
  /\ AllowPrivate \/ ~Blocked(u.host)

PolicyScheme(scheme) ==
  IF scheme = "ws" THEN "http" ELSE IF scheme = "wss" THEN "https" ELSE scheme

DefaultPort(scheme) ==
  IF scheme = "https" THEN 443 ELSE IF scheme = "http" THEN 80 ELSE NoPort

Origin(u) ==
  <<PolicyScheme(u.scheme), u.host,
    IF u.port = NoPort THEN DefaultPort(PolicyScheme(u.scheme)) ELSE u.port>>

\* The url of a handshake, as the policy looks at it.
PolicyUrl(u) == [u EXCEPT !.scheme = PolicyScheme(@)]

resolve_same_origin_url(u, websocket) ==
  /\ validate_target_url(IF websocket THEN PolicyUrl(u) ELSE u)
  /\ websocket => u.scheme \in {"ws", "wss"}
  /\ Origin(u) = Origin(ScanTarget)

\* The target of gRPC is a host and a port, which need not be the target's.
grpc_target(u) ==
  /\ u.host # NoHost /\ u.port # NoPort /\ PortParses(u)
  /\ ~u.credentials
  /\ u.host = ScanTarget.host

OnTargetHost(u) == u.host = ScanTarget.host

\* How a url comes to a scanner.  Inputs pass normalize_scanner_inputs; the
\* scanners of OpenAPI and OIDC then compare the hostname of a document again.
\* Websockets and endpoints that the crawl or a contract has found are compared
\* by hostname; the action of a page's GET form (xss) and the operation of a
\* contract, whose path may be a url, meet the check of the address in
\* safe_request and no other.
Accepts(field, u) ==
  CASE field = "url" -> resolve_same_origin_url(u, FALSE)
    [] field = "document" -> resolve_same_origin_url(u, FALSE) /\ OnTargetHost(u)
    [] field = "websocket" -> resolve_same_origin_url(u, TRUE)
    [] field = "grpc" -> grpc_target(u)
    [] field = "callback" -> u \in Callbacks
    [] field = "seen_websocket" -> u.scheme \in {"ws", "wss"} /\ OnTargetHost(u)
    [] field = "candidate" -> validate_target_url(u) /\ OnTargetHost(u)
    [] field \in {"form_action", "operation"} -> TRUE

Fields == {"url", "document", "websocket", "grpc", "callback", "seen_websocket",
           "candidate", "form_action", "operation"}

-----------------------------------------------------------------------------
PolicyInit ==
  /\ policyPc = "idle"
  /\ source = "url"
  /\ url = ScanTarget
  /\ hop = 0
  /\ method = "GET"
  /\ follow = FALSE
  /\ requested = <<>>

\* The target is validated by scan_live before anything else.
Configure(field, u) ==
  /\ policyPc = "idle"
  /\ validate_target_url(ScanTarget)
  /\ policyPc' = IF Accepts(field, u) THEN "ready" ELSE "rejected"
  /\ source' = field
  /\ url' = u
  /\ UNCHANGED <<hop, method, follow, requested>>

\* What is validated before the first request.
Checked(u) ==
  IF source = "grpc" THEN [u EXCEPT !.scheme = "https"]
  ELSE IF source \in {"websocket", "seen_websocket"} THEN PolicyUrl(u)
  ELSE u

\* Only for inputs do scanners ask safe_request to follow redirects; a callback
\* url is for the target to request.
CallRequest(m, f) ==
  /\ policyPc = "ready" /\ source # "callback"
  /\ f => source \in {"url", "document"}
  /\ policyPc' = IF validate_target_url(Checked(url)) THEN "sending" ELSE "raised"
  /\ method' = m
  /\ follow' = f
  /\ UNCHANGED <<source, url, hop, requested>>

-----------------------------------------------------------------------------
\* The loop of safe_request: one step is one request and what becomes of it.

\* original_origin
FirstOrigin == Origin(IF requested = <<>> THEN url ELSE requested[1].url)

Send == policyPc = "sending" /\ requested' = Append(requested, [url |-> url, method |-> method])

\* before_request or the session raises.
RequestRaises ==
  /\ policyPc = "sending"
  /\ policyPc' = "raised"
  /\ UNCHANGED <<source, url, hop, method, follow, requested>>

Ends(pc) == Send /\ policyPc' = pc /\ UNCHANGED <<source, url, hop, method, follow>>

\* An answer that is no redirect, is not followed, or says not where to.
ReturnAnswer == Ends("returned")

\* The last hop is a redirect as well.
TooManyRedirects == follow /\ hop >= MaxRedirects /\ Ends("raised")

CrossOrigin(next) ==
  /\ follow /\ hop < MaxRedirects
  /\ PortParses(next)
  /\ Origin(next) # FirstOrigin
  /\ Ends("returned")

UnsafeRedirect(next) ==
  /\ follow /\ hop < MaxRedirects
  /\ PortParses(next) => Origin(next) = FirstOrigin /\ ~validate_target_url(next)
  /\ Ends("raised")

MethodAfter(code, m) ==
  IF code = 303 \/ (code \in {301, 302} /\ m = "POST") THEN "GET" ELSE m

FollowHost(next, code) ==  \* variant: by the hostname
  /\ follow /\ hop < MaxRedirects
  /\ next.host = url.host
  /\ validate_target_url(next)
  /\ Send
  /\ url' = next
  /\ hop' = hop + 1
  /\ method' = MethodAfter(code, method)
  /\ UNCHANGED <<policyPc, source, follow>>

FollowRedirect(next, code) ==
  /\ follow /\ hop < MaxRedirects
  /\ Origin(next) = FirstOrigin
  /\ validate_target_url(next)
  /\ Send
  /\ url' = next
  /\ hop' = hop + 1
  /\ method' = MethodAfter(code, method)
  /\ UNCHANGED <<policyPc, source, follow>>

PolicyNext ==
  \/ \E field \in Fields, u \in PolicyUrls : Configure(field, u)
  \/ \E m \in {"GET", "POST"}, f \in BOOLEAN : CallRequest(m, f)
  \/ RequestRaises
  \/ ReturnAnswer
  \/ TooManyRedirects
  \/ \E next \in PolicyUrls : CrossOrigin(next)
  \/ \E next \in PolicyUrls : UnsafeRedirect(next)
  \/ \E next \in PolicyUrls, code \in {301, 302, 303, 307, 308} : FollowRedirect(next, code)

PolicySpec == PolicyInit /\ [][PolicyNext]_policyVars

-----------------------------------------------------------------------------
\* Properties

OnTarget(u) ==
  /\ source \in {"url", "document", "websocket"} => Origin(u) = Origin(ScanTarget)
  /\ source \in {"grpc", "seen_websocket", "candidate"} => OnTargetHost(u)

\* Whatever a user gives a scanner, whatever a page or a contract names and
\* wherever the target redirects to, a request goes to an address that is
\* allowed, without credentials in its url, and there is a limit to them: for an
\* input to the origin that was authorized, for gRPC and for what the crawl has
\* found to its host.  Only for the actions of forms and the operations of
\* contracts the address is all that is checked (safe_request of common.py).
RequestsInScope ==
  /\ Len(requested) <= MaxRedirects + 1
  /\ \A i \in DOMAIN requested :
       LET u == requested[i].url
       IN  /\ OnTarget(u)
           /\ ~u.credentials
           /\ AllowPrivate \/ ~Blocked(u.host)
=============================================================================
