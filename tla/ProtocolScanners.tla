-------------------------- MODULE ProtocolScanners --------------------------
(***************************************************************************)
(* The scanners of contracts and protocols: GraphQL, WebSocket, gRPC,      *)
(* OAuth/OIDC, OpenAPI, and the browser.                                   *)
(*                                                                         *)
(* A document that is "broken" makes its reader raise something that is    *)
(* not one of the errors it announces.                                     *)
(***************************************************************************)
EXTENDS ScannerCommon

\* ---- graphql_scanner, inspect_graphql_schema

inspect_graphql_schema(a) ==
  IF a.document = "broken" THEN Error
  ELSE IF a.document = "schema" THEN Potential
  ELSE NotVulnerable

graphql(in, h) ==
  IF ~in.endpoint THEN Inconclusive
  ELSE IF h = <<>> THEN Get("endpoint", "query")
  ELSE inspect_graphql_schema(h[1])

\* ---- websocket_scanner, inspect_websocket

\* The endpoint given, or the first the browser has seen: "none", "own",
\* "foreign" (another hostname) or "unsafe" (not accepted).
Endpoint(in) == IF in.endpoint # "none" THEN in.endpoint ELSE in.browser

\* A handshake that fails is caught: the inventory says it is not connected.
websocket(in, h) ==
  IF Endpoint(in) = "unsafe" THEN Error
  ELSE IF Endpoint(in) # "own" THEN Inconclusive
  ELSE IF h = <<>> THEN Get("endpoint", "handshake")
  ELSE IF h[1] = Refused THEN Tell("raised")
  ELSE IF h[1] = Unsafe THEN Error
  ELSE IF h[1] = Failed THEN Inconclusive
  ELSE NotVulnerable

\* ---- grpc_scanner, inspect_grpc_reflection

\* `target` is "none", "malformed" or "valid".  The answer to the listing has
\* the number of services that are not reflection itself.
\* The listing may fail and be kept as the inventory's error; a descriptor
\* whose request fails is skipped; so is everything after a failure that is no
\* RpcError ("broken").  A refusal is raised wherever it comes.
MoreDescriptors(h) ==
  /\ Len(h) <= h[1].services
  /\ \A i \in 2..Len(h) : h[i] = Failed \/ h[i].document # "broken"

grpc(in, h) ==
  IF in.target # "valid" THEN Inconclusive
  ELSE IF h = <<>> THEN Get("endpoint", "list_services")
  ELSE IF Stopped(h) THEN Tell("raised")
  ELSE IF h[1] = Unsafe THEN Error
  ELSE IF h[1] = Failed THEN NotVulnerable
  ELSE IF MoreDescriptors(h) THEN Get("endpoint", "file_containing_symbol")
  ELSE Potential

\* ---- oidc_scanner

Discovered(a) == a.code < 400 /\ a.document \in {"issuer", "broken"}

ImplicitFlow(a) == a.response_types \cap {"token", "id_token", "id_token token"} # {}
WithoutPkce(a) == "code" \in a.response_types /\ ~a.pkce

oidc(in, h) ==
  IF in.discovery # "same_host" THEN Inconclusive
  ELSE IF h = <<>> THEN Follow("discovery_url", "document")
  ELSE IF ~Discovered(h[1]) THEN Inconclusive
  ELSE IF h[1].document = "broken" THEN Error
  ELSE IF h[1].insecure \/ h[1].none_alg THEN Potential
  ELSE IF ImplicitFlow(h[1]) \/ WithoutPkce(h[1]) THEN Potential
  ELSE NotVulnerable

\* ---- openapi_scanner, fetch_openapi_inventory, probe_safe_operations

\* `limit` is the probe limit; the first answer is the document, its operations
\* a sequence of [safe, sensitive, secured].
OpenApiReady(in) == in.limit \in 0..100 /\ in.host = "own"

ReadOnly(a) == {i \in DOMAIN a.operations : a.operations[i].safe}
Probed(in, a) == Min({in.limit, Cardinality(ReadOnly(a))})

\* authorization_declaration_findings
Undeclared(a) ==
  \E i \in DOMAIN a.operations : a.operations[i].sensitive /\ ~a.operations[i].secured

openapi(in, h) ==
  IF ~OpenApiReady(in) THEN Inconclusive
  ELSE IF h = <<>> THEN Follow("document_url", "document")
  ELSE IF h[1].code >= 400 \/ h[1].document = "rejected" THEN Inconclusive
  ELSE IF h[1].document = "broken" THEN Error
  ELSE IF Len(h) - 1 < Probed(in, h[1]) THEN Get("operation", "benign")
  ELSE IF Undeclared(h[1]) THEN Potential
  ELSE NotVulnerable

\* ---- modern_spa_scanner: the launch of the browser, then page after page

\* Of the crawl (module Crawler) what the result depends on.  A page that is not
\* opened is passed over; one whose navigation times out counts as rendered.  An
\* answer has the number of links it adds, and whether the guard of the page's
\* requests has kept a refusal in `fatal`.
Rendered(h) == {i \in 2..Len(h) : h[i] \notin Raised}
Found(h) == 1 + MapThenSumSet(LAMBDA i : h[i].links, Rendered(h))
MorePages(in, h) == Len(h) - 1 < Min({in.pages, Found(h)})
Kept(h) == \E i \in Rendered(h) : h[i].stopped

RaisedByPage(in, h) == Stopped(h)  \* variant: only when the page is not opened

\* fatal is raised when its page is not opened, and before the next page.
FatalRaised(in, h) == Stopped(h) \/ (Kept(h) /\ MorePages(in, h))

NothingVisited(h) == Len(h) < 2  \* variant: failed pages count
NothingRendered(h) == Rendered(h) = {}

modern_spa(in, h) ==
  IF ~in.limits THEN Inconclusive
  ELSE IF h = <<>> THEN Get("target", "launch")
  ELSE IF h[1] \in Raised THEN Error
  ELSE IF h[1].browser = "unavailable" THEN Inconclusive
  ELSE IF FatalRaised(in, h) THEN Tell("raised")
  ELSE IF MorePages(in, h) THEN Get("page", "page")
  ELSE IF NothingRendered(h) THEN Inconclusive
  ELSE IF \E i \in Rendered(h) : h[i].insecure_ws THEN Confirmed
  ELSE NotVulnerable
=============================================================================
