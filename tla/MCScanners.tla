----------------------------- MODULE MCScanners -----------------------------
(***************************************************************************)
(* Inputs and answers of the scanners for TLC: for every scanner a few     *)
(* answers on both sides of each of its conditions.                        *)
(***************************************************************************)
EXTENDS Scanners

MCBodies == {"page", "near", "other"}
MCLikeness ==
  [b \in MCBodies |-> [c \in MCBodies |->
     IF b = c THEN 100
     ELSE IF <<b, c>> = <<"page", "near">> THEN 89
     ELSE IF <<b, c>> = <<"near", "page">> THEN 91
     ELSE 60]]

Yes == TRUE
No == FALSE

Param == [param : BOOLEAN]
Complete == [complete : BOOLEAN]
NoInput == {[none |-> No]}

Endpoints == {[host |-> "own", sensitive |-> Yes], [host |-> "own", sensitive |-> No],
              [host |-> "foreign", sensitive |-> Yes]}

MCInputs == [
  sql_injection |-> Param,
  xss |-> {[param |-> 1, query |-> 1], [param |-> 0, query |-> 0]},
  html_injection |-> Param,
  open_redirect_scanner |-> Param,
  host_header_scanner |-> NoInput,
  stored_xss_scanner |-> Complete,
  path_traversal |-> [param : BOOLEAN, canary : BOOLEAN, marker : BOOLEAN],
  idor |-> [param : BOOLEAN, ids : {"missing", "same", "different"},
            header : {"none", "partial", "full"}, session : BOOLEAN, marker : BOOLEAN],
  auth_scanner |-> [login_url : BOOLEAN, test_username : BOOLEAN,
                    status : {"none", "number", "bad"}, failure_marker : BOOLEAN],
  rate_limit |-> NoInput,
  weak_password_scanner |-> [complete : BOOLEAN, marker : BOOLEAN, redirect : BOOLEAN],
  csrf_scan |-> NoInput,
  clickjacking_scanner |-> NoInput,
  info_scan |-> NoInput,
  cors_scanner |-> NoInput,
  dir_scan |-> [paths : {0, 1, 4}],
  file_upload |-> [complete : BOOLEAN, template : BOOLEAN],
  authorization_matrix_scanner |->
    [limit : {0, 2, 61},
     roles : {<<"low">>, <<"user", "low", "unknown">>, <<"high", "anonymous", "low">>},
     endpoints : UNION {[1..n -> Endpoints] : n \in 0..3}],
  graphql_scanner |-> [endpoint : BOOLEAN],
  websocket_scanner |-> [endpoint : {"none", "own", "foreign", "unsafe"},
                         browser : {"none", "own", "foreign", "unsafe"}],
  grpc_scanner |-> [target : {"none", "malformed", "valid"}],
  oidc_scanner |-> [discovery : {"same_host", "other_host"}],
  openapi_scanner |-> [limit : {-1, 0, 1, 30, 101}, host : {"own", "foreign"}],
  modern_spa_scanner |-> [limits : BOOLEAN, pages : {1, 3}]]

-----------------------------------------------------------------------------
SqlReply(code, errors, body) == [code |-> code, errors |-> errors, body |-> body]
SqlReplies ==
  {SqlReply(200, {}, "page"), SqlReply(200, {"mysql"}, "page"), SqlReply(200, {}, "near"),
   SqlReply(500, {}, "other")}

Page(html, marks, fields) == [html |-> html, marks |-> marks, fields |-> fields]
XssReplies ==
  {Page(Yes, {}, 0), Page(Yes, {"script"}, 2), Page(No, {"script"}, 1), Page(Yes, {"text"}, 1)}

\* An element that was found is in the body.
HtmlReplies ==
  {a \in [html : BOOLEAN, element : {"none", "inert", "live"}, raw : BOOLEAN] :
     a.element # "none" => a.raw}

RedirectReplies ==
  [code : {200, 302}, location : {"probe", "mentions", "other"}, raw : BOOLEAN]

SubmitReplies == [code : {201, 403}]
ViewReplies == [code : {200, 404}, html : BOOLEAN, element : {"none", "inert", "live"}]

IdorReplies ==
  [code : {200, 403}, body : MCBodies, private : BOOLEAN, long : BOOLEAN]

LoginReplies ==
  {[signal |-> "none", failure |-> Yes, elapsed |-> 20],
   [signal |-> "none", failure |-> Yes, elapsed |-> 200],
   [signal |-> "none", failure |-> No, elapsed |-> 20],
   [signal |-> "429", failure |-> No, elapsed |-> 1],
   [signal |-> "captcha", failure |-> Yes, elapsed |-> 20]}

RateReplies ==
  [signal : {"none", "429", "retry_after"}, elapsed : {10, 16, 22}]

PasswordReplies ==
  [code : {200, 302, 401, 500}, marker : BOOLEAN, location : {"expected", "other"}]

Forms == [changing : BOOLEAN, token : BOOLEAN]
CsrfReplies == [html : BOOLEAN, forms : SUBSET Forms]

FrameReplies ==
  [code : {200, 404}, html : BOOLEAN, xfo : {"none", "valid"},
   ancestors : {"none", "none_or_self", "other"}]

CorsReplies ==
  {[allow |-> al, credentials |-> cr, code |-> co, authenticated |-> au,
    private_cache |-> se, sensitive |-> se] :
     al \in {"probe", "star"}, cr \in BOOLEAN, co \in {200, 403},
     au \in BOOLEAN, se \in BOOLEAN}

DirReplies ==
  {[code |-> 200, links |-> 3, signature |-> Yes], [code |-> 200, links |-> 1, signature |-> Yes],
   [code |-> 200, links |-> 3, signature |-> No], [code |-> 403, links |-> 0, signature |-> No],
   Skipped}

UploadReplies == [code : {201, 403}, url : {"none", "rejected", "usable"}]
FileReplies ==
  [code : {200, 404}, token : BOOLEAN, html : BOOLEAN, attachment : BOOLEAN]

MatrixReplies ==
  {[code |-> 200, body |-> "page", long |-> Yes], [code |-> 200, body |-> "near", long |-> Yes],
   [code |-> 403, body |-> "other", long |-> No]}

OidcReplies ==
  [code : {200, 404}, document : {"issuer", "other", "broken"}, insecure : BOOLEAN,
   none_alg : BOOLEAN, response_types : SUBSET {"code", "token"}, pkce : BOOLEAN]

Operations == [safe : BOOLEAN, sensitive : BOOLEAN, secured : BOOLEAN]
OpenApiReplies ==
  [code : {200, 404}, document : {"valid", "rejected", "broken"},
   operations : UNION {[1..n -> Operations] : n \in 0..2}]

MCAnswers == [
  sql_injection |-> [benign |-> SqlReplies, payload |-> SqlReplies],
  xss |-> [benign |-> XssReplies, payload |-> XssReplies],
  html_injection |-> [benign |-> HtmlReplies, payload |-> HtmlReplies],
  open_redirect_scanner |-> [payload |-> RedirectReplies],
  host_header_scanner |-> [payload |-> RedirectReplies],
  stored_xss_scanner |-> [payload |-> SubmitReplies, view |-> ViewReplies],
  path_traversal |-> [payload |-> [signature : BOOLEAN]],
  idor |-> [authorized_id |-> IdorReplies, test_id |-> IdorReplies],
  auth_scanner |-> [login |-> LoginReplies],
  rate_limit |-> [benign |-> RateReplies],
  weak_password_scanner |-> [login |-> PasswordReplies],
  csrf_scan |-> [benign |-> CsrfReplies],
  clickjacking_scanner |-> [benign |-> FrameReplies],
  info_scan |-> [benign |-> [matches : SUBSET {"stack_trace", "version"}]],
  cors_scanner |-> [payload |-> CorsReplies, preflight |-> CorsReplies],
  dir_scan |-> [benign |-> DirReplies],
  file_upload |-> [payload |-> UploadReplies, view |-> FileReplies],
  authorization_matrix_scanner |-> [low |-> MatrixReplies, high |-> MatrixReplies],
  graphql_scanner |-> [query |-> [document : {"schema", "other", "broken"}]],
  websocket_scanner |-> [handshake |-> {[code |-> 101]}],
  grpc_scanner |-> [list_services |-> [services : 0..2, document : {"listing"}],
                    file_containing_symbol |-> [document : {"valid", "broken"}]],
  oidc_scanner |-> [document |-> OidcReplies],
  openapi_scanner |-> [document |-> OpenApiReplies, benign |-> [code : {200, 500}]],
  modern_spa_scanner |->
    [launch |-> [browser : {"available", "unavailable"}],
     page |-> [links : {0, 2}, timed_out : BOOLEAN, stopped : BOOLEAN, insecure_ws : BOOLEAN]]]
=============================================================================
