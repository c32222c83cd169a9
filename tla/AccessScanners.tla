--------------------------- MODULE AccessScanners ---------------------------
(***************************************************************************)
(* The scanners that look at logins, throttling, headers, forms, files and *)
(* the access of two test accounts.                                        *)
(***************************************************************************)
EXTENDS ScannerCommon, SequencesExt

CONSTANTS
  LoginAttempts,  \* 5: MAX_ATTEMPTS
  RateAttempts,   \* 5
  DefaultPaths,   \* 5: DEFAULT_PATHS
  MaxPaths        \* 10: how many of the configured paths are checked

ASSUME AccessAssumption ==
  {LoginAttempts, RateAttempts, DefaultPaths, MaxPaths} \subseteq Nat \ {0}

\* ---- auth_scanner: failed logins until something answers

\* `signal` is what an answer shows of a protection, `failure` whether it has
\* the marker or the status of an ordinary failure; times are in 1/100 s.
Signals(a) ==
  a.signal \in {"429", "retry_after", "captcha", "lockout", "rate_limit_marker"}

\* `status` is the expected status code: "none", "number" or something else.
LoginReady(in) ==
  /\ in.login_url /\ in.test_username
  /\ in.status \in {"none", "number"}
  /\ in.failure_marker \/ in.status = "number"

Slower(h) ==
  Len(h) >= 3 /\ Last(h).elapsed >= Max({150, 3 * h[1].elapsed})

ProtectionObserved(h) == (\E i \in DOMAIN h : Signals(h[i])) \/ Slower(h)

FailuresConsistent(h) ==
  /\ \E i \in DOMAIN h : h[i].failure
  /\ \A i \in DOMAIN h : h[i].failure \/ Signals(h[i])

auth_scanner(in, h) ==
  IF ~LoginReady(in) THEN Inconclusive
  ELSE IF Len(h) < LoginAttempts /\ ~(h # <<>> /\ Signals(Last(h)))
       THEN Get("login_url", "login")
  ELSE IF ~FailuresConsistent(h) THEN Inconclusive
  ELSE IF ProtectionObserved(h) THEN NotVulnerable
  ELSE IF Len(h) < LoginAttempts THEN Inconclusive
  ELSE Potential

\* ---- rate_limit

Limits(a) == a.signal \in {"429", "retry_after"}
Delays(h) ==
  \E i \in 1..(Len(h) - 2) :
    /\ h[i].elapsed < h[i + 1].elapsed /\ h[i + 1].elapsed < h[i + 2].elapsed
    /\ h[i + 2].elapsed - h[i].elapsed >= 12

rate_limit(in, h) ==
  IF Len(h) < RateAttempts /\ ~(h # <<>> /\ Limits(Last(h))) THEN Get("target", "benign")
  ELSE IF (\E i \in DOMAIN h : Limits(h[i])) \/ Delays(h) THEN NotVulnerable
  ELSE Potential

\* ---- weak_password_scanner: one credential

\* `location` tells whether the redirect is the expected one.
Accepted(in, a) ==
  \/ Successful(a) /\ in.marker /\ a.marker
  \/ a.code \in 300..399 /\ in.redirect /\ a.location = "expected"

weak_password(in, h) ==
  IF ~in.complete \/ ~(in.marker \/ in.redirect) THEN Inconclusive
  ELSE IF h = <<>> THEN Get("login_url", "login")
  ELSE IF Accepted(in, h[1]) THEN Confirmed
  ELSE IF h[1].code \in {401, 403} THEN NotVulnerable
  ELSE Inconclusive

\* ---- csrf_scan, clickjacking_scanner, info_scan: one page

csrf_scan(in, h) ==
  IF h = <<>> THEN Get("target", "benign")
  ELSE IF h[1].html /\ \E f \in h[1].forms : f.changing /\ ~f.token THEN Potential
  ELSE NotVulnerable

clickjacking(in, h) ==
  IF h = <<>> THEN Get("target", "benign")
  ELSE IF ~(Successful(h[1]) /\ h[1].html) THEN Inconclusive
  ELSE IF h[1].xfo # "valid" /\ h[1].ancestors # "none_or_self" THEN Confirmed
  ELSE NotVulnerable

info_scan(in, h) ==
  IF h = <<>> THEN Get("target", "benign")
  ELSE IF h[1].matches # {} THEN Confirmed
  ELSE NotVulnerable

\* ---- cors_scanner: two origins, then a preflight

\* `allow` is Access-Control-Allow-Origin: "probe" when it is the origin sent.
StrongRisk(a) ==
  /\ a.credentials /\ Successful(a)
  /\ a.authenticated \/ (a.private_cache /\ a.sensitive)

cors(in, h) ==
  IF Len(h) < 2 THEN Get("target", "payload")
  ELSE IF Len(h) < 3 THEN Get("target", "preflight")
  ELSE IF \E i \in 1..2 : h[i].allow = "probe" /\ StrongRisk(h[i]) THEN Confirmed
  ELSE IF \/ \E i \in 1..2 : h[i].allow = "probe"
          \/ Successful(h[3]) /\ h[3].allow = "probe"
       THEN Potential
  ELSE NotVulnerable

\* ---- dir_scan: the first of the configured paths, or the default ones

PathCount(in) == IF in.paths = 0 THEN DefaultPaths ELSE Min({MaxPaths, in.paths})

\* No answer: resolve_same_origin_url does not accept the path, and the scanner
\* goes on to the next one without a request.
Skipped == [kind |-> "skipped"]
Tried(h) == {i \in DOMAIN h : h[i] # Skipped}

dir_scan(in, h) ==
  IF Len(h) < PathCount(in) THEN Get("path", "benign")
  ELSE IF \E i \in Tried(h) : h[i].code = 200 /\ h[i].links >= 2 /\ h[i].signature
       THEN Confirmed
  ELSE IF Tried(h) = {} THEN Inconclusive
  ELSE NotVulnerable

\* ---- file_upload: an upload, then its retrieval

\* `url` says what the response gives away: "none", "rejected" (another origin,
\* or not this file) or "usable".
RetrievalKnown(in, a) == in.template \/ a.url = "usable"

file_upload(in, h) ==
  IF ~in.complete THEN Inconclusive
  ELSE IF h = <<>> THEN Follow("upload_url", "payload")
  ELSE IF ~Successful(h[1]) \/ ~RetrievalKnown(in, h[1]) THEN Inconclusive
  ELSE IF Len(h) < 2 THEN Get("public_url", "view")
  ELSE IF Successful(h[2]) /\ h[2].token /\ h[2].html /\ ~h[2].attachment THEN Confirmed
  ELSE NotVulnerable

\* ---- authorization_matrix_scanner: the lowest and the highest of the profiles

Rank == [anonymous |-> 0, low |-> 1, user |-> 1, high |-> 2, admin |-> 3]
Levels(in) == {Rank[r] : r \in {r \in ToSet(in.roles) : r \in DOMAIN Rank}}

MatrixReady(in) == in.limit \in 1..60 /\ Cardinality(Levels(in)) >= 2

\* The first `limit` distinct candidates on the target's host.
Candidates(in) ==
  LET c == in.endpoints
      kept == {i \in DOMAIN c : c[i].host = "own" /\ c[i] \notin ToSet(SubSeq(c, 1, i - 1))}
      first == {i \in kept : Cardinality({j \in kept : j < i}) < in.limit}
  IN  [n \in 1..Cardinality(first) |->
         c[CHOOSE i \in first : Cardinality({j \in first : j <= i}) = n]]

Suspicious(c, low, high) ==
  /\ c.sensitive
  /\ Successful(low) /\ Successful(high)
  /\ similarity(low, high) >= 90
  /\ low.long

authorization_matrix(in, h) ==
  IF ~MatrixReady(in) \/ Candidates(in) = <<>> THEN Inconclusive
  ELSE IF Len(h) < 2 * Len(Candidates(in))
       THEN Get(<<"endpoint", Len(h) \div 2>>, IF Len(h) % 2 = 0 THEN "low" ELSE "high")
  ELSE IF \E n \in DOMAIN Candidates(in) :
            Suspicious(Candidates(in)[n], h[2 * n - 1], h[2 * n])
       THEN Potential
  ELSE NotVulnerable
=============================================================================
