-------------------------- MODULE InjectionScanners --------------------------
(***************************************************************************)
(* The scanners that inject a payload, or another object's id, and compare *)
(* the answer with what they know of the target.                           *)
(***************************************************************************)
EXTENDS ScannerCommon

CONSTANTS
  QuoteProbes,    \* 3: the payloads that provoke a database error
  BooleanPairs,   \* 2: BOOLEAN_PAIRS
  XssPayloads,    \* 8: build_payloads
  CommonParams,   \* 5: the names tried when a page has no field
  OsProbes        \* 2: OS_PROBES

ASSUME InjectionAssumption ==
  {QuoteProbes, BooleanPairs, XssPayloads, CommonParams, OsProbes} \subseteq Nat \ {0}

\* ---- sql_injection: the database errors of an answer are a set of databases

BaselineErrors(h) == h[1].errors \cup h[2].errors

\* The place of the first quote probe with an error the baseline does not have.
NewErrors(h) ==
  {i \in 3..Len(h) : i <= 2 + QuoteProbes /\ h[i].errors \ BaselineErrors(h) # {}}

QuotesAsked(h) == IF NewErrors(h) = {} THEN QuoteProbes ELSE Min(NewErrors(h)) - 2

Differential(h, yes, no) ==
  LET ToBase(a) == Max({similarity(a, h[1]), similarity(a, h[2])})
  IN  \/ ToBase(yes) >= 88 /\ ToBase(no) <= 70 /\ similarity(yes, no) <= 72
      \/ yes.code < 400 /\ no.code >= 400

Stable(h) == similarity(h[1], h[2]) >= 90

\* The pairs that were answered, after the quote probes.
Differs(h) ==
  \E i \in 1..BooleanPairs :
    LET last == 2 + QuotesAsked(h) + 2 * i
    IN  last <= Len(h) /\ Differential(h, h[last - 1], h[last])

sql_injection(in, h) ==
  IF ~in.param THEN Inconclusive
  ELSE IF Len(h) < 2 THEN Get("param", "benign")
  ELSE IF NewErrors(h) = {} /\ Len(h) < 2 + QuoteProbes THEN Get("param", "payload")
  ELSE IF /\ Stable(h)
          /\ ~Differs(h)
          /\ Len(h) < 2 + QuotesAsked(h) + 2 * BooleanPairs
       THEN Get("param", "payload")
  ELSE IF NewErrors(h) # {} THEN Confirmed
  ELSE IF Stable(h) /\ Differs(h) THEN Potential
  ELSE IF ~Stable(h) THEN Inconclusive
  ELSE NotVulnerable

\* ---- xss: `marks` says where an answer has the probe and the token

detect_executable_context(a) ==
  a.html /\ a.marks \cap {"script", "event_handler", "javascript_url"} # {}

\* The fields a page's GET forms have (discover_get_form_targets).
FormFields(a) == IF a.html THEN a.fields ELSE 0

\* Given parameters, or else the discovery request and what it found.
Given(in) == in.param + in.query
Discovers(in) == Given(in) = 0
XssTargets(in, h) ==
  IF ~Discovers(in) THEN Given(in)
  ELSE IF FormFields(h[1]) > 0 THEN FormFields(h[1]) ELSE CommonParams

\* After the discovery, the answers come in blocks: a baseline and the payloads.
XssBlock == 1 + XssPayloads
XssAnswers(in, h) == IF Discovers(in) THEN Tail(h) ELSE h
IsBaseline(k) == k % XssBlock = 1
BaselineOf(k) == k - ((k - 1) % XssBlock)

XssUnchecked(q, k) == ~IsBaseline(k) /\ detect_executable_context(q[k])  \* variant
XssConfirmed(q, k) ==
  /\ ~IsBaseline(k)
  /\ detect_executable_context(q[k])
  /\ ~detect_executable_context(q[BaselineOf(k)])

XssAt(in, h, k) ==
  <<IF ~Discovers(in) \/ FormFields(h[1]) = 0 THEN "param" ELSE "form",
    (k - 1) \div XssBlock>>

xss(in, h) ==
  IF Discovers(in) /\ h = <<>> THEN Get(<<"target", 0>>, "benign")
  ELSE LET q == XssAnswers(in, h)
           next == Len(q) + 1
       IN  IF \E k \in DOMAIN q : XssConfirmed(q, k) THEN Confirmed
           ELSE IF next <= XssTargets(in, h) * XssBlock
                THEN Get(XssAt(in, h, next),
                         IF IsBaseline(next) THEN "benign" ELSE "payload")
           ELSE NotVulnerable

\* ---- html_injection

\* `element` is where the parser found the probe's element: "none", "inert"
\* (in a textarea, a title...) or "live"; `raw` whether its markup is in the body.
html_injection(in, h) ==
  IF ~in.param THEN Inconclusive
  ELSE IF Len(h) < 2 THEN Get("param", IF h = <<>> THEN "benign" ELSE "payload")
  ELSE IF h[2].html /\ h[2].element = "live" /\ ~h[1].raw THEN Confirmed
  ELSE NotVulnerable

\* ---- open_redirect_scanner and host_header_scanner

\* `location` is where the host of the Location header, resolved, is the probe's
\* ("probe"), or has it somewhere else ("mentions"), or not ("other").
ToProbe(a) == Redirects(a) /\ a.location = "probe"

open_redirect(in, h) ==
  IF ~in.param THEN Inconclusive
  ELSE IF h = <<>> THEN Get("param", "payload")
  ELSE IF ToProbe(h[1]) THEN Confirmed
  ELSE NotVulnerable

ReflectsHost(a) == a.raw \/ a.location \in {"probe", "mentions"}

\* Host, then X-Forwarded-Host
host_header(in, h) ==
  IF Len(h) < 2 THEN Get("target", "payload")
  ELSE IF \E i \in 1..2 : ReflectsHost(h[i]) /\ ToProbe(h[i]) THEN Confirmed
  ELSE IF \E i \in 1..2 : ReflectsHost(h[i]) THEN Potential
  ELSE NotVulnerable

\* ---- stored_xss_scanner: a submission, followed by a view

stored_xss(in, h) ==
  IF ~in.complete THEN Inconclusive
  ELSE IF h = <<>> THEN Follow("submit_url", "payload")
  ELSE IF ~Successful(h[1]) THEN Inconclusive
  ELSE IF Len(h) < 2 THEN Get("view_url", "view")
  ELSE IF ~(Successful(h[2]) /\ h[2].html) THEN Inconclusive
  ELSE IF h[2].element = "live" THEN Confirmed
  ELSE NotVulnerable

\* ---- path_traversal: one canary, or the files of an operating system

PathProbes(in) == IF in.canary /\ in.marker THEN 1 ELSE OsProbes

path_traversal(in, h) ==
  IF ~in.param THEN Inconclusive
  ELSE IF h # <<>> /\ h[Len(h)].signature THEN Confirmed
  ELSE IF Len(h) < PathProbes(in) THEN Get("param", "payload")
  ELSE NotVulnerable

\* ---- idor

\* `ids` is what the two object ids are; `header` how much of the authorization
\* header was given; `session` whether the runtime has an authentication.
IdorReady(in) ==
  /\ in.param /\ in.ids = "different"
  /\ in.header # "partial"
  /\ in.header = "full" \/ in.session

idor(in, h) ==
  IF ~IdorReady(in) THEN Inconclusive
  ELSE IF Len(h) < 2 THEN Get("param", IF h = <<>> THEN "authorized_id" ELSE "test_id")
  ELSE IF h[2].code = 200 /\ in.marker /\ h[2].private THEN Confirmed
  ELSE IF /\ h[1].code = 200 /\ h[2].code = 200
          /\ similarity(h[1], h[2]) >= 92
          /\ h[2].long
       THEN Potential
  ELSE NotVulnerable
=============================================================================
