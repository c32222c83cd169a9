----------------------------- MODULE MCServices -----------------------------
(***************************************************************************)
(* Parts of the system that do not interact, side by side: each behaviour  *)
(* is one of them alone.                                                   *)
(***************************************************************************)
EXTENDS MCScanners, Crawler, Oast, Accounts, Learning, TargetPolicy, Admission,
        Results, ScanRun

CONSTANTS e1, e2, u1, u2

\* Crawler: four pages, a second port of the host, another host, and a url of
\* the origin that is not accepted: it has credentials in it.
AllUrls == {"t", "a", "b", "c", "p", "x", "u"}
HostUrls == AllUrls \ {"x"}
OriginUrls == HostUrls \ {"p"}
PublicUrls == AllUrls \ {"u"}
\* Documents redirect to the other port, or to the other host.
RedirectUrls == {"p", "x"}
Links == {<<>>, <<"p", "a">>, <<"b", "x", "a", "u", "p">>, <<"t", "c">>}

Rq(u, w, k) == [url |-> u, write |-> w, tracked |-> k]
PageRequests == {Rq("a", FALSE, TRUE), Rq("a", TRUE, TRUE), Rq("x", FALSE, TRUE),
                 Rq("b", FALSE, FALSE)}

\* TargetPolicy: the target, its origin spelled out, another port and one that
\* is none, plain http, credentials, other hosts, none, and other schemes.
Url(s, h, p) == [scheme |-> s, host |-> h, port |-> p, credentials |-> FALSE]
TheTarget == Url("https", "t", NoPort)
MCUrls ==
  {TheTarget, Url("https", "t", 443), Url("https", "t", 8443), Url("https", "t", 70000),
   Url("http", "t", NoPort), Url("https", "o", NoPort), Url("https", "i", NoPort),
   Url("https", "none", NoPort), Url("wss", "t", NoPort), Url("ws", "t", 443),
   Url("other", "t", 443), [TheTarget EXCEPT !.credentials = TRUE]}
TheCallback == {Url("https", "o", NoPort)}
MCAddresses == [t |-> {"public"}, o |-> {"public"}, i |-> {"public", "private"}]

\* Admission: a domain, a host below it and another one that does not resolve.
MCHosts == {"d", "www.d", "gone"}
MCSubdomain == {<<"www.d", "d">>}
MCAllowed == {[pattern |-> "d", wildcard |-> TRUE]}
Profile(name, access, valid) == [name |-> name, access |-> access, valid |-> valid]
Launch(u, h, profiles, budget) ==
  [user |-> u, host |-> h, selected |-> TRUE, authorized |-> TRUE, maps |-> TRUE,
   profiles |-> profiles, inputs |-> TRUE, budget |-> budget, verifyTls |-> TRUE]
MCLaunches ==
  {Launch(u, h, <<Profile("a", "low", TRUE), Profile("b", "high", TRUE)>>, 10) :
     u \in {u1, u2}, h \in MCHosts}
  \cup {Launch(u1, "www.d", <<Profile("a", "low", TRUE), Profile("a", "high", TRUE)>>, 10),
        Launch(u1, "www.d", <<>>, 9),
        [Launch(u1, "www.d", <<>>, 10) EXCEPT !.verifyTls = FALSE],
        [Launch(u1, "www.d", <<>>, 10) EXCEPT !.authorized = FALSE]}

\* Results: what two scanners make, one that leaves everything out, no dict.
Raw(st, v, se, co) ==
  [no_dict |-> FALSE, status |-> st, vulnerable |-> v, severity |-> se, confidence |-> co]
MCRaw ==
  {Raw("confirmed", TRUE, "Critical", "High"), Raw("potential", TRUE, "Info", "absent"),
   Raw("not_vulnerable", FALSE, "Info", "High"), Raw("inconclusive", FALSE, "Info", "Low"),
   Raw("error", FALSE, "absent", "Low"), Raw("absent", TRUE, "absent", "Medium"),
   [Raw("absent", FALSE, "absent", "absent") EXCEPT !.no_dict = TRUE]}

\* ScanRun: two executions of one scan.
MCExecs == {e1, e2}

VARIABLE part

Parts == {"crawl", "oast", "accounts", "learning", "scanner", "policy", "admission",
          "results", "run"}
others == <<scannerVars, policyVars, admissionVars, resultVars, runVars>>
services == <<crawlVars, oastVars, accountVars, learningVars>>
vars == <<part, services, others>>

Init ==
  /\ part \in Parts
  /\ CrawlInit /\ OastInit /\ AccountsInit /\ LearningInit
  /\ ScannerInit /\ PolicyInit /\ AdmissionInit /\ ResultsInit /\ RunInit

InCrawl(A) ==
  part = "crawl" /\ A /\ UNCHANGED <<part, oastVars, accountVars, learningVars, others>>

Next ==
  \/ InCrawl(CrawlNext)
  \/ part = "oast" /\ OastNext
     /\ UNCHANGED <<part, crawlVars, accountVars, learningVars, others>>
  \/ part = "accounts" /\ AccountsNext
     /\ UNCHANGED <<part, crawlVars, oastVars, learningVars, others>>
  \/ part = "learning" /\ LearningNext
     /\ UNCHANGED <<part, crawlVars, oastVars, accountVars, others>>
  \/ part = "scanner" /\ ScannerNext
     /\ UNCHANGED <<part, services, policyVars, admissionVars, resultVars, runVars>>
  \/ part = "policy" /\ PolicyNext
     /\ UNCHANGED <<part, services, scannerVars, admissionVars, resultVars, runVars>>
  \/ part = "admission" /\ AdmissionNext
     /\ UNCHANGED <<part, services, scannerVars, policyVars, resultVars, runVars>>
  \/ part = "results" /\ ResultsNext
     /\ UNCHANGED <<part, services, scannerVars, policyVars, admissionVars, runVars>>
  \/ part = "run" /\ RunNext
     /\ UNCHANGED <<part, services, scannerVars, policyVars, admissionVars, resultVars>>

\* The crawler's thread runs, and the browser answers it or lets the navigation
\* time out; pages, targets and users do what they like.
Fairness == WF_vars(InCrawl(Crawl))

Spec == Init /\ [][Next]_vars /\ Fairness

\* The crawl ends, whatever the pages link to and whichever of them fail, and
\* whatever they go on requesting (the loop of crawl_spa).
CrawlFinishes == part = "crawl" => CrawlEnds
=============================================================================
