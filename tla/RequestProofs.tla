--------------------------- MODULE RequestProofs ----------------------------
(***************************************************************************)
(* Proofs about the modules that decide where the requests of a scan go    *)
(* and what is kept of the answers: TargetPolicy, Crawler and Oast, for    *)
(* any urls, links, redirects and probes.                                  *)
(***************************************************************************)
EXTENDS TargetPolicy, Crawler, Oast, FoldProofs

-----------------------------------------------------------------------------
(***************************************************************************)
(* The target policy and the redirects.                                    *)
(***************************************************************************)

\* A url a request may go to.
Authorized(u) ==
  OnTarget(u) /\ ~u.credentials /\ (AllowPrivate \/ ~Blocked(u.host))

(***************************************************************************)
(* The inductive invariant: nothing is sent before a url was accepted and  *)
(* checked; only urls of the target's origin are followed from; the origin *)
(* that redirects are compared with is the target's; and a hop is counted  *)
(* for every request.                                                      *)
(***************************************************************************)
PolicyInv ==
  /\ source \in Fields
  /\ url \in PolicyUrls
  /\ requested \in Seq([url : PolicyUrls, method : {"GET", "POST"}])
  /\ method \in {"GET", "POST"}
  /\ policyPc \in {"idle", "ready"} => requested = <<>> /\ hop = 0
  /\ policyPc = "ready" => Accepts(source, url)
  /\ policyPc = "sending" =>
       /\ Len(requested) = hop /\ hop <= MaxRedirects
       /\ Authorized(url)
       /\ follow => source \in {"url", "document"} /\ FirstOrigin = Origin(ScanTarget)
  /\ RequestsInScope

\* The shape of the urls, from the assumption on the constants.
LEMMA UrlShape ==
  \A u \in PolicyUrls :
    u \in [scheme : Schemes, host : DOMAIN Addresses \cup {NoHost},
           port : Int \cup {NoPort}, credentials : BOOLEAN]
BY TargetPolicyAssumption

LEMMA ValidIsAllowed ==
  ASSUME NEW u, validate_target_url(u)
  PROVE  ~u.credentials /\ (AllowPrivate \/ ~Blocked(u.host))
BY Zenon DEF validate_target_url

\* What is validated before the first request is as authorized as the url that
\* was accepted: the policy on urls looks at the same host and credentials.
LEMMA CheckedIsAuthorized ==
  ASSUME url \in PolicyUrls, source \in Fields \ {"callback"},
         Accepts(source, url), validate_target_url(Checked(url))
  PROVE  Authorized(url)
<1>1. url \in [scheme : Schemes, host : DOMAIN Addresses \cup {NoHost},
               port : Int \cup {NoPort}, credentials : BOOLEAN]
  BY UrlShape
<1>2. Checked(url).host = url.host /\ Checked(url).credentials = url.credentials
  BY <1>1 DEF Checked, PolicyUrl
<1>3. ~url.credentials /\ (AllowPrivate \/ ~Blocked(url.host))
  <2>1. ~Checked(url).credentials /\ (AllowPrivate \/ ~Blocked(Checked(url).host))
    BY ValidIsAllowed
  <2>2. QED BY <1>2, <2>1, Zenon
<1>4. OnTarget(url)
  <2>1. ASSUME source \in {"url", "document", "websocket"}
        PROVE  Origin(url) = Origin(ScanTarget)
    <3>1. CASE source = "url"
      BY <3>1 DEF Accepts, resolve_same_origin_url
    <3>2. CASE source = "document"
      BY <3>2 DEF Accepts, resolve_same_origin_url
    <3>3. CASE source = "websocket"
      BY <3>3 DEF Accepts, resolve_same_origin_url
    <3>4. QED BY <2>1, <3>1, <3>2, <3>3
  <2>2. ASSUME source \in {"grpc", "seen_websocket", "candidate"}
        PROVE  OnTargetHost(url)
    <3>1. CASE source = "grpc"
      BY <3>1 DEF Accepts, grpc_target, OnTargetHost
    <3>2. CASE source = "seen_websocket"
      BY <3>2 DEF Accepts
    <3>3. CASE source = "candidate"
      BY <3>3 DEF Accepts
    <3>4. QED BY <2>2, <3>1, <3>2, <3>3
  <2>3. QED BY <2>1, <2>2 DEF OnTarget
<1>5. QED BY <1>3, <1>4 DEF Authorized

\* A step that sends the current url, and leaves its source, keeps every
\* request authorized, and remembers the origin of the first one.
LEMMA SendKeepsRequests ==
  ASSUME PolicyInv, Send, UNCHANGED source
  PROVE  /\ requested' \in Seq([url : PolicyUrls, method : {"GET", "POST"}])
         /\ RequestsInScope'
         /\ Len(requested') = hop + 1
         /\ requested' # <<>>
         /\ requested'[1].url = IF requested = <<>> THEN url ELSE requested[1].url
<1> DEFINE r == [url |-> url, method |-> method]
<1>1. /\ requested \in Seq([url : PolicyUrls, method : {"GET", "POST"}])
      /\ r \in [url : PolicyUrls, method : {"GET", "POST"}]
      /\ requested' = Append(requested, r)
  BY DEF PolicyInv, Send
<1>2. Authorized(r.url)
  BY DEF PolicyInv, Send
<1>a. Len(requested') = hop + 1 /\ Len(requested') <= MaxRedirects + 1
  BY <1>1, TargetPolicyAssumption DEF PolicyInv, Send
<1> HIDE DEF r
<1>3. ASSUME NEW i \in DOMAIN requested'
      PROVE  \/ i \in DOMAIN requested /\ requested'[i] = requested[i]
             \/ requested'[i] = r
  BY <1>1
<1>4. ASSUME NEW i \in DOMAIN requested'
      PROVE  Authorized(requested'[i].url)
  BY <1>2, <1>3 DEF PolicyInv, RequestsInScope, Authorized
<1>5. RequestsInScope'
  BY <1>4, <1>a DEF RequestsInScope, Authorized, OnTarget
<1>6. requested'[1].url = IF requested = <<>> THEN url ELSE requested[1].url
  BY <1>1 DEF r
<1>7. QED BY <1>1, <1>5, <1>6, <1>a

-----------------------------------------------------------------------------
LEMMA PolicyInitInv == PolicyInit => PolicyInv
<1> SUFFICES ASSUME PolicyInit PROVE PolicyInv
  OBVIOUS
<1>1. policyPc = "idle" /\ requested = <<>> /\ hop = 0 /\ source \in Fields /\ method \in {"GET", "POST"}
  BY DEF PolicyInit, Fields
<1>2. url \in PolicyUrls
  BY TargetPolicyAssumption, Zenon DEF PolicyInit
<1>3. Len(requested) <= MaxRedirects + 1
  BY <1>1, TargetPolicyAssumption
<1>4. QED BY <1>1, <1>2, <1>3 DEF PolicyInv, RequestsInScope

LEMMA PolicyNextInv == PolicyInv /\ [PolicyNext]_policyVars => PolicyInv'
<1> SUFFICES ASSUME PolicyInv, [PolicyNext]_policyVars PROVE PolicyInv'
  OBVIOUS
<1>1. CASE UNCHANGED policyVars
  BY <1>1 DEF PolicyInv, policyVars, Authorized, FirstOrigin, OnTarget, RequestsInScope
<1>2. ASSUME NEW field \in Fields, NEW u \in PolicyUrls, Configure(field, u)
      PROVE  PolicyInv'
  <2>1. requested' = <<>> /\ policyPc' \in {"ready", "rejected"}
    BY <1>2 DEF Configure, PolicyInv
  <2>2. policyPc' = "ready" => Accepts(source', url')
    BY <1>2 DEF Configure
  <2>3. QED BY <1>2, <2>1, <2>2 DEF Configure, PolicyInv, RequestsInScope
<1>3. ASSUME NEW m \in {"GET", "POST"}, NEW f \in BOOLEAN, CallRequest(m, f)
      PROVE  PolicyInv'
  <2>1. /\ requested = <<>> /\ requested' = <<>> /\ url' = url /\ source' = source
        /\ hop = 0 /\ hop' = 0
        /\ policyPc' \in {"sending", "raised"} /\ method' \in {"GET", "POST"}
    BY <1>3 DEF CallRequest, PolicyInv
  <2>2. ASSUME policyPc' = "sending"
        PROVE  Authorized(url)
    BY <1>3, <2>2, CheckedIsAuthorized DEF CallRequest, PolicyInv
  <2>3. ASSUME policyPc' = "sending", follow'
        PROVE  source' \in {"url", "document"} /\ FirstOrigin' = Origin(ScanTarget)
    <3>1. source \in {"url", "document"}
      BY <1>3, <2>3 DEF CallRequest
    <3>2. Origin(url) = Origin(ScanTarget)
      BY <2>2, <2>3, <3>1 DEF Authorized, OnTarget
    <3>3. QED BY <2>1, <3>1, <3>2 DEF FirstOrigin
  <2>4. Len(requested') = 0 /\ 0 <= MaxRedirects
    BY <2>1, TargetPolicyAssumption
  <2>5. QED BY <2>1, <2>2, <2>3, <2>4 DEF PolicyInv, RequestsInScope, Authorized, OnTarget
<1>4. ASSUME NEW pc \in {"returned", "raised"}, Ends(pc)
      PROVE  PolicyInv'
  <2>1. RequestsInScope' /\ requested' \in Seq([url : PolicyUrls, method : {"GET", "POST"}])
    BY <1>4, SendKeepsRequests DEF Ends
  <2>2. QED BY <1>4, <2>1 DEF Ends, PolicyInv
<1>5. CASE RequestRaises
  BY <1>5 DEF RequestRaises, PolicyInv, RequestsInScope, OnTarget
<1>6. ASSUME NEW next \in PolicyUrls, NEW code \in {301, 302, 303, 307, 308},
             FollowRedirect(next, code)
      PROVE  PolicyInv'
  <2>1. /\ policyPc = "sending" /\ policyPc' = "sending" /\ follow /\ follow'
        /\ source' = source /\ url' = next /\ method' = MethodAfter(code, method)
        /\ Origin(next) = FirstOrigin /\ validate_target_url(next)
    BY <1>6 DEF FollowRedirect, Send
  <2>2. source \in {"url", "document"} /\ FirstOrigin = Origin(ScanTarget)
    BY <2>1 DEF PolicyInv
  <2>a. hop \in Nat /\ hop < MaxRedirects /\ hop' = hop + 1
    BY <1>6, <2>1 DEF PolicyInv, FollowRedirect
  <2>b. Len(requested') = hop' /\ hop' <= MaxRedirects
    BY <1>6, <2>1, <2>a, SendKeepsRequests, TargetPolicyAssumption DEF FollowRedirect
  <2>3. /\ RequestsInScope' /\ requested' \in Seq([url : PolicyUrls, method : {"GET", "POST"}])
        /\ requested' # <<>>
        /\ requested'[1].url = IF requested = <<>> THEN url ELSE requested[1].url
    BY <1>6, <2>1, SendKeepsRequests DEF FollowRedirect
  <2>4. FirstOrigin' = FirstOrigin
    BY <2>3 DEF FirstOrigin
  <2>5. Authorized(next)
    <3>1. ~next.credentials /\ (AllowPrivate \/ ~Blocked(next.host))
      BY <2>1, ValidIsAllowed
    <3>2. QED BY <2>1, <2>2, <3>1 DEF Authorized, OnTarget
  <2>6. Authorized(url)'
    BY <2>1, <2>5 DEF Authorized, OnTarget
  <2>7. method' \in {"GET", "POST"}
    <3>1. method' = "GET" \/ method' = method
      BY <2>1, Zenon DEF MethodAfter
    <3>2. QED BY <3>1 DEF PolicyInv
  <2>8. QED BY <2>1, <2>2, <2>3, <2>4, <2>6, <2>7, <2>b DEF PolicyInv
<1>7. CASE PolicyNext
  BY <1>2, <1>3, <1>4, <1>5, <1>6, <1>7
     DEF PolicyNext, ReturnAnswer, TooManyRedirects, CrossOrigin, UnsafeRedirect
<1>8. QED BY <1>1, <1>7

\* Whatever a user configures, a page or a contract names and the target
\* redirects to: every request goes to an allowed address, without credentials,
\* and no more of them than the redirects that are followed; those for an input
\* to the authorized origin, those to gRPC and to what the crawl has found to
\* its host (safe_request).
THEOREM RequestsInScopeHolds == PolicySpec => []RequestsInScope
<1>1. PolicyInv => RequestsInScope
  BY DEF PolicyInv
<1>2. QED BY <1>1, PolicyInitInv, PolicyNextInv, PTL DEF PolicySpec

-----------------------------------------------------------------------------
(***************************************************************************)
(* The browser crawler.                                                    *)
(***************************************************************************)

CrawlScope == SameOrigin \cap Public

(***************************************************************************)
(* The inductive invariant: a page is asked for, and listed, only after    *)
(* the guard has let its own url through, whatever the frontier holds; the *)
(* forms of a page are filtered wherever it is.                            *)
(***************************************************************************)
CrawlInv ==
  /\ crawlPc \in {"loading", "extract"} => current \in CrawlScope
  /\ pages \in Seq(CrawlScope)
  /\ forms \subseteq OnHost \cap Public

LEMMA PagesInv == CrawlInv => ToSet(pages) \subseteq CrawlScope
<1> SUFFICES ASSUME CrawlInv, NEW i \in DOMAIN pages PROVE pages[i] \in CrawlScope
  BY DEF ToSet
<1>1. QED BY DEF CrawlInv

\* The document of an open page is let through only on the authorized origin.
LEMMA AllowedDocument == Allowed(Document) => current \in CrawlScope
BY DEF Allowed, Document, InOrigin, CrawlScope

LEMMA AppendPage ==
  ASSUME CrawlInv, current \in CrawlScope
  PROVE  Append(pages, current) \in Seq(CrawlScope)
BY DEF CrawlInv

-----------------------------------------------------------------------------
LEMMA CrawlInitInv == CrawlInit => CrawlInv
BY DEF CrawlInit, CrawlInv

LEMMA CrawlNextInv == CrawlInv /\ [CrawlNext]_crawlVars => CrawlInv'
<1> SUFFICES ASSUME CrawlInv, [CrawlNext]_crawlVars PROVE CrawlInv'
  OBVIOUS
<1>1. CASE UNCHANGED crawlVars
  BY <1>1 DEF CrawlInv, crawlVars
<1>2. CASE EndCrawl
  BY <1>2 DEF EndCrawl, CrawlInv
<1>3. CASE RaiseFatal
  BY <1>3 DEF RaiseFatal, CrawlInv
<1>4. CASE PopPage
  BY <1>4 DEF PopPage, CrawlInv
<1>5. CASE RouteDocument
  <2>1. CASE Passes(Document) /\ crawlPc' = "loading" /\ UNCHANGED pages
    BY <1>5, <2>1, AllowedDocument DEF RouteDocument, Passes, CrawlInv
  <2>2. CASE AfterError(fatal') /\ UNCHANGED pages
    BY <1>5, <2>2 DEF RouteDocument, AfterError, CrawlInv
  <2>3. CASE Allowed(Document) /\ crawlPc' = "extract" /\ pages' = Append(pages, current)
    BY <1>5, <2>3, AllowedDocument, AppendPage DEF RouteDocument, CrawlInv
  <2>4. QED BY <1>5, <2>1, <2>2, <2>3 DEF RouteDocument
<1>6. CASE FailPage
  BY <1>6 DEF FailPage, AfterError, CrawlInv
<1>7. CASE LoadPage
  BY <1>7, AppendPage DEF LoadPage, CrawlInv
<1>8. CASE ExtractLinks
  BY <1>8 DEF ExtractLinks, CrawlInv, SafeUrl
<1>9. CASE RouteSubresource
  BY <1>9 DEF RouteSubresource, CrawlInv
<1>10. CASE CancelCrawl
  BY <1>10 DEF CancelCrawl, CrawlInv
<1>11. QED BY <1>1, <1>2, <1>3, <1>4, <1>5, <1>6, <1>7, <1>8, <1>9, <1>10
          DEF CrawlNext, Crawl

\* Once the guard has kept an exception, no page is opened any more, whichever
\* request it was kept for.
THEOREM FatalStopsNavigationHolds == CrawlSpec => FatalStopsNavigation
<1>1. [CrawlNext]_crawlVars => [fatal # "none" => visited' = visited]_crawlVars
  BY DEF CrawlNext, Crawl, EndCrawl, RaiseFatal, PopPage, RouteDocument, FailPage, LoadPage,
         ExtractLinks, RouteSubresource, CancelCrawl, crawlVars
<1>2. QED BY <1>1, PTL DEF CrawlSpec, FatalStopsNavigation

-----------------------------------------------------------------------------
\* What the loop over the links of a page relies on and keeps: enough room for
\* what waits, everything that waits or was visited is noted, nothing waits
\* twice or after its visit, and what waits is on the host.
Waits(q) ==
  /\ q.frontier \in Seq(Urls) /\ q.queued \subseteq Urls
  /\ Len(q.frontier) + Cardinality(visited) <= MaxPages * Factor
  /\ ToSet(q.frontier) \cup visited \subseteq q.queued
  /\ IsInjective(q.frontier)
  /\ ToSet(q.frontier) \cap visited = {}
  /\ ToSet(q.frontier) \subseteq OnHost \cap Public

\* The inductive invariant of the frontier.
FrontierInv ==
  /\ Waits([queued |-> queued, frontier |-> frontier])
  /\ IsFiniteSet(visited)
  /\ Cardinality(visited) <= MaxPages

LEMMA Limits == MaxPages \in Nat /\ MaxPages * Factor \in Nat /\ MaxPages * Factor >= 1
<1>1. MaxPages \in Nat /\ MaxPages >= 1 /\ Factor \in Nat /\ Factor >= 1
  BY CrawlerAssumption
<1>2. MaxPages * Factor \in Nat
  BY <1>1
<1>3. MaxPages * Factor >= 1
  BY <1>1
<1>4. QED BY <1>1, <1>2, <1>3

QueueShape == [queued : SUBSET Urls, frontier : Seq(Urls)]

LEMMA QueueType ==
  ASSUME NEW q \in QueueShape, NEW u \in Urls
  PROVE  Queue(q, u) \in QueueShape
BY DEF Queue, QueueShape

\* One link.
LEMMA QueueKeepsWaits ==
  ASSUME NEW q \in QueueShape, NEW u \in Urls, Waits(q), IsFiniteSet(visited)
  PROVE  Waits(Queue(q, u))
<1> DEFINE f == q.frontier
           g == Append(f, u)
<1>1. CASE ~SafeUrl(u) \/ u \in q.queued
  BY <1>1 DEF Queue
<1>2. CASE SafeUrl(u) /\ u \notin q.queued
  <2>0. f \in Seq(Urls) /\ q.queued \subseteq Urls /\ Cardinality(visited) \in Nat
        /\ MaxPages * Factor \in Nat
    BY FS_CardinalityType, Limits DEF QueueShape
  <2>1. g \in Seq(Urls) /\ Len(g) = Len(f) + 1 /\ DOMAIN g = 1..(Len(f) + 1)
        /\ DOMAIN f = 1..Len(f) /\ Len(f) \in Nat
        /\ g[Len(f) + 1] = u /\ \A i \in 1..Len(f) : g[i] = f[i]
    BY <2>0
  <2>2. ToSet(g) = ToSet(f) \cup {u}
    BY <2>1 DEF ToSet
  <2>3. u \notin ToSet(f) /\ u \notin visited
    BY <1>2 DEF Waits
  <2>4. IsInjective(g)
    <3>1. \A i \in 1..Len(f) : f[i] # u
      BY <2>1, <2>3 DEF ToSet
    <3>2. \A i, j \in 1..Len(f) : f[i] = f[j] => i = j
      BY <2>1 DEF Waits, IsInjective
    <3>3. ASSUME NEW i \in DOMAIN g, NEW j \in DOMAIN g, g[i] = g[j] PROVE i = j
      <4>1. (i \in 1..Len(f) \/ i = Len(f) + 1) /\ (j \in 1..Len(f) \/ j = Len(f) + 1)
        BY <2>1
      <4>2. QED BY <2>1, <3>1, <3>2, <3>3, <4>1
    <3>4. QED BY <3>3 DEF IsInjective
  <2> HIDE DEF g
  <2>5. CASE Len(f) + Cardinality(visited) < MaxPages * Factor
    <3>1. Queue(q, u) = [queued |-> q.queued \cup {u}, frontier |-> g]
      BY <1>2, <2>5 DEF Queue, g
    <3>2. Len(g) + Cardinality(visited) <= MaxPages * Factor
      BY <2>0, <2>1, <2>5
    <3>3. /\ ToSet(g) \cup visited \subseteq q.queued \cup {u} /\ ToSet(g) \cap visited = {}
          /\ ToSet(g) \subseteq OnHost \cap Public
      BY <1>2, <2>2, <2>3 DEF Waits, SafeUrl
    <3>4. QED BY <2>0, <2>1, <2>4, <3>1, <3>2, <3>3 DEF Waits
  <2>6. CASE ~(Len(f) + Cardinality(visited) < MaxPages * Factor)
    <3>1. Queue(q, u) = [queued |-> q.queued \cup {u}, frontier |-> f]
      BY <1>2, <2>6 DEF Queue
    <3>2. QED BY <2>0, <3>1 DEF Waits
  <2>7. QED BY <2>5, <2>6
<1>3. QED BY <1>1, <1>2

\* The links of a page, one after the other.
LEMMA QueueFold ==
  ASSUME NEW links \in Seq(Urls), NEW q \in QueueShape
  PROVE  \E h : /\ h[0] = q
                /\ \A k \in 1..Len(links) : h[k] = Queue(h[k - 1], links[k])
                /\ FoldLeft(Queue, q, links) = h[Len(links)]
<1> DEFINE n == Len(links)
           step == [p \in QueueShape \X (1..n) |-> Queue(p[1], links[p[2]])]
           IsIter(g) == g = [T \in SUBSET (DOMAIN links) |->
                               IF T = {} THEN q
                               ELSE Queue(g[T \ {Max(T)}], links[Max(T)])]
           iter == CHOOSE g : IsIter(g)
<1>1. n \in Nat /\ DOMAIN links = 1..n /\ \A k \in 1..n : links[k] \in Urls
  OBVIOUS
<1>2. step \in [QueueShape \X (1..n) -> QueueShape]
  BY <1>1, QueueType
<1>3. PICK g \in [SUBSET (1..n) -> QueueShape] : Takes(g, q, step, n)
  <2> HIDE DEF step, n
  <2>1. QED BY <1>1, <1>2, LeftFoldExists
<1>4. IsIter(g)
  <2>1. ASSUME NEW T \in SUBSET (1..n), T # {}
        PROVE  g[T] = Queue(g[T \ {Max(T)}], links[Max(T)])
    <3>1. Max(T) \in 1..n /\ T \ {Max(T)} \in SUBSET (1..n)
      BY <1>1, <2>1, LastIndex
    <3>2. <<g[T \ {Max(T)}], Max(T)>> \in QueueShape \X (1..n)
      BY <3>1
    <3>3. g[T] = step[<<g[T \ {Max(T)}], Max(T)>>]
      BY <1>3, <2>1 DEF Takes
    <3>4. QED BY <3>2, <3>3
  <2>2. g[{}] = q
    BY <1>3 DEF Takes
  <2>3. QED BY <1>1, <2>1, <2>2
<1>5. IsIter(iter)
  <2> HIDE DEF IsIter
  <2>1. QED BY <1>4
<1>6. FoldLeft(Queue, q, links) = iter[1..n]
  BY <1>1 DEF FoldLeft, MapThenFoldSet
<1>7. iter[{}] = q
  <2> HIDE DEF iter
  <2>1. QED BY <1>1, <1>5
<1>8. ASSUME NEW k \in 1..n PROVE iter[1..k] = Queue(iter[1..(k - 1)], links[k])
  <2>1. 1..k \in SUBSET (1..n) /\ 1..k # {} /\ Max(1..k) = k
        /\ (1..k) \ {Max(1..k)} = 1..(k - 1)
    BY <1>1, Prefix
  <2>2. ASSUME NEW T \in SUBSET (1..n), T # {}
        PROVE  iter[T] = Queue(iter[T \ {Max(T)}], links[Max(T)])
    <3> HIDE DEF iter
    <3>1. QED BY <1>1, <1>5, <2>2
  <2> HIDE DEF iter
  <2>3. iter[1..k] = Queue(iter[(1..k) \ {Max(1..k)}], links[Max(1..k)])
    BY <2>1, <2>2
  <2>4. QED BY <2>1, <2>3
<1> DEFINE h == [k \in 0..n |-> iter[1..k]]
<1>9. h[0] = q /\ h[n] = iter[1..n] /\ \A k \in 1..n : h[k] = Queue(h[k - 1], links[k])
  <2> HIDE DEF iter
  <2>1. 1..0 = {} /\ 0 \in 0..n /\ n \in 0..n /\ \A k \in 1..n : k \in 0..n /\ k - 1 \in 0..n
    BY <1>1
  <2>2. QED BY <1>7, <1>8, <2>1
<1>10. QED
  <2> HIDE DEF iter, h
  <2>1. QED BY <1>6, <1>9

LEMMA LinksKeepWaits ==
  ASSUME FrontierInv, NEW links \in Seq(Urls)
  PROVE  Waits(FoldLeft(Queue, [queued |-> queued, frontier |-> frontier], links))
<1> DEFINE q == [queued |-> queued, frontier |-> frontier]
<1>1. q \in QueueShape /\ Waits(q) /\ IsFiniteSet(visited)
  BY DEF FrontierInv, Waits, QueueShape
<1> HIDE DEF q
<1>2. PICK h : /\ h[0] = q
               /\ \A k \in 1..Len(links) : h[k] = Queue(h[k - 1], links[k])
               /\ FoldLeft(Queue, q, links) = h[Len(links)]
  BY <1>1, QueueFold
<1> DEFINE A == {k \in Nat : k <= Len(links) => h[k] \in QueueShape /\ Waits(h[k])}
<1>3. 0 \in A
  BY <1>1, <1>2
<1>4. ASSUME NEW k \in Nat, k \in A PROVE k + 1 \in A
  <2> SUFFICES ASSUME k + 1 <= Len(links) PROVE h[k + 1] \in QueueShape /\ Waits(h[k + 1])
    OBVIOUS
  <2>1. k + 1 \in 1..Len(links) /\ (k + 1) - 1 = k /\ k <= Len(links)
    OBVIOUS
  <2>2. h[k + 1] = Queue(h[k], links[k + 1]) /\ links[k + 1] \in Urls
    BY <1>2, <2>1
  <2>3. h[k] \in QueueShape /\ Waits(h[k])
    BY <1>4, <2>1
  <2>4. QED BY <1>1, <2>2, <2>3, QueueType, QueueKeepsWaits
<1>5. Nat \subseteq A
  <2> HIDE DEF A
  <2>1. QED BY <1>3, <1>4, Induction
<1>6. Len(links) \in A
  BY <1>5
<1>7. QED BY <1>2, <1>6 DEF q

LEMMA FrontierInitInv == CrawlInit => FrontierInv
<1> SUFFICES ASSUME CrawlInit PROVE FrontierInv
  OBVIOUS
<1>1. Target \in Urls /\ Target \in OnHost \cap Public
  BY CrawlerAssumption
<1>2. IsFiniteSet(visited) /\ Cardinality(visited) = 0 /\ visited = {}
  BY FS_EmptySet DEF CrawlInit
<1>3. ToSet(frontier) = {Target} /\ IsInjective(frontier) /\ Len(frontier) = 1
  BY DEF CrawlInit, ToSet, IsInjective
<1>4. QED BY <1>1, <1>2, <1>3, Limits DEF CrawlInit, FrontierInv, Waits

LEMMA FrontierNextInv == FrontierInv /\ [CrawlNext]_crawlVars => FrontierInv'
<1> SUFFICES ASSUME FrontierInv, [CrawlNext]_crawlVars PROVE FrontierInv'
  OBVIOUS
<1>1. CASE UNCHANGED <<frontier, queued, visited>>
  BY <1>1 DEF FrontierInv, Waits
<1>2. CASE PopPage
  <2> DEFINE u == Head(frontier)
  <2>0. /\ frontier \in Seq(Urls) /\ frontier # <<>> /\ Cardinality(visited) < MaxPages
        /\ frontier' = Tail(frontier) /\ visited' = visited \cup {u} /\ queued' = queued
        /\ IsFiniteSet(visited) /\ ToSet(frontier) \cup visited \subseteq queued
        /\ queued \subseteq Urls /\ IsInjective(frontier) /\ ToSet(frontier) \cap visited = {}
        /\ Len(frontier) + Cardinality(visited) <= MaxPages * Factor
        /\ ToSet(frontier) \subseteq OnHost \cap Public
    BY <1>2 DEF PopPage, More, FrontierInv, Waits
  <2>1. /\ Len(frontier) \in Nat /\ Len(frontier) >= 1 /\ DOMAIN frontier = 1..Len(frontier)
        /\ frontier' \in Seq(Urls) /\ Len(frontier') = Len(frontier) - 1
        /\ DOMAIN frontier' = 1..(Len(frontier) - 1) /\ u = frontier[1]
        /\ \A i \in 1..(Len(frontier) - 1) : frontier'[i] = frontier[i + 1]
    BY <2>0
  <2> HIDE DEF u
  <2>2. u \in ToSet(frontier) /\ ToSet(frontier') \subseteq ToSet(frontier)
    BY <2>1 DEF ToSet
  <2>3. \A i \in 1..Len(frontier), j \in 1..Len(frontier) : frontier[i] = frontier[j] => i = j
    BY <2>0, <2>1 DEF IsInjective
  <2>4. u \notin ToSet(frontier')
    BY <2>1, <2>3 DEF ToSet
  <2>5. IsInjective(frontier')
    <3>1. ASSUME NEW i \in 1..(Len(frontier) - 1), NEW j \in 1..(Len(frontier) - 1),
                 frontier'[i] = frontier'[j]
          PROVE  i = j
      <4>1. i + 1 \in 1..Len(frontier) /\ j + 1 \in 1..Len(frontier)
        BY <2>1
      <4>2. i + 1 = j + 1
        BY <2>1, <2>3, <3>1, <4>1
      <4>3. QED BY <4>2
    <3>2. QED BY <2>1, <3>1 DEF IsInjective
  <2>6. IsFiniteSet(visited') /\ Cardinality(visited') = Cardinality(visited) + 1
        /\ Cardinality(visited) \in Nat
    BY <2>0, <2>2, FS_AddElement, FS_CardinalityType
  <2>7. Cardinality(visited') <= MaxPages
        /\ Len(frontier') + Cardinality(visited') <= MaxPages * Factor
    BY <2>0, <2>1, <2>6, Limits
  <2>8. /\ ToSet(frontier') \cup visited' \subseteq queued' /\ ToSet(frontier') \cap visited' = {}
        /\ ToSet(frontier') \subseteq OnHost \cap Public
    BY <2>0, <2>2, <2>4
  <2>9. QED BY <2>0, <2>1, <2>5, <2>6, <2>7, <2>8 DEF FrontierInv, Waits
<1>3. CASE ExtractLinks
  <2>1. PICK links \in LinkLists :
          LET q == FoldLeft(Queue, [queued |-> queued, frontier |-> frontier], links)
          IN  /\ queued' = q.queued
              /\ frontier' = q.frontier
    BY <1>3 DEF ExtractLinks
  <2> DEFINE q == FoldLeft(Queue, [queued |-> queued, frontier |-> frontier], links)
  <2>2. Waits(q)
    BY CrawlerAssumption, LinksKeepWaits
  <2>3. queued' = q.queued /\ frontier' = q.frontier /\ visited' = visited
    BY <1>3, <2>1 DEF ExtractLinks
  <2> HIDE DEF q
  <2>4. QED BY <2>2, <2>3 DEF FrontierInv, Waits
<1>4. QED BY <1>1, <1>2, <1>3 DEF CrawlNext, Crawl, crawlVars, EndCrawl, RaiseFatal,
        RouteDocument, FailPage, LoadPage, RouteSubresource, CancelCrawl

\* Wherever documents redirect to and whatever is found there, only urls of the
\* authorized origin are asked for, and only urls of its host are noted for later
\* (route_handler and safe_url of browser_crawler.py).
THEOREM NavigationIsAuthorizedHolds == CrawlSpec => []NavigationIsAuthorized
<1>1. CrawlInv /\ FrontierInv => NavigationIsAuthorized
  BY PagesInv DEF CrawlInv, CrawlScope, FrontierInv, Waits, NavigationIsAuthorized
<1>2. QED BY <1>1, CrawlInitInv, CrawlNextInv, FrontierInitInv, FrontierNextInv, PTL
          DEF CrawlSpec

\* However many links the pages have and whichever fail, no more than max_pages
\* are visited, what waits and what was visited stay within the limit together,
\* and no url waits twice or after its visit (crawl_spa).
THEOREM FrontierBoundedHolds == CrawlSpec => []FrontierBounded
<1>1. FrontierInv => FrontierBounded
  BY DEF FrontierInv, Waits, FrontierBounded
<1>2. QED BY <1>1, FrontierInitInv, FrontierNextInv, PTL DEF CrawlSpec

-----------------------------------------------------------------------------
(***************************************************************************)
(* The out-of-band callbacks.                                              *)
(***************************************************************************)

fetch(p) == <<p, "fetch">>
exec(p) == <<p, "exec">>

\* From the registration of its tokens to the decision.
Waiting == {"send", "wait", "second", "decide"}
ProbePcs == Waiting \cup {"off", "cleanup", "over"}

\* The verdicts that say what was observed.
Weighed == {"confirmed", "potential", "inconclusive"}
Verdicts == Weighed \cup {"none", "error", "cancelled"}

Matches(p) ==
  /\ verdict[p] = "confirmed" => Proof(p) \in called
  /\ verdict[p] = "potential" => fetch(p) \in called /\ Proof(p) \notin inTime
  /\ verdict[p] = "inconclusive" => Tokens(p) \cap inTime = {}

(***************************************************************************)
(* What holds of one probe.  A callback that came in the observation       *)
(* window stays recorded until the probe cleans up, so each of the reads   *)
(* finds it if it comes before that read; the read of the proof is the end *)
(* of the window, and the fetch is not read before it.                     *)
(***************************************************************************)
Sequence(p) ==
  /\ probePc[p] \in {"off", "send"} => p \notin planted /\ Tokens(p) \cap inTime = {}
  /\ probePc[p] \in {"send", "wait", "second", "decide"} => Tokens(p) \subseteq events
  /\ probePc[p] \in {"wait", "second", "decide"} => Tokens(p) \cap inTime \subseteq hits
  /\ probePc[p] \in {"second", "decide"} => p \in waited
  /\ probePc[p] = "second" => p \in Xss /\ (exec(p) \in inTime => exec(p) \in seen[p])
  /\ probePc[p] = "decide" => Tokens(p) \cap inTime \subseteq seen[p]
  /\ probePc[p] \in Waiting \cup {"off"} => verdict[p] = "none"
  /\ seen[p] \subseteq called
  /\ verdict[p] \in Weighed => p \in waited /\ Matches(p)
  /\ probePc[p] = "over" => Tokens(p) \cap events = {}

OastInv ==
  /\ hits \subseteq events \cap called
  /\ probePc \in [Probes -> ProbePcs]
  /\ seen \in [Probes -> SUBSET AllTokens]
  /\ verdict \in [Probes -> Verdicts]
  /\ \A p \in Probes : Sequence(p)

-----------------------------------------------------------------------------
\* Whose a token is can be told from the token.
LEMMA TokensOf ==
  ASSUME NEW p \in Probes, NEW t \in Tokens(p)
  PROVE  /\ t \in {fetch(p), exec(p)}
         /\ t \in AllTokens
         /\ p \notin Xss => t = fetch(p)
         /\ \A q \in Probes \ {p} : t \notin Tokens(q) /\ t # fetch(q) /\ t # exec(q)
         /\ fetch(p) # exec(p)
BY DEF Tokens, AllTokens, fetch, exec

\* What concerns one probe is left alone by a step that touches only the state
\* and the tokens of another.
LEMMA OtherProbe ==
  ASSUME NEW p \in Probes, Sequence(p),
         probePc'[p] = probePc[p], seen'[p] = seen[p], verdict'[p] = verdict[p],
         p \in planted' <=> p \in planted, p \in waited' <=> p \in waited,
         called \subseteq called',
         \A t \in Tokens(p) \cup {fetch(p), exec(p)} :
           /\ t \in events' <=> t \in events
           /\ t \in hits => t \in hits'
           /\ t \in inTime' <=> t \in inTime
  PROVE  Sequence(p)'
<1>1. /\ Tokens(p) \subseteq events => Tokens(p) \subseteq events'
      /\ Tokens(p) \cap events = {} => Tokens(p) \cap events' = {}
      /\ Tokens(p) \cap inTime' = Tokens(p) \cap inTime
      /\ Tokens(p) \cap inTime \subseteq hits => Tokens(p) \cap inTime' \subseteq hits'
      /\ fetch(p) \in inTime' <=> fetch(p) \in inTime
      /\ exec(p) \in inTime' <=> exec(p) \in inTime
  OBVIOUS
<1>2. /\ Tokens(p)' = Tokens(p) /\ fetch(p)' = fetch(p) /\ exec(p)' = exec(p)
      /\ Proof(p)' = Proof(p) /\ Proof(p) \in {fetch(p), exec(p)}
  BY DEF Tokens, fetch, exec, Proof
<1>3. Matches(p) => Matches(p)'
  BY <1>1, <1>2 DEF Matches
<1>4. QED BY <1>1, <1>2, <1>3 DEF Sequence, Weighed

-----------------------------------------------------------------------------
LEMMA OastInitInv == OastInit => OastInv
BY DEF OastInit, OastInv, Sequence, Matches, ProbePcs, Waiting, Weighed, Verdicts

LEMMA RegisterKeeps ==
  ASSUME OastInv, NEW p \in Probes, RegisterProbe(p)
  PROVE  OastInv'
<1>1. PICK t \in Tokens(p) \ events :
        /\ RegisterToken(t)
        /\ ProbeGoto(p, IF Tokens(p) \subseteq events \cup {t} THEN "send" ELSE "off")
  BY DEF RegisterProbe
<1>2. /\ events' = events \cup {t} /\ hits' = hits /\ probePc[p] = "off"
      /\ UNCHANGED <<seen, verdict, planted, waited, called, inTime>>
  BY <1>1 DEF RegisterToken, RegisterProbe, ProbeAt, OastInv
<1>3. /\ probePc' \in [Probes -> ProbePcs]
      /\ \A q \in Probes \ {p} : probePc'[q] = probePc[q]
      /\ probePc'[p] = IF Tokens(p) \subseteq events \cup {t} THEN "send" ELSE "off"
  BY <1>1 DEF ProbeGoto, OastInv, ProbePcs, Waiting
<1>4. Sequence(p)'
  <2>1. /\ Tokens(p)' = Tokens(p) /\ fetch(p)' = fetch(p) /\ exec(p)' = exec(p)
        /\ Proof(p)' = Proof(p)
    BY DEF Tokens, fetch, exec, Proof
  <2>2. probePc'[p] \in {"send", "off"} /\ (probePc'[p] = "send" => Tokens(p) \subseteq events')
    BY <1>2, <1>3
  <2>3. /\ Sequence(p) /\ p \notin planted /\ verdict[p] = "none"
        /\ Tokens(p) \cap inTime = {} /\ seen[p] \subseteq called
    BY <1>2 DEF OastInv, Sequence
  <2>4. QED BY <1>2, <2>1, <2>2, <2>3 DEF Sequence, Waiting, Weighed
<1>5. ASSUME NEW q \in Probes \ {p}
      PROVE  Sequence(q)'
  <2>1. \A u \in Tokens(q) \cup {fetch(q), exec(q)} : u # t
    BY TokensOf
  <2>2. QED BY <1>2, <1>3, <2>1, OtherProbe DEF OastInv
<1>6. QED BY <1>2, <1>3, <1>4, <1>5 DEF OastInv

\* The steps of a probe before it cleans up change neither the registry nor
\* what other probes have seen or been told.
LEMMA OwnStep ==
  ASSUME OastInv, NEW p \in Probes, NEW pc \in ProbePcs, NEW read \in SUBSET AllTokens,
         NEW v \in Verdicts,
         probePc' = [probePc EXCEPT ![p] = pc],
         seen' = [seen EXCEPT ![p] = read],
         verdict' = [verdict EXCEPT ![p] = v],
         planted' \in {planted, planted \cup {p}},
         waited' \in {waited, waited \cup {p}},
         UNCHANGED <<events, hits, called, inTime>>,
         Sequence(p)'
  PROVE  OastInv'
<1>1. /\ probePc' \in [Probes -> ProbePcs] /\ seen' \in [Probes -> SUBSET AllTokens]
      /\ verdict' \in [Probes -> Verdicts]
      /\ \A q \in Probes \ {p} : /\ probePc'[q] = probePc[q] /\ seen'[q] = seen[q]
                                 /\ verdict'[q] = verdict[q]
  BY DEF OastInv
<1>2. ASSUME NEW q \in Probes \ {p}
      PROVE  Sequence(q)'
  BY <1>1, OtherProbe DEF OastInv
<1>3. QED BY <1>1, <1>2 DEF OastInv

\* What a probe at "send" has.
LEMMA AtSend ==
  ASSUME OastInv, NEW p \in Probes, probePc[p] = "send"
  PROVE  /\ verdict[p] = "none" /\ Tokens(p) \subseteq events
         /\ Tokens(p) \cap inTime = {} /\ seen[p] \subseteq called
         /\ seen[p] \in SUBSET AllTokens
BY DEF OastInv, Sequence, Waiting

LEMMA SendKeeps ==
  ASSUME OastInv, NEW p \in Probes, SendPayload(p) \/ SendFails(p)
  PROVE  OastInv'
<1>1. probePc[p] = "send"
  BY DEF SendPayload, SendFails, ProbeAt
<1>2. /\ Tokens(p)' = Tokens(p) /\ fetch(p)' = fetch(p) /\ exec(p)' = exec(p)
      /\ Proof(p)' = Proof(p)
  BY DEF Tokens, fetch, exec, Proof
<1>3. /\ verdict[p] = "none" /\ Tokens(p) \subseteq events
      /\ Tokens(p) \cap inTime = {} /\ seen[p] \subseteq called
      /\ seen[p] \in SUBSET AllTokens
  BY <1>1, AtSend
<1>4. CASE SendPayload(p)
  <2>1. /\ probePc' = [probePc EXCEPT ![p] = "wait"] /\ planted' = planted \cup {p}
        /\ seen' = [seen EXCEPT ![p] = seen[p]] /\ verdict' = [verdict EXCEPT ![p] = "none"]
        /\ UNCHANGED <<events, hits, seen, verdict, waited, called, inTime>>
    BY <1>3, <1>4 DEF SendPayload, ProbeGoto, OastInv
  <2>2. probePc'[p] = "wait"
    BY <2>1 DEF OastInv
  <2>3. Sequence(p)'
    BY <1>2, <1>3, <2>1, <2>2 DEF Sequence, Waiting, Weighed
  <2>4. "wait" \in ProbePcs /\ "none" \in Verdicts
    BY DEF ProbePcs, Waiting, Verdicts
  <2>5. QED BY <1>3, <2>1, <2>3, <2>4, OwnStep
<1>5. CASE SendFails(p)
  <2>1. /\ probePc' = [probePc EXCEPT ![p] = "cleanup"]
        /\ planted' \in {planted, planted \cup {p}}
        /\ seen' = [seen EXCEPT ![p] = seen[p]] /\ verdict' = [verdict EXCEPT ![p] = "error"]
        /\ UNCHANGED <<events, hits, seen, waited, called, inTime>>
    BY <1>5 DEF SendFails, Give, ProbeGoto, OastInv
  <2>2. probePc'[p] = "cleanup" /\ verdict'[p] = "error"
    BY <2>1 DEF OastInv
  <2>3. Sequence(p)'
    BY <1>2, <1>3, <2>1, <2>2 DEF Sequence, Waiting, Weighed
  <2>4. "cleanup" \in ProbePcs /\ "error" \in Verdicts
    BY DEF ProbePcs, Verdicts
  <2>5. QED BY <1>3, <2>1, <2>3, <2>4, OwnStep
<1>6. QED BY <1>4, <1>5

\* The proof is read first, and what has come in time is among the hits.
LEMMA WaitKeeps ==
  ASSUME OastInv, NEW p \in Probes, WaitProbe(p)
  PROVE  OastInv'
<1> DEFINE first == probePc[p] = "wait"
           token == IF first THEN Proof(p) ELSE fetch(p)
           read == seen[p] \cup ({token} \cap hits)
           pc == IF first /\ p \in Xss THEN "second" ELSE "decide"
<1>1. Sequence(p) /\ probePc[p] \in {"wait", "second"}
  BY DEF OastInv, WaitProbe, ReadHits, ProbeAt
<1>2. /\ probePc' = [probePc EXCEPT ![p] = pc] /\ seen' = [seen EXCEPT ![p] = read]
      /\ UNCHANGED <<events, hits, verdict, planted, called, inTime>>
      /\ waited' = IF token = Proof(p) THEN waited \cup {p} ELSE waited
  <2>1. CASE probePc[p] = "wait"
    BY <2>1 DEF WaitProbe, ReadHits, ProbeAt, ProbeGoto, Read
  <2>2. CASE probePc[p] = "second"
    BY <2>2 DEF WaitProbe, ReadHits, ProbeAt, ProbeGoto, Read, fetch
  <2>3. QED BY <1>1, <2>1, <2>2
<1>3. /\ verdict[p] = "none" /\ Tokens(p) \subseteq events
      /\ Tokens(p) \cap inTime \subseteq hits /\ seen[p] \subseteq called
      /\ probePc[p] = "second" => /\ p \in Xss /\ p \in waited
                                  /\ exec(p) \in inTime => exec(p) \in seen[p]
  BY <1>1 DEF Sequence, Waiting
<1>4. /\ Proof(p) = IF p \in Xss THEN exec(p) ELSE fetch(p)
      /\ Tokens(p) = IF p \in Xss THEN {fetch(p), exec(p)} ELSE {fetch(p)}
      /\ Tokens(p) \subseteq AllTokens
  BY DEF Proof, Tokens, AllTokens, fetch, exec
<1>5. read \in SUBSET AllTokens /\ pc \in ProbePcs /\ pc \in {"second", "decide"}
  BY <1>4 DEF OastInv, ProbePcs, Waiting
<1>6. read \subseteq called
  BY <1>3 DEF OastInv
<1>7. /\ pc = "second" => p \in Xss /\ (exec(p) \in inTime => exec(p) \in read)
      /\ pc = "decide" => Tokens(p) \cap inTime \subseteq read
      /\ p \in waited'
  <2>1. CASE first
    BY <1>2, <1>3, <1>4, <2>1
  <2>2. CASE probePc[p] = "second"
    BY <1>2, <1>3, <1>4, <2>2
  <2>3. QED BY <1>1, <2>1, <2>2
<1>8. waited' \in {waited, waited \cup {p}}
  BY <1>2
<1> HIDE DEF read, pc, token, first
<1>9. probePc'[p] = pc /\ seen'[p] = read
  BY <1>2 DEF OastInv
<1>10. /\ Tokens(p)' = Tokens(p) /\ fetch(p)' = fetch(p) /\ exec(p)' = exec(p)
       /\ Proof(p)' = Proof(p)
  BY DEF Tokens, fetch, exec, Proof
<1>11. Sequence(p)'
  BY <1>2, <1>3, <1>5, <1>6, <1>7, <1>9, <1>10 DEF Sequence, Waiting, Weighed
<1>12. /\ verdict' = [verdict EXCEPT ![p] = "none"] /\ planted' \in {planted, planted \cup {p}}
       /\ "none" \in Verdicts
  BY <1>2, <1>3 DEF OastInv, Verdicts
<1>13. QED BY <1>2, <1>5, <1>8, <1>11, <1>12, OwnStep

\* What Decide says of what was seen.
Told(p, v) ==
  /\ v = "confirmed" => Proof(p) \in seen[p]
  /\ v = "potential" => fetch(p) \in seen[p] /\ Proof(p) \notin seen[p]
  /\ v = "inconclusive" => Tokens(p) \cap seen[p] = {}

LEMMA DecideTells ==
  ASSUME NEW p \in Probes, Decide(p)
  PROVE  \E v \in Weighed \cup {"cancelled"} : Give(p, v) /\ Told(p, v)
<1> USE DEF Weighed, Told
<1>1. CASE Give(p, "cancelled")
  BY <1>1
<1>2. CASE ~Give(p, "cancelled")
  <2>1. CASE p \in Xss /\ exec(p) \in seen[p]
    <3>1. Give(p, "confirmed")
      BY <1>2, <2>1 DEF Decide, exec
    <3>2. QED BY <2>1, <3>1 DEF Proof, exec
  <2>2. CASE p \in Xss /\ exec(p) \notin seen[p] /\ fetch(p) \in seen[p]
    <3>1. Give(p, "potential")
      BY <1>2, <2>2 DEF Decide, exec, fetch
    <3>2. QED BY <2>2, <3>1 DEF Proof, exec
  <2>3. CASE p \notin Xss /\ fetch(p) \in seen[p]
    <3>1. Give(p, "confirmed")
      BY <1>2, <2>3 DEF Decide, exec, fetch
    <3>2. QED BY <2>3, <3>1 DEF Proof, fetch
  <2>4. CASE fetch(p) \notin seen[p] /\ ~(p \in Xss /\ exec(p) \in seen[p])
    <3>1. Give(p, "inconclusive")
      BY <1>2, <2>4 DEF Decide, exec, fetch
    <3>2. QED BY <2>4, <3>1 DEF Tokens, fetch, exec
  <2>5. QED BY <2>1, <2>2, <2>3, <2>4
<1>3. QED BY <1>1, <1>2

LEMMA DecideKeeps ==
  ASSUME OastInv, NEW p \in Probes, Decide(p)
  PROVE  OastInv'
<1>1. Sequence(p) /\ probePc[p] = "decide"
  BY DEF OastInv, Decide, ProbeAt
<1>2. PICK v \in Weighed \cup {"cancelled"} : Give(p, v) /\ Told(p, v)
  BY DecideTells
<1>3. /\ probePc' = [probePc EXCEPT ![p] = "cleanup"] /\ verdict' = [verdict EXCEPT ![p] = v]
      /\ seen' = [seen EXCEPT ![p] = seen[p]] /\ planted' \in {planted, planted \cup {p}}
      /\ UNCHANGED <<events, hits, seen, planted, waited, called, inTime>>
  BY <1>2 DEF Decide, Give, ProbeGoto, OastInv
<1>4. probePc'[p] = "cleanup" /\ verdict'[p] = v
  BY <1>3 DEF OastInv
<1>5. /\ Tokens(p)' = Tokens(p) /\ fetch(p)' = fetch(p) /\ exec(p)' = exec(p)
      /\ Proof(p)' = Proof(p)
  BY DEF Tokens, fetch, exec, Proof
<1>6. Tokens(p) \cap inTime \subseteq seen[p] /\ seen[p] \subseteq called /\ p \in waited
  BY <1>1 DEF Sequence
<1>7. Proof(p) \in Tokens(p)
  BY DEF Proof, Tokens
<1>8. Matches(p)'
  BY <1>2, <1>3, <1>4, <1>5, <1>6, <1>7 DEF Matches, Told
<1>9. Sequence(p)'
  BY <1>1, <1>3, <1>4, <1>5, <1>6, <1>8 DEF Sequence, Waiting
<1>10. "cleanup" \in ProbePcs /\ seen[p] \in SUBSET AllTokens /\ v \in Verdicts
  BY DEF ProbePcs, OastInv, Verdicts
<1>11. QED BY <1>3, <1>9, <1>10, OwnStep

LEMMA CleanupKeeps ==
  ASSUME OastInv, NEW p \in Probes, CleanupProbe(p)
  PROVE  OastInv'
<1>1. PICK t \in Tokens(p) \cap events :
        /\ Cleanup(t)
        /\ ProbeGoto(p, IF (Tokens(p) \cap events) = {t} THEN "over" ELSE "cleanup")
  BY DEF CleanupProbe
<1>2. /\ events' = events \ {t} /\ hits' = hits \ {t} /\ probePc[p] = "cleanup"
      /\ UNCHANGED <<seen, verdict, planted, waited, called, inTime>>
  BY <1>1 DEF Cleanup, CleanupProbe, ProbeAt
<1>3. /\ probePc' \in [Probes -> ProbePcs]
      /\ \A q \in Probes \ {p} : probePc'[q] = probePc[q]
      /\ probePc'[p] \in {"over", "cleanup"}
      /\ probePc'[p] = "over" => Tokens(p) \cap events = {t}
  BY <1>1 DEF ProbeGoto, OastInv, ProbePcs
<1>4. Sequence(p)'
  <2>1. /\ Tokens(p)' = Tokens(p) /\ fetch(p)' = fetch(p) /\ exec(p)' = exec(p)
        /\ Proof(p)' = Proof(p)
    BY DEF Tokens, fetch, exec, Proof
  <2>2. seen[p] \subseteq called /\ (verdict[p] \in Weighed => p \in waited /\ Matches(p))
    BY DEF OastInv, Sequence
  <2>3. probePc'[p] = "over" => Tokens(p) \cap events' = {}
    BY <1>2, <1>3
  <2>4. Matches(p) => Matches(p)'
    BY <1>2, <2>1 DEF Matches
  <2>5. QED BY <1>2, <1>3, <2>1, <2>2, <2>3, <2>4 DEF Sequence, Waiting
<1>5. ASSUME NEW q \in Probes \ {p}
      PROVE  Sequence(q)'
  <2>1. \A u \in Tokens(q) \cup {fetch(q), exec(q)} : u # t
    BY TokensOf
  <2>2. QED BY <1>2, <1>3, <2>1, OtherProbe DEF OastInv
<1>6. QED BY <1>2, <1>3, <1>4, <1>5 DEF OastInv

-----------------------------------------------------------------------------
\* A callback records one hit, of a token that is registered, and touches no
\* probe; once the window is over it is no longer in time.
LEMMA CallbackKeeps ==
  ASSUME OastInv, NEW p \in Probes, NEW t \in Tokens(p), Callback(p, t)
  PROVE  OastInv'
<1>1. /\ p \in planted
      /\ hits' = IF t \in events THEN hits \cup {t} ELSE hits
      /\ called' = called \cup ({t} \cap events)
      /\ inTime' = IF p \in waited THEN inTime ELSE inTime \cup ({t} \cap events)
      /\ UNCHANGED <<events, probePc, seen, verdict, planted, waited>>
  BY DEF Callback, RecordHit
<1>2. hits' \subseteq events' \cap called' /\ hits \subseteq hits' /\ called \subseteq called'
  BY <1>1 DEF OastInv
<1>3. Sequence(p)'
  <2>1. /\ Tokens(p)' = Tokens(p) /\ fetch(p)' = fetch(p) /\ exec(p)' = exec(p)
        /\ Proof(p)' = Proof(p)
    BY DEF Tokens, fetch, exec, Proof
  <2>2. Sequence(p)
    BY DEF OastInv
  <2>3. p \in waited => inTime' = inTime
    BY <1>1
  <2>4. inTime' \subseteq inTime \cup (hits' \cap {t})
    BY <1>1
  <2>5. /\ probePc[p] # "off"
        /\ probePc[p] = "send" => Tokens(p) \cap inTime' = {}
    <3>1. probePc[p] # "send"
      BY <1>1, <2>2 DEF Sequence
    <3>2. QED BY <1>1, <2>2, <3>1 DEF Sequence
  <2>6. Tokens(p) \cap inTime \subseteq hits => Tokens(p) \cap inTime' \subseteq hits'
    BY <1>2, <2>4
  <2>7. verdict[p] \in Weighed /\ Matches(p) /\ p \in waited => Matches(p)'
    BY <1>1, <1>2, <2>1, <2>3 DEF Matches
  <2>8. QED BY <1>1, <1>2, <2>1, <2>2, <2>3, <2>5, <2>6, <2>7 DEF Sequence
<1>4. ASSUME NEW q \in Probes \ {p}
      PROVE  Sequence(q)'
  <2>1. \A u \in Tokens(q) \cup {fetch(q), exec(q)} : u # t
    BY TokensOf
  <2>2. \A u \in Tokens(q) \cup {fetch(q), exec(q)} : u \in inTime' <=> u \in inTime
    BY <1>1, <2>1
  <2>3. QED BY <1>1, <1>2, <2>2, OtherProbe DEF OastInv
<1>5. QED BY <1>1, <1>2, <1>3, <1>4 DEF OastInv

-----------------------------------------------------------------------------
LEMMA OastNextInv == OastInv /\ [OastNext]_oastVars => OastInv'
<1> SUFFICES ASSUME OastInv, [OastNext]_oastVars PROVE OastInv'
  OBVIOUS
<1>1. CASE UNCHANGED oastVars
  <2>1. ASSUME NEW q \in Probes PROVE Sequence(q)'
    BY <1>1, OtherProbe DEF OastInv, oastVars
  <2>2. QED BY <1>1, <2>1 DEF OastInv, oastVars
<1>2. CASE OastNext
  <2>1. PICK p \in Probes :
          \/ RegisterProbe(p) \/ SendPayload(p) \/ SendFails(p) \/ WaitProbe(p)
          \/ Decide(p) \/ CleanupProbe(p)
          \/ \E t \in Tokens(p) : Callback(p, t)
    BY <1>2 DEF OastNext
  <2>2. QED BY <2>1, RegisterKeeps, SendKeeps, WaitKeeps, DecideKeeps, CleanupKeeps,
               CallbackKeeps
<1>3. QED BY <1>1, <1>2

\* However the callbacks, the reads and the cleanups of the probes interleave,
\* a verdict says what was called back in the observation window (blind_xss.py,
\* ssrf_scanner.py, oast_callback).
THEOREM VerdictMatchesCallbacksHolds == OastSpec => []VerdictMatchesCallbacks
<1>1. OastInv => VerdictMatchesCallbacks
  BY DEF OastInv, Sequence, Matches, Weighed, VerdictMatchesCallbacks, fetch
<1>2. QED BY <1>1, OastInitInv, OastNextInv, PTL DEF OastSpec

\* However late its callbacks come, a probe that is over has left neither a
\* token nor a hit in the registry (oast.py).
THEOREM NothingLeaksHolds == OastSpec => []NothingLeaks
<1>1. OastInv => NothingLeaks
  BY DEF OastInv, Sequence, NothingLeaks, ProbeAt
<1>2. QED BY <1>1, OastInitInv, OastNextInv, PTL DEF OastSpec
=============================================================================
