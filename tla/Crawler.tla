------------------------------ MODULE Crawler ------------------------------
(***************************************************************************)
(* crawl_spa (src/services/browser_crawler.py): the queue of pages, the    *)
(* guard on every request of the browser, and how a cancelled or exhausted *)
(* scan stops the crawl.                                                   *)
(*                                                                         *)
(* What pages contain is arbitrary: a page yields any of LinkLists, and    *)
(* makes any of the Requests while it is open.  A document may redirect:   *)
(* the browser calls the guard for the first url of the chain only, and    *)
(* page.url is then another one.  allow_third_party is false, as its only  *)
(* caller passes it.                                                       *)
(***************************************************************************)
EXTENDS Naturals, SequencesExt

CONSTANTS
  Urls,         \* urls without their fragments
  Target,       \* start_url
  OnHost,       \* the urls whose hostname is the target's
  SameOrigin,   \* those with its scheme and port, too
  Public,       \* the urls validate_target_url accepts
  LeadsTo,      \* where the redirects of a document may end, any host included
  LinkLists,    \* the lists of urls a page may name
  Requests,     \* [url, write, tracked]: what a page may request
  AllowWrites,  \* allow_state_changing
  MaxPages,     \* max_pages
  Factor,       \* 5: the frontier holds max_pages * 5 urls, visited ones included
  CrawlBudget   \* what is left of the scan's request budget

ASSUME CrawlerAssumption ==
  /\ Target \in SameOrigin \cap Public
  /\ SameOrigin \subseteq OnHost
  /\ OnHost \subseteq Urls
  /\ LeadsTo \subseteq Urls
  /\ LinkLists \subseteq Seq(Urls)
  /\ Requests \subseteq [url : Urls, write : BOOLEAN, tracked : BOOLEAN]
  /\ AllowWrites \in BOOLEAN
  /\ MaxPages \in Nat \ {0}
  /\ Factor \in Nat \ {0}
  /\ CrawlBudget \in Nat

VARIABLES
  crawlPc,    \* "head" of the loop, "goto", "loading", "extract", "ended", "raised"
  frontier,   \* queue
  queued,
  visited,
  pages,      \* inventory.pages_visited: what was asked for
  current,
  landed,     \* {page.url}, empty while it is a page of the browser's own
  forms,      \* the actions in inventory.forms
  fatal,      \* the exception the guard has kept: "none", "cancelled", "budget"
  sent,       \* tracked requests that were let through
  cancelled   \* what is_cancelled answers

crawlVars == <<crawlPc, frontier, queued, visited, pages, current, landed, forms,
               fatal, sent, cancelled>>

CrawlInit ==
  /\ crawlPc = "head"
  /\ frontier = <<Target>>
  /\ queued = {Target}
  /\ visited = {}
  /\ pages = <<>>
  /\ current = Target
  /\ landed = {}
  /\ forms = {}
  /\ fatal = "none"
  /\ sent = 0
  /\ cancelled = FALSE

CancelCrawl ==
  /\ ~cancelled
  /\ cancelled' = TRUE
  /\ UNCHANGED <<crawlPc, frontier, queued, visited, pages, current, landed, forms,
                 fatal, sent>>

-----------------------------------------------------------------------------
\* route_handler

HostOnly(u) == u \in OnHost  \* variant
InOrigin(u) == u \in SameOrigin

Allowed(rq) ==
  /\ InOrigin(rq.url)
  /\ AllowWrites \/ ~rq.write
  /\ rq.url \in Public

\* before_request
Stops == IF cancelled THEN "cancelled" ELSE IF sent >= CrawlBudget THEN "budget" ELSE "none"

Passes(rq) == Allowed(rq) /\ (rq.tracked => Stops = "none")

\* The request continues or is aborted; the exception of before_request is
\* kept for the loop.
Route(rq) ==
  /\ sent' = IF Passes(rq) /\ rq.tracked THEN sent + 1 ELSE sent
  /\ fatal' = IF Allowed(rq) /\ rq.tracked /\ Stops # "none" THEN Stops ELSE fatal

Document == [url |-> current, write |-> FALSE, tracked |-> TRUE]

-----------------------------------------------------------------------------
\* The loop over the pages.

More == frontier # <<>> /\ Cardinality(visited) < MaxPages

EndCrawl ==
  /\ crawlPc = "head"
  /\ ~More
  /\ crawlPc' = "ended"
  /\ UNCHANGED <<frontier, queued, visited, pages, current, landed, forms, fatal, sent,
                 cancelled>>

\* Variant: "continue" in place of "raise".
SkipFatal ==
  /\ crawlPc = "head"
  /\ More
  /\ fatal # "none"
  /\ UNCHANGED crawlVars

RaiseFatal ==
  /\ crawlPc = "head"
  /\ More
  /\ fatal # "none"
  /\ crawlPc' = "raised"
  /\ UNCHANGED <<frontier, queued, visited, pages, current, landed, forms, fatal, sent,
                 cancelled>>

\* Variant: the loop does not look at what the guard has kept.
PopAnyway ==
  /\ crawlPc = "head"
  /\ More
  /\ crawlPc' = "goto"
  /\ current' = Head(frontier)
  /\ frontier' = Tail(frontier)
  /\ visited' = visited \cup {Head(frontier)}
  /\ UNCHANGED <<queued, pages, landed, forms, fatal, sent, cancelled>>

\* No url is queued twice, so the one taken was not visited.
PopPage ==
  /\ crawlPc = "head"
  /\ More
  /\ fatal = "none"
  /\ crawlPc' = "goto"
  /\ current' = Head(frontier)
  /\ frontier' = Tail(frontier)
  /\ visited' = visited \cup {Head(frontier)}
  /\ UNCHANGED <<queued, pages, landed, forms, fatal, sent, cancelled>>

\* page.goto raises: the guard's exception, or a warning and the next page.
AfterError(kept) == crawlPc' = IF kept = "none" THEN "head" ELSE "raised"

\* page.goto sends the request for the document.  A request that is aborted
\* is an error of page.goto, unless the guard took so long to ask whether the
\* scan is cancelled that the navigation timed out first.
RouteDocument ==
  /\ crawlPc = "goto"
  /\ Route(Document)
  /\ \/ /\ Passes(Document)
        /\ crawlPc' = "loading"
        /\ UNCHANGED <<pages, landed>>
     \/ /\ ~Passes(Document)
        /\ AfterError(fatal')
        /\ UNCHANGED <<pages, landed>>
     \/ /\ Allowed(Document) /\ Stops # "none"
        /\ crawlPc' = "extract"
        /\ pages' = Append(pages, current)
        /\ landed' \in {landed, {}}
  /\ UNCHANGED <<frontier, queued, visited, current, forms, cancelled>>

\* An open page makes requests, until the next one is loaded; the handler
\* runs inside the calls to the page only.
RouteSubresource ==
  /\ crawlPc \in {"goto", "loading", "extract"}
  /\ \E rq \in Requests : Route(rq)
  /\ UNCHANGED <<crawlPc, frontier, queued, visited, pages, current, landed, forms,
                 cancelled>>

FailPage ==
  /\ crawlPc = "loading"
  /\ AfterError(fatal)
  /\ UNCHANGED <<frontier, queued, visited, pages, current, landed, forms, fatal, sent,
                 cancelled>>

\* The page is loaded, after whatever redirects, or the navigation timed out, a
\* warning only, and the page is still what it was.
LoadPage ==
  /\ crawlPc = "loading"
  /\ pages' = Append(pages, current)
  /\ landed' \in {landed, {}, {current}} \cup {{u} : u \in LeadsTo}
  /\ crawlPc' = "extract"
  /\ UNCHANGED <<frontier, queued, visited, current, forms, fatal, sent, cancelled>>

\* safe_url compares the hostname only.
SafeUrl(u) == u \in OnHost \cap Public

\* Variant: the frontier has no limit.
QueueAlways(q, u) ==
  IF ~SafeUrl(u) \/ u \in q.queued THEN q
  ELSE [queued |-> q.queued \cup {u}, frontier |-> Append(q.frontier, u)]

\* One link: noted once, and queued only while there is room.
Queue(q, u) ==
  IF ~SafeUrl(u) \/ u \in q.queued THEN q
  ELSE [queued |-> q.queued \cup {u},
        frontier |-> IF Len(q.frontier) + Cardinality(visited) < MaxPages * Factor
                     THEN Append(q.frontier, u) ELSE q.frontier]

\* Wherever the page is, its links and forms are taken; the action of a form is
\* any url the page names, or its own.
ExtractLinks ==
  /\ crawlPc = "extract"
  /\ \E links \in LinkLists :
       LET q == FoldLeft(Queue, [queued |-> queued, frontier |-> frontier], links)
       IN  /\ queued' = q.queued
           /\ frontier' = q.frontier
           /\ \E actions \in SUBSET (landed \cup ToSet(links)) :
                forms' = forms \cup {u \in actions : SafeUrl(u)}
  /\ crawlPc' = "head"
  /\ UNCHANGED <<visited, pages, current, landed, fatal, sent, cancelled>>

-----------------------------------------------------------------------------
Crawl ==
  \/ EndCrawl \/ RaiseFatal \/ PopPage \/ RouteDocument \/ FailPage \/ LoadPage
  \/ ExtractLinks

CrawlNext == Crawl \/ RouteSubresource \/ CancelCrawl

CrawlSpec == CrawlInit /\ [][CrawlNext]_crawlVars

-----------------------------------------------------------------------------
\* However many links the pages have, no more than max_pages are visited, and
\* what waits and what was visited stay within max_pages * 5 together; a url is
\* queued once at most, and never after it was visited (the limits and the set
\* queued of crawl_spa).
FrontierBounded ==
  /\ Cardinality(visited) <= MaxPages
  /\ Len(frontier) + Cardinality(visited) <= MaxPages * Factor
  /\ ToSet(frontier) \cup visited \subseteq queued
  /\ IsInjective(frontier) /\ ToSet(frontier) \cap visited = {}

\* Wherever the redirects of a document led, and whatever was found there, only
\* urls of the authorized origin are asked for, and no other host enters the
\* frontier or the forms; the frontier accepts every port of the host, so the
\* guard has to catch what the check on the links lets through (safe_url and
\* route_handler).  Where a page that was asked for redirects to is not checked.
NavigationIsAuthorized ==
  /\ ToSet(pages) \subseteq SameOrigin \cap Public
  /\ crawlPc = "loading" => current \in SameOrigin \cap Public
  /\ ToSet(frontier) \cup forms \subseteq OnHost \cap Public

\* Once the guard has kept an exception, no further page is opened: whatever
\* request it was that the guard stopped, and in whatever page.
FatalStopsNavigation == [][fatal # "none" => visited' = visited]_crawlVars

\* The crawl ends, whatever the pages link to and whichever fail.
CrawlEnds == <>(crawlPc \in {"ended", "raised"})
=============================================================================
