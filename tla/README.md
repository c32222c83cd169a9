# Verification of CyberScan: scans, their queue and their cancellation

CyberScan is a Flask application that runs web security scans for its users.
A scan is started over HTTP, executed by a thread of the web process or by a
separate worker process, followed by the browser over Socket.IO, and can be
cancelled at any moment. This directory holds TLA+ models of how scans are
admitted, started, queued, executed, cancelled, limited and recovered, of what
each scanner asks and concludes, of where its requests may go and of what
becomes of its results; the TLC runs that check them on small instances, and
TLAPS proofs for every size of instance.
Paths below are relative to the root of the repository; `src/` is the code.

## 1. The system

### 1.1 Components, their state and their operations

| component | source | state it keeps | operations |
|---|---|---|---|
| Reliable queue | `services/distributed_queue.py` | Redis: the list `queue_key`, one processing list and one heartbeat key (with a TTL) per worker, one cancellation key per scan | `enqueue`, `reserve`, `acknowledge`, `requeue`, `recover_abandoned`, `heartbeat`, `clear_heartbeat`, `request_cancel`, `cancel_requested`, `clear_cancel` |
| Worker process | `worker.py` | `_STOP`, the reserved job, the heartbeat thread | `main`, `process_job`, `_heartbeat_loop`, `_mark_cancelled`, signal handler |
| Scan execution | `run_scan` in `app.py`, `services/scan_runtime.py` | the scan's row (status, progress, results, request count, cancel_requested), the request counter, the cancel event | one execution: start, one scanner after the other, requests with budget and cancellation checks, finally, last update |
| Local backend | `services/scan_manager.py`, `scan_live` and `cancel_scan` in `app.py`, `init_db` in `database.py` | `_RUNTIMES`, `_FUTURES`, the thread pool and its queue | `register`, `submit`, `unregister`, `cancel`, `active_count_for_user`; restart |
| Distributed backend | `scan_live`, `cancel_scan`, `worker.py` | the table `scans` and Redis, shared by all processes | the same handlers with the queue in place of the pool |
| Accounts | `app.py` | users, sessions, API tokens, rate-limit timestamps | registration, login, limits, CSRF |
| Authorized scopes and admission | `scan_live`, `api_scopes`, `target_in_user_scope` in `app.py`, `services/auth_profiles.py` | the table `target_scopes` | add and delete a scope; the checks of a request for a scan |
| Target policy | `vulnerabilities/common.py`, `normalize_scanner_inputs` in `app.py` | none (DNS) | `validate_target_url`, `resolve_same_origin_url`, `safe_request` with its redirects |
| Out-of-band callbacks | `services/oast.py`, `oast_callback` in `app.py`, `vulnerabilities/{blind_xss,ssrf_scanner}.py` | in the memory of one process: an event and the hits of each registered token | `register`, `record_hit`, `wait_for_hit`, `cleanup` |
| Browser crawler | `services/browser_crawler.py` | page queue, visited set, route guard, fatal error | `crawl_spa` |
| Scanners | `vulnerabilities/*.py`, `services/{api_discovery,auth_profiles,graphql_support,websocket_support,grpc_support}.py` | none between scans; within one, the answers so far | one request after the other, then one verdict |
| Results and exports | `app.py` | rows of results | normalisation, risk score, views, JSON/CSV/SARIF/HAR/PDF |
| AI assistant | `ai_analyzer.py`, `routes_ai.py` | a cache of at most 128 analyses | `analyze_scan` |
| Learning, certificate, dashboard | `app.py`, `static/`, `templates/` | learning progress | progress, certificate, rendering |

### 1.2 How they interact, and what is hard about it

`scan_live` checks the user's quota, inserts a `queued` row, and hands the scan
over: to the thread pool (registry, future, done callback) or to Redis
(`LPUSH`). A pool thread or a worker calls `run_scan`, which writes the row
many times and asks between scanners, and before every HTTP request of a
scanner, whether it was cancelled. `cancel_scan` reads the row, tells the
registry or sets a Redis key, and then writes the row without looking at it
again. A worker takes a job with `BRPOPLPUSH` into its own processing list and
removes it only after `process_job`; the lists of workers without a heartbeat
key are drained by the others.

The hard behaviours are therefore:

* handlers, pool threads, callbacks and workers interleave between any two
  accesses to the database, Redis, the registry or the flags;
* a worker dies with a job in its list, or in the middle of recovering another
  worker's jobs; a command is executed and its reply is lost; a heartbeat
  expires while the worker lives;
* the web process restarts, or dies between two writes of one request;
* a signal ends the heartbeat thread before the job;
* the database or Socket.IO fails inside `run_scan`;
* any request of a scanner may fail, or be refused because the scan was
  cancelled or has spent its budget, after any number of answers and under
  `except` clauses written for other errors;
* the target chooses every answer, and with it every redirect;
* scopes come and go between the checks of a request for a scan;
* a limit (quota, request budget, progress) is met exactly at its boundary.

`PROJECT.json` lists them one by one, at their lines, under `hazards`.

### 1.3 What makes each component correct

* Queue: no job is lost or run by two workers at once; a running job stays
  recoverable; first-in first-out, returned jobs first; every job is done.
* Execution: `done` means complete, the budget holds, the terminal status comes
  last, cancellation stops the requests.
* Local backend: registry, futures and rows agree; slots are released; the
  status follows its machine; every scan ends.
* Distributed backend: an active row has a job; one execution at a time; a
  cancellation is not forgotten by redelivery.
* Crawler: only urls of the authorized origin are asked for, wherever a page
  redirects to only urls of its host are taken from it, the limits hold, a
  cancellation or an exhausted budget stops it, it ends.
* Callbacks: a verdict is what was called back, however the callbacks race the
  waits; late callbacks leave nothing behind.
* Accounts: a refusal is earned, who was told of success owns the account.
* Learning: points, streak and last activity are those of the committed posts.
* Admission: a scan is admitted only for a host its own user's scopes covered.
* Target policy: every request goes to an allowed address, at the origin or on
  the host that its kind of url is compared with.
* Scanners: a refusal is passed on through the handlers of each, a failure is no
  sign of safety, and a target
  that answers every probe alike is not reported by those that compare.
* Results: all views of a scan's results count the same findings.
* AI assistant: the cache keeps its bound under concurrent requests.

## 2. The modules

| module | models | composes |
|---|---|---|
| `JobPool` | what the queue promises: at-least-once execution, one holder at a time | |
| `ReliableQueue` | `distributed_queue.py` and the loop of `worker.py` | implements `JobPool` |
| `ReliableQueueProofs` | theorems about `ReliableQueue` | |
| `ScanRun` | `run_scan`, its row, `ScanRuntime` | |
| `ScanRunProofs` | theorems about `ScanRun` | |
| `ScanLifecycle` | the status machine a client sees | |
| `LocalScan` | the local backend | `ScanRun`; implements `ScanLifecycle` |
| `DistributedScan` | the distributed backend | `ReliableQueue`, `ScanRun` |
| `DistributedScanProofs` | theorems about `DistributedScan` | the theorems of `ReliableQueueProofs`, about its queue |
| `ScannerCommon` | requests, answers and verdicts of a scanner | |
| `InjectionScanners` | 8 scanners that inject a payload or an id | `ScannerCommon` |
| `AccessScanners` | 10 scanners of logins, roles, headers, paths, uploads | `ScannerCommon` |
| `ProtocolScanners` | GraphQL, WebSocket, gRPC, OIDC, OpenAPI, modern SPA, with their helpers in `services/` | `ScannerCommon` |
| `Scanners` | one of these 24 against a target that answers as it likes | the three above |
| `TargetPolicy` | the policy on urls and `safe_request` | |
| `Admission` | the checks of `scan_live`, and `/api/scopes` meanwhile | |
| `Results` | what becomes of results; the assistant's cache | |
| `LocalScanProofs` | theorems about `LocalScan`, with and without cancellations | |
| `RequestProofs` | theorems about `TargetPolicy`, `Crawler` and `Oast` | |
| `UserProofs` | theorems about `Admission`, `Accounts` and `Learning` | |
| `ScannersProofs` | theorems about `Scanners` and `Results` | |
| `Lists` | `Keep`, the elements of a list that are in a set, as the fold the proofs reason about | |
| `FoldProofs` | what sums over sets and folds over lists return, for the three modules above | |
| `Crawler` | `crawl_spa`: page queue, request guard, kept exception | |
| `Oast` | `oast.py`, `oast_callback` and the two scanners that wait for callbacks | |
| `Accounts` | `is_rate_limited`, `register`, `login` and their API versions | |
| `Learning` | `api_learning_progress` | |
| `MC*` | instances for TLC; `MCServices` runs `Crawler`, `Oast`, `Accounts`, `Learning`, `Scanners`, `TargetPolicy`, `Admission`, `Results` and `ScanRun` side by side, one per behaviour | |

**ReliableQueue.** One action is one Redis command (or the `MULTI/EXEC` of
`requeue`) with the Python code up to the next one, so everything else may
happen between two commands. `pc[w]` says where worker `w` is:
`off`, `recover`/`drain`/`push`/`delete` inside `recover_abandoned`, `loop`,
`poll`, `job` inside `process_job`, `ack`, `requeue`, `dead`. A Redis list is a
sequence whose head is the end the workers take from. A worker id is a fresh
uuid, so a worker lives once and a restarted worker is another element of
`Workers`. `sent`, `taken` and `completed` are history variables. `Faults`
names what the environment may do: `crash`, `recovery_torn` (death or a Redis
error inside recovery), `reply_lost` (`acknowledge` or `requeue` fails,
executed or not), `reserve_lost`, `lapse` (a live worker's heartbeat expires),
`stop` (signal), `job_error`. `Steady` workers are never killed or stopped,
`Poison` tokens cannot be decoded. Every run says which faults it injects,
because each property survives some of them only.

**ScanRun.** `row[s]` is the row of scan `s`; `run[e]` the local state of one
execution (its place, the index of the scanner, the results and requests
counted). What the scanners find is abstracted to the number of results; their
requests are the loop `BeforeRequest`/`Charge`. The outcome of `is_cancelled`
is a parameter: alone, the module allows any answer, any number of executions
per scan and their death, so its invariants hold for every caller; the two
backends instantiate it with the answer the code computes.

**LocalScan.** `runtimes` and `tracked` are `_RUNTIMES` and `_FUTURES`;
`future`, `hooked` and `workq` are the state of `concurrent.futures`;
`cancelEvent` the events of the runtimes. `submit` is three steps (submit to
the pool, store the future, attach the callback), because the job can run and
end between any two of them. `WriteCancel` uses the status `ReadRow` saw.
`Restart` is the death of the process and `init_db` of the next one.

**DistributedScan.** The job of a scan is the scan. `process_job` is the stages
`admit`, `mark`, `clear`, `run` of a worker whose `pc` is `job`; `cancelKey` is
the set of cancellation keys; `http` is what each thread of the web process is
doing. `WebFaults` adds `redis_down` (the handler's Redis call raises, executed
or not) and `web_crash`.

**Crawler.** `crawlPc` is the place in the loop of `crawl_spa`; `frontier`,
`queued`, `visited` and `fatal` are its local variables. The browser is free: a
page has any of `LinkLists`, makes any of `Requests` while it is open, loads,
fails or times out. Its document may redirect: Playwright calls the route handler
for the first url of a chain only, so the page ends (`landed`, which is
`page.url`) on any url of `LeadsTo`, other hosts included, and its links and
forms are taken there. `Route` is `route_handler`, which the browser's calls run
for every request but those of redirects; `Urls` and the sets that classify them stand for parsing.
`Factor` is the 5 of `max_pages * 5`.

**Oast.** `events` and `hits` are the two dictionaries; each registry operation
is one action because it holds the lock. A probe is one run of `blind_xss`
(members of `Xss`, two tokens) or of `ssrf_scanner`. The payload that `blind_xss`
plants holds both tokens in clear and `oast_callback` records a hit for any
registered one, so `Callback` is free: any planted token, at any time. The script
of the answer is left out, because it tells nobody more than the payload does.
`waited`, `called` and `inTime` are history: whose wait is over, which tokens
were called back, and which of them before that.

**Accounts.** One email. `clientPc` and `call` are the threads of the server and
the local variables of their requests; `rateLimits` is `RATE_LIMITS`, one list
for each action. Reading the list and storing it are two actions, and so are
the look-up of the email and the insertion: the password is hashed in between.
`tick` is `time.time()`.

**Learning.** One student. The handler's first statement is an `INSERT`, so
SQLite's write lock (`lock`) is held from there to the commit; the date is read
after it. `draft` is what the transaction sees, `progress` and `profile` what
is committed, `today` is `date.today()`, which is assumed not to go back.

**The scanners.** A scanner of `src/vulnerabilities` asks one request after the
other and then returns a result, and keeps nothing but what it was answered. So
it is an operator of its inputs and of the history `h` of the answers, which
yields the next request or the verdict; the loops, `break`s and early returns of
`scan()` are the conditions under which it asks for more. `at` is the place a
request goes to and `probe` whether it carries something. An answer is a record
of what that scanner looks at in a response (a status code, a marker in the
body, a context the marker appears in, a similarity to another body), or the
exception the request raised: `Failed`, `Unsafe` (the url is not accepted) or
`Refused` (`before_request` met a cancellation or the end of the budget).
Each scanner has its own handlers. Most end in `OrError` (a refusal is raised, any
other exception is an error) or `OrInvalid` (a `ValueError` is inconclusive);
`Respond` says which. The others are written out: `websocket` and `grpc` keep the
failures of the connection; `dir_scan` skips a path that is not accepted
(`Skipped`, no request); `modern_spa` is a launch and then one page after the
other: a page that fails is passed over, one whose navigation times out counts as
rendered, and a refusal that the guard of the browser kept (`Kept`) is raised when
the page is not opened or before the next one, and never on the last.
`Scanners` adds the target, which gives any of `Answers` to any request;
`MCScanners` lists, for every scanner, a few inputs and answers on both sides of each of its conditions.

**TargetPolicy.** A url is the record `urlparse` makes of it. `Configure` is how
a url reaches a scanner, by its `source`: a url, websocket or document input, a
gRPC target, a callback base, a websocket the browser has seen, a candidate of
the authorization matrix, the action of a form `xss` finds, an operation of an
OpenAPI contract. `Accepts` is the check that kind of url passes; for the last two there is
none: only `safe_request`'s check of the address is left. `policyPc` is the
place in `safe_request`; one step of its loop is one request with what becomes
of the answer. `requested` is history.

**Admission.** `launch[t]` is the request thread `t` serves and how far
`scan_live` is with it; the scopes are read in a step of its own, and between
the steps other requests add and delete scopes. `covered` is history: the
threads whose host was in their user's scope at some time since they began.

**Results.** `results` grows by one normalized result at a time; the views
(history, checks, distribution, assistant) are operators of it. The
risk score is in units that keep it an integer. `cache` is `_CACHE`; the lookup
and the store of `analyze_scan` are two steps, because the lock is released
between them.

**Variants.** An operator marked "variant" is not part of the model: it is a
plausible wrong version of the operator under it, used to confirm that each
checked property notices a mistake of that kind (`mutants` in `PROJECT.json`).

## 3. The runs

All runs take at most two minutes on two cores.

| run | question | instance |
|---|---|---|
| `RQ_live` | nothing run twice at once, nothing lost, a running job recoverable, implements `JobPool`, every decodable job completed; under crashes, failing acknowledgements, failing jobs | 2 workers (one steady), 3 jobs, one of them undecodable |
| `RQ_order` | the order of deliveries, under crashes, stops, lapses, torn recovery, lost replies of `reserve` | 2 workers, 2 jobs |
| `RQ_stop_held`, `RQ_torn_lost` | documented promises the code breaks, section 6 | 2 workers |
| `LS_cancel` | registry, futures and row agree; slots are released; cancellation stops requests | 1 scan, 1 launcher, 1 canceller (which may cancel again and again), 2 scanners, budget 2, database errors, a restart |
| `LS_quiet` | implements `ScanLifecycle`, every scan ends, bounded overshoot | 3 scans, 2 launchers, nobody cancels, limit 1, a restart |
| `LS_stuck` | documented promise the code breaks, section 6 | 1 scan, 1 canceller |
| `DS_safety` | an active row has a job, one execution | 1 scan, 2 workers, 1 launcher, 1 canceller; crash, lost replies, failing jobs, Redis down |
| `DS_cancel` | a recorded cancellation is never forgotten | same, one worker subject to crash, stop, lapse and torn recovery, the web process to crashes |
| `DS_live` | a scan ends, a cancelled one stops for good | same, one steady worker, crashes, failing acknowledgements, web crashes |
| `SC_silence` | documented promise the code breaks, section 6 | the 24 scanners |
| `SV_parts` | nine parts that do not interact, one per behaviour, listed below | |

| part of `SV_parts` | question | instance |
|---|---|---|
| crawl | only the authorized origin is asked for, only its host enters the frontier; limits kept; a stop is obeyed; the crawl ends | 7 urls, 2 pages, redirects to another port and another host, a budget of 3, a cancellation |
| oast | verdicts match the callbacks; nothing leaks | one probe of each kind |
| accounts | a refusal is earned; who was told of success owns the account | 2 threads, 3 admitted calls, limit 2, window 2 of 4 moments |
| learning | the profile matches what was posted | 2 requests, 2 lessons, 4 days |
| scanner | a refusal is passed on; a failure is not safety; a report depends on the probe | 24 scanners with all their kinds of answers |
| policy | requests go where each kind of url may | 9 kinds of url, 12 urls over 3 hosts and without one, 2 redirects |
| admission | an admitted scan was in scope and passed every check | 2 requests at a time, 2 users, 2 scopes, an allowlist with a wildcard |
| results | the views agree; the cache is bounded | up to 3 results of 7 kinds, 2 threads, a cache of 2 |
| run | `done` is complete, the budget holds, the terminal status comes last | 2 executions of 1 scan, 2 scanners, budget 2, every database error |

*Why these bounds are enough to be interesting.* Two workers give one that
fails and one that recovers it, or two that recover the same list; three jobs
give a returned job, one before it and one behind it (the order properties of
`RQ_order` relate two jobs at a time). `RQ_order` leaves failing jobs and failed
acknowledgements out: together with a lapse they requeue a job that is already
queued, and the list grows without bound. One scan with two
executors shows every race on a row, and scans share nothing else but the pool,
the queue (`ReliableQueue` has the runs with several jobs) and the quota
(`LS_quiet`, three scans with two requests at a limit of one). Two scanners and
a budget of one or two requests put the boundary of the budget inside, before
and after the last scanner. `MaxRestarts` bounds restarts at one: a restart
resets everything but the rows, and a second one finds no active row of an
older process. `SV_parts` has a page's worth of links beyond the frontier's limit
(`Factor` 2 instead of 5, two pages), a budget that ends before or inside the
second page, and one token each whose callback comes early, late or never; the
window slides past a full list of timestamps; and a post may be overtaken by
another one and by midnight at each of its steps.

*Deadlock* is checked in `RQ_live` and `DS_live`, where a steady worker polls
for ever. In the others the system may stop: all workers may be dead, or all
scans ended; a scanner ends with its verdict.

*Bounds of the scanners.* `QuoteProbes`, `BooleanPairs`, `XssPayloads`,
`CommonParams`, `LoginAttempts`, `RateAttempts` and `DefaultPaths` are the
lengths of the lists a scanner goes through (3, 2, 8, 5, 5, 5 and 5 in the
code), cut to 1..4: enough for a first element, one after it, and a loop
that ends by itself or by `break`. `MaxPaths` is the limit on configured paths,
which one input exceeds. `MaxRedirects` is 2 instead of 3: one hop that is
followed from the first url, one that is followed from a redirect, and one too
many. `MaxScopes`, `MaxResults` and `CacheMax` bound what is added; `AiMax` cuts
a list of three at two.

*Symmetry* is used in safety runs only, over workers and jobs that no constant
singles out.

## 4. Fairness

* Threads and processes are scheduled: weak fairness of every step a live
  worker, a pool thread or an HTTP handler takes of its own accord. Nobody is
  obliged to start or cancel a scan, and no fault is obliged to happen.
* The TTL of a dead worker's heartbeat runs out (Redis).
* `RQ_live`: strong fairness of `JobDone` and `Ack`. A job that raises, or whose
  acknowledgement fails, goes back to the head of the queue, and recovery runs
  only when the queue is found empty; so one job that fails for ever starves
  every other job. This is how the code behaves, and the assumption makes it
  explicit.
* `DS_live` does not assume it: acknowledgements may fail for ever, so the scan
  may be redelivered for ever; what is shown is that its status is terminal and
  that a cancelled scan is never executed again. It has one scan; with several,
  the scans behind it need the assumption of `RQ_live`.
* `SV_parts`: the crawler's thread runs, and the browser answers it or lets the
  navigation time out. Playwright puts no limit on the evaluation of a script in
  a page; that it ends is assumed.
* A scanner ends: its loop is bounded by the budget, each request has a timeout.

## 5. Proofs

`ReliableQueueProofs` proves, for any sets of workers and jobs:

* `TypeCorrect`: `TypeOK` is invariant under every combination of faults;
* `ExclusiveExecutionHolds`, `RunningJobIsHeldHolds`: if no fault is `lapse` or
  `stop` (`HeartbeatsKept`), a job is executed by one worker at a time and stays
  in its worker's list while it runs;
* `NothingLostHolds`: if recovery is not torn either, an enqueued job that has
  not run to its end is in some list or in a recovering worker's hand;
* `ImplementsPoolHolds`: under the same assumptions `ReliableQueue` implements
  `JobPool`: every step maps to a step or a stutter of the pool.

The argument. None of the three is inductive: that a job is run once depends on
where its token is, and that on whose list recovery may drain. The inductive
invariant `IInv` (theorem `Inductive`) says

* every live worker has a heartbeat, and recovery only drains the list of a
  worker that is dead (`Processes`): the first heartbeat precedes recovery and
  the first `reserve`, and nobody but the owner clears it;
* a list that is about to be deleted is empty (`DrainedStaysEmpty`): a dead
  worker adds nothing to it;
* a token is in one place only: once in one list, or in one recovering hand, and
  what a worker works on no other worker has or can take (`Places`);
* what is being acknowledged has completed (`AckedIsCompleted`).

The lemmas at the head of the module say what head, tail, append, push and
`Lrem` do to the elements of a list without repetitions; the proof of
preservation has one lemma per kind of move (take, release, put back, pop,
push, enqueue), used by every action that makes it. The refinement maps
`waiting` to the tokens that are somewhere and that no worker holds, so a
recovery is a stutter and a crash, or a failed acknowledgement, is the return
of a job.

The assumptions are needed: with `stop` or `lapse` TLC violates exclusive
execution, with `recovery_torn` it loses a job.

`ScanRunProofs` proves, for any sets of scans and executions, any number of
scanners, any budget, and whatever is cancelled, fails or dies:

* `RunTypeCorrect`: the counters stay within the scanners and the budget, the
  progress within 0..100 (integer division included);
* `DoneIsCompleteHolds`: a `done` row has a result of every scanner;
* `BudgetRespectedHolds`: no execution sends more requests than the budget;
* `TerminalIsAnnouncedHolds`: a terminal status comes after the audit and the
  announcement.

The argument: `done` is decided from the index of the loop, so completeness needs
that the results counted so far agree with the index at every place of
`run_scan` (`Counting`), and the order of the last write needs that an execution
at its last step has announced its end (`Announcing`); with the types and what
rows inherit from executions these are `RunInv`, which is inductive
(`RunInductive`). One lemma per shape of step (goto, row update, both, finish,
report) carries each action.

`LocalScanProofs` proves, for any sets of scans, launchers and cancellers, any
quota and pool, database errors, cancellations at any time and any number of
restarts:

* `RegistryIsBackedHolds`, `RunningIsRegisteredHolds`: the registry neither keeps
  a scan nobody will take out nor misses one that executes;
* `OvershootBoundedHolds`: the quota is overshot by less than the number of
  launchers;
* `LiveRowIsOwnedHolds`: a row that says queued or running has an owner, unless
  the database failed its execution;
* `CancelStopsRequestsHolds`: after the event is set one more request is sent at
  most;
* and, assuming `Cancellers = {}`: `TerminalIsQuietHolds`, and
  `FollowsLifecycleHolds`, that `LocalScan` implements `ScanLifecycle`.

The argument. The registry, the future, the pool's queue, the execution and the
request that launched it may be several steps apart; `ScanInv(s)` says for one
scan which combinations occur (nothing before `submit`; registered and unhooked
while the request tracks and hooks it; then a hook that waits for a result, or
nothing registered). It is inductive because a scan has one row, so one request
that places it (`HttpInv`), and is in the queue at most once. A lemma per action
shows the scan it is about, and `Alone` carries the others: a step leaves alone
what `ScanInv` looks at. What `run_scan` does inside its execution matters only
as a move of one execution (`StepMoves`). The quota needs the threads that have
passed the check and not yet registered to be counted as slots (`QuotaInv`); the
owners of a row need where each future stands (`LiveInv`); a stopping execution
has used its one request when it is past the charge, and a scan that died in a
restart can never be placed again (`Stopping`). Without cancellers the status is a
function of those places (`QuietScan`), so each write of it is a step of the
lifecycle.

The order of deliveries (`FirstDeliveryInOrderHolds`, `RetriesFirstHolds`, in
`ReliableQueueProofs`) needs no assumption on the faults. Its invariant
(`OrderInv`, theorem `OrderInductive`): the jobs delivered so far are the first
`f` that were sent, and the queue is some jobs that came back followed by the
others in the order in which they were sent (`Split(f, r)`); whoever holds or
recovers a job, it was delivered. A push at the head, a delivery and an enqueue
each move `f` or `r` by one.

`DistributedScanProofs` proves, for any finite set of scans, any workers and threads of the
web process, any quota, scanners and budget:

* `ImplementsQueue`: whatever fails, `DistributedScan` implements `ReliableQueue`
  with its scans as jobs, so every theorem about the queue holds of the whole;
* `OneExecutionHolds`, if the heartbeats are kept: two executions never write to
  the row of one scan;
* `ActiveIsBackedHolds`, if moreover recovery is not torn and the web process does
  not die between the row and the job: a row that says queued or running has a
  job that someone holds or will recover, or a request about to enqueue it;
* `CancelIsRememberedHolds`, under every combination of faults: once the row
  carries the request to cancel, no execution of the scan begins.

The argument. The invariant `JobInv` ties the three programs that run in a worker
together: `process_job` is somewhere exactly while the loop is in it, `run_scan`
executes exactly between its call and its end, on the job the worker has
reserved (`InStage`), and a job is acknowledged only when its row is settled
(`AckedIsSettled`). With it, one holder of a job (the queue's `IInv`) is one
execution of a scan; and since the queue only forgets a job that is acknowledged
(`SomewhereStays`), a row that is not settled keeps its job (`CoveredStep`). That
a cancellation is remembered rests on the row alone: `Admit` reads it, and no
write takes `cancelRequested` back. The module gets the theorems of the queue
through `P == INSTANCE ReliableQueueProofs WITH Jobs <- Scans`; this is why
`DistributedAssumption` contains what the queue assumes of its constants.

The other proof modules hold for any constants that satisfy the assumption of
their module:

* `TargetPolicy`: `RequestsInScopeHolds`. The invariant (`PolicyInv`):
  nothing is requested before a url was accepted and checked; while a request is
  on its way the current url is authorized; if redirects are followed, the url
  came from an input and the origin they are compared with is the target's; there
  are no more requests than hops. That a handshake is checked under another scheme than it uses does
  not matter, because the check looks at host and credentials (lemma
  `CheckedIsAuthorized`).
* `Admission`: `AdmissionIsEarnedHolds`. The invariant: a thread past the
  check of the scopes is in `covered`, whatever happened to the scopes since, and
  what it checked before and after it belongs to the request it carries.
* `Scanners`: `StopIsPassedOnHolds` and `SafetyIsObservedHolds`, for every
  input and answer of all scanners. Each scanner but three ends in one of the two
  common handlers, with which a refusal is raised and no failure is safe
  (`Handlers`). For the three that keep failures to themselves the history counts,
  by `ExchangeInv` (every answer is one to the request asked for after the answers
  before it): `websocket_scanner` asks once, and judges that answer; a refusal of
  `grpc_scanner` comes before its verdict whatever was skipped; and
  `modern_spa_scanner` asks for no page after one that kept a refusal, so a
  refusal that is not raised was met on the last page. What the theorems allow as
  exceptions are the behaviours of section 6.
* `Oast`: `VerdictMatchesCallbacksHolds` and `NothingLeaksHolds`. The invariant
  (`Sequence`, for each probe): until the cleanup a callback to either token stays
  recorded, nothing is read that was not recorded, and the token that is proof is
  read first; so a callback that came before that read is seen by it or by the
  one after it.
* `Crawler`: `NavigationIsAuthorizedHolds` and `FatalStopsNavigationHolds`: a
  page is asked for only when the guard let the first request of its document
  through, and whatever it redirects to, what is taken from it passes `safe_url`
  (`CrawlInv`). `FrontierBoundedHolds`, by the invariant `FrontierInv`: what waits was
  noted, waits once and was not visited, and together with the visited pages
  stays within the limit; it is an invariant of the fold over the links of a page.
* `Accounts`: `RegisteredIsOwnerHolds` and `RefusalIsEarnedHolds`
  (`AccountInv`). The lists of moments lose entries when calls interleave, so
  they cannot be said to equal what was admitted; what is inductive is that no
  moment is in a list, or in a thread's copy of it, more often than calls were
  let through at it (`Backed`), so a full copy means that as many calls passed.
* `Learning`: `ProfileMatchesHolds` (`LearningInv`). The request that holds the
  lock is the only one past its first statement, and it takes its date under the
  lock, so its date is not before any that was committed; the points are a sum
  over the lessons of which one post changes one term.
* `Results`: `ViewsAgreeHolds` and `CacheIsBoundedHolds` (`ResultsInv`). Each
  view counts the same results under another name; the counts are compared by
  induction over the list. The cache makes room before it adds a key, and adds
  it only where it is not there yet.
* `Scanners`: `ReportDependsOnProbeHolds`, from `ExchangeInv` again.
  All requests of `sql_injection` and `html_injection` go to one place, so all
  answers are equal, and equal answers show neither a new error nor a
  difference. The requests of `xss` go to several places; a payload and its
  baseline are in one block of answers (`BlockStart`), so at one place. Two
  hypotheses say what an answer is: `SqlAnswers`, that it has a body and a status
  code, and `HtmlAnswers`, that the element the parser found live is the markup
  that was sent, letter by letter. The second is a restriction: `html_injection`
  compares the parsed element of one answer with the raw markup of the other, so
  it would report a target that writes such an element, with the token it was
  sent but in its own markup, into every answer.

*Sums and folds.* `FoldProofs` proves what the community modules' sums and folds
return. They are recursive functions on the subsets of a set, so the module first
shows, by induction on the size of the subsets, that a function with the recursive
equation exists, and derives the rest from the equation. The induction theorems of
the library take an operator, which the provers cannot instantiate; here an
induction is over the set of the naturals, subsets or lists that have the
property (`Induction`, `SubsetInduction`, `SeqInduction`). `SelectSeq` is not
known to the prover; `Keep` of `Lists` takes its place in the models.

*Only model-checked:* the liveness properties (`EventuallyCompleted`,
`EveryScanEnds`, `SlotReleased`, `CancelledScanStops`, `CrawlFinishes`): TLAPS
proves no liveness under fairness and has no `ENABLED`. Every other property of
the passing runs is a theorem. No module declares a recursive operator.

## 6. Where the code differs from what is written about it

Runs that TLC is expected to refute:

* `RQ_stop_held`: `docs/ARCHITECTURE_AR.md:46` says a job stays in Processing until
  `run_scan` has ended. On SIGTERM the heartbeat thread ends at once
  (`worker.py:76`), the job does not; after the TTL another worker takes it.
* `RQ_torn_lost`: `README.md:134` says the job of a stopped worker returns to the
  queue. `recover_abandoned` pops and pushes with two commands
  (`distributed_queue.py:120-121`); death in between loses the job.
* `LS_stuck`: `docs/ARCHITECTURE_AR.md:66` gives `cancelling -> cancelled`.
  `cancel_scan` writes `cancelling` over a terminal status written since it read
  the row (`app.py:1759`), and nothing resolves it.

* `SC_silence`: `PROJECT_CONTEXT_FOR_CHATGPT.md:139` says missing setup is no
  proof of safety, and `README.md:72` that `inconclusive` is for checks without
  enough to judge. `inspect_grpc_reflection` (`services/grpc_support.py:124`)
  takes every failure of the connection for a server without reflection, and
  `grpc_scanner.py:61` says `not_vulnerable` with high confidence.
  `modern_spa_scanner` has the same defect: a page whose navigation timed out is
  a visited page (`browser_crawler.py:239-253`), and one such page is enough for
  `not_vulnerable` (`modern_spa_scanner.py:152`).

Seen while choosing the faults of the other runs, and the reason why their
instances leave a fault out:

* the quota is checked before the scan is registered: concurrent requests exceed
  it, by at most their number (`OvershootBounded`);
* `cancel_scan` can write `cancelled` from a stale `queued` while the scan
  executes, so `TerminalIsQuiet` is checked without cancellers;
* a worker that dies after the last write of `run_scan` and before `acknowledge`
  has its job executed again although the row is terminal: `process_job` asks
  for a cancellation only;
* a web process that dies between the insertion of the row and `enqueue` leaves
  a `queued` row without a job, which counts against the quota for ever;
* a web process that dies between `request_cancel` and the update of the row,
  together with a stop that lets a job run twice: the refused redelivery clears
  the key, the first execution writes `running` over `cancelled`, and if it then
  crashes the row stays `running` (`DS_live` has no `stop`);
* with `lapse`, `delete(key)` at the end of a recovery drops a job its live owner
  reserved since the last `RPOP`;
* an exception the crawler's guard keeps while the last page is open is never
  raised (`browser_crawler.py:229-231`): the crawl ends as if it were complete, and
  `modern_spa_scanner` tells a result after a cancellation, although
  `docs/SCANNER_MATRIX_AR.md:44` says that cancellation and budget are always
  raised; `run_scan` finds the cancellation before the next scanner. This is the
  exception in `StopIsPassedOn`;
* redirects of a document are followed by the browser: the route handler sees the
  first url of the chain only, so a page of the target that redirects to another
  host is opened there, and its links are searched (`browser_crawler.py:192`,
  `237`, `254`). Its links and forms pass `safe_url`; that no other host is opened
  does not hold, so `NavigationIsAuthorized` speaks of what is asked for;
* `blind_xss` plants the execution token in clear (`blind_xss.py:62`) and
  `oast_callback` records a hit for any registered token (`app.py:1776`), so a
  confirmed verdict shows that the url of the execution was requested, and not
  that a browser ran the script;
* `is_rate_limited` loses timestamps when its calls interleave: a thread that
  read the list early stores it late, without the calls admitted since, so the
  limit can be exceeded, and by more than the number of threads. No document
  promises it for concurrent requests; what holds is that a refusal is earned;
* two registrations of one email that both find it free: the second ends in an
  unhandled `IntegrityError` (status 500) instead of 409;
* a lesson posted with `watched` false is unwatched again, and with it the points
  and the certificate;
* callbacks of a probe in a worker reach the web process, whose registry does not
  know the token and answers 404: `Oast` is one process, the local backend;
* with `reserve_lost`, a job waits in the list of a live worker that does not
  know of it, until that worker ends (so `RQ_live` has no `reserve_lost`).

Seen while translating the scanners, the policy and the results, each modelled
as the code has it:

* `path_traversal` has no baseline: a page that always shows the marker of
  `/etc/passwd` is confirmed, so `ReportDependsOnProbe` is about
  `sql_injection`, `xss` and `html_injection`;
* `docs/SCANNER_MATRIX_AR.md:28` lists a differential SQL injection as Confirmed,
  the code reports it as `potential`;
* the GET forms `xss` finds in a page may have an action of another origin
  (`xss.py:265-266`), and an operation of an OpenAPI contract a path that is a url
  of its own (`api_discovery.py:306`); the first check that meets them is
  `safe_request`'s, on the address, and not on the origin;
* candidates of the authorization matrix and websockets of a page are compared
  with the target by hostname only, so another port of the host is asked;
* `oidc_scanner` and `openapi_scanner` compare the hostname of their document
  only; their inputs have passed `normalize_scanner_inputs` before
  (`app.py:686-745`, called at 1662), which compares the origin, so the weaker
  check finds nothing more;
* a redirect to a url with an unparsable port raises `ValueError` where an origin
  is compared; `safe_request` does not catch it, the scanner reports an error;
* lines 170-177 of `auth_scanner.py` and 365-378 of `xss.py` are unreachable;
* the `ValueError` branch of `oidc_scanner` reports 0 requests although one may
  have been sent;
* `PROJECT_CONTEXT_FOR_CHATGPT.md:135` says `is_finding` counts errors as
  findings; `app.py` no longer does;
* with `REQUIRE_TARGET_SCOPE` off, deleting the last scope opens every host
  again; and a scope deleted after the admission stops no queued scan, so
  `AdmissionIsEarned` speaks of some time since the request came;
* two threads that compute the same analysis: the second store evicts an entry
  although it adds none.

## 7. What is not modelled

* Text: what a body has to contain for a marker, a context, a database error or
  a similarity is part of an answer. The expansion of an OpenAPI document
  (`parse_openapi_document`, `_sample_from_schema`) is a recursive function of
  the document without a state; the model takes its list of endpoints as given.
* Sessions, API tokens and CSRF: one comparison per request, no state that
  another request changes in between.
* The layout of exports (JSON, CSV, SARIF, HAR, PDF), the dashboard, the texts of
  the assistant, scripts and deployment files.
* What libraries do inside a call: redirects inside the websocket client, changes
  of a host's addresses between the check and the connection (`TargetPolicy`
  assumes they do not change).
* The crawler's inventory of requests and errors.
* Redis and SQLite themselves: a command or a statement is atomic and durable.
  Two web processes, and two users sharing the pool, are not composed.

## 8. Plan

Done: 1. `ReliableQueue`, `JobPool`; 2. `ScanRun`; 3. `LocalScan`,
`ScanLifecycle`; 4. `DistributedScan`; 5. `Crawler`, `Oast`, `Accounts` and
`Learning`; 6. the scanners; 7. `TargetPolicy`, `Admission`, `Results`; 8. the
proofs of section 5.

Done with the proofs: every safety and action property of the passing runs.

Next, in this order:

9. proofs: the part of liveness that is safety (a measure that decreases with
   each step of the crawler and of `run_scan`); `ExclusiveExecution` when a
   worker is stopped whose job ends before its heartbeat does;
10. the quota of the local backend together with that of Redis, for two web
    processes;
11. sessions and API tokens against running scans (a revoked token, a changed
    password), if the code gains state there.
