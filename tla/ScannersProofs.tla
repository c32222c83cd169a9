---------------------------- MODULE ScannersProofs ----------------------------
(***************************************************************************)
(* Proofs about Scanners, for any inputs of the scanners and whatever the  *)
(* target answers, and about Results, for any results, any number of       *)
(* threads and any bound of the cache.                                     *)
(***************************************************************************)
EXTENDS Scanners, Results, FoldProofs

(***************************************************************************)
(* The inductive invariant, the exchange: every answer is one to a request *)
(* that the scanner asked for after the answers before it, and only what   *)
(* the runtime counts is refused.                                          *)
(***************************************************************************)
ExchangeInv ==
  /\ scanner \in ScannerNames \cup {"none"}
  /\ scanner = "none" => answers = <<>>
  /\ answers \in Seq(ToSet(answers))
  /\ \A i \in DOMAIN answers :
       /\ Asked(i).do = "ask"
       /\ answers[i] \in Raised \/ answers[i] \in Answers[scanner][Asked(i).probe]
       /\ answers[i] = Refused => Asked(i).probe # "launch"

LEMMA ExchangeInit == ScannerInit => ExchangeInv
<1> SUFFICES ASSUME ScannerInit PROVE ExchangeInv
  OBVIOUS
<1>1. answers = <<>>
  BY DEF ScannerInit
<1>2. answers \in Seq(ToSet(answers)) /\ DOMAIN answers = {}
  BY <1>1
<1>3. QED BY <1>1, <1>2 DEF ExchangeInv, ScannerInit

\* What was asked before stays as it was when an answer is appended.
LEMMA ReceiveExchange ==
  ASSUME ExchangeInv, Asks, NEW a, Receive(a),
         a \in Raised \/ a \in Answers[scanner][Now.probe],
         a = Refused => Now.probe # "launch"
  PROVE  ExchangeInv'
<1> DEFINE n == Len(answers)
           S == ToSet(answers)
<1>1. scanner' = scanner /\ input' = input /\ scanner # "none" /\ answers' = Append(answers, a)
  BY DEF Asks, Receive
<1>2. answers \in Seq(S) /\ n \in Nat /\ DOMAIN answers = 1..n
  BY DEF ExchangeInv
<1>3. ToSet(answers') = S \cup {a}
  <2>1. DOMAIN answers' = 1..(n + 1)
    BY <1>1, <1>2
  <2>2. \A i \in 1..n : answers'[i] = answers[i]
    BY <1>1, <1>2
  <2>3. answers'[n + 1] = a
    BY <1>1, <1>2
  <2>4. ToSet(answers') \subseteq S \cup {a}
    BY <1>2, <2>1, <2>2, <2>3 DEF ToSet
  <2>5. S \cup {a} \subseteq ToSet(answers')
    BY <1>2, <2>1, <2>2, <2>3 DEF ToSet
  <2>6. QED BY <2>4, <2>5
<1>4. answers' \in Seq(ToSet(answers'))
  <2> HIDE DEF S
  <2>1. answers \in Seq(S \cup {a})
    BY <1>2
  <2>2. Append(answers, a) \in Seq(S \cup {a})
    BY <2>1
  <2>3. QED BY <1>1, <1>3, <2>2
<1>5. \A i \in 1..(n + 1) : SubSeq(answers', 1, i - 1) = SubSeq(answers, 1, i - 1)
  BY <1>1, <1>2
<1>6. SubSeq(answers, 1, n) = answers
  BY <1>2
<1>7. ASSUME NEW i \in DOMAIN answers'
      PROVE  /\ Asked(i)'.do = "ask"
             /\ answers'[i] \in Raised \/ answers'[i] \in Answers[scanner'][Asked(i)'.probe]
             /\ answers'[i] = Refused => Asked(i)'.probe # "launch"
  <2>1. i \in 1..(n + 1)
    BY <1>1, <1>2
  <2>2. Asked(i)' = Respond(scanner, input, SubSeq(answers, 1, i - 1))
    BY <1>1, <1>5, <2>1 DEF Asked
  <2>3. CASE i \in 1..n
    <3>1. answers'[i] = answers[i] /\ i \in DOMAIN answers
      BY <1>1, <1>2, <2>3
    <3>2. Asked(i)' = Asked(i)
      BY <2>2 DEF Asked
    <3>3. QED BY <1>1, <3>1, <3>2 DEF ExchangeInv
  <2>4. CASE i = n + 1
    <3>1. answers'[i] = a
      BY <1>1, <1>2, <2>4
    <3>2. SubSeq(answers, 1, i - 1) = answers
      <4>1. i - 1 = n
        BY <1>2, <2>4
      <4>2. QED BY <1>6, <4>1
    <3>3. Asked(i)' = Now
      BY <2>2, <3>2 DEF Now
    <3>4. QED BY <1>1, <3>1, <3>3 DEF Asks
  <2>5. QED BY <1>2, <2>1, <2>3, <2>4
<1>8. QED BY <1>1, <1>4, <1>7 DEF ExchangeInv

LEMMA ExchangeNext == ExchangeInv /\ [ScannerNext]_scannerVars => ExchangeInv'
<1> SUFFICES ASSUME ExchangeInv, [ScannerNext]_scannerVars PROVE ExchangeInv'
  OBVIOUS
<1>1. CASE UNCHANGED scannerVars
  BY <1>1 DEF scannerVars, ExchangeInv, Asked, ToSet
<1>2. CASE BeginScanner
  <2>1. answers = <<>> /\ answers' = <<>>
    BY <1>2 DEF BeginScanner, ExchangeInv
  <2>2. answers' \in Seq(ToSet(answers')) /\ DOMAIN answers' = {}
    BY <2>1
  <2>3. scanner' \in ScannerNames
    BY <1>2, ScannersAssumption DEF BeginScanner
  <2>4. "none" \notin ScannerNames
    BY DEF ScannerNames
  <2>5. QED BY <2>1, <2>2, <2>3, <2>4 DEF ExchangeInv
<1>3. CASE Answered
  BY <1>3, ReceiveExchange DEF Answered, Raised
<1>4. CASE RequestFails
  BY <1>4, ReceiveExchange DEF RequestFails, Raised, Failed, Unsafe, Refused
<1>5. CASE RequestRefused
  BY <1>5, ReceiveExchange DEF RequestRefused, Raised
<1>6. QED BY <1>1, <1>2, <1>3, <1>4, <1>5 DEF ScannerNext

-----------------------------------------------------------------------------
(* What a scanner tells, from its except clauses. *)

LEMMA StopRaises ==
  ASSUME NEW h, NEW r, Stopped(h)
  PROVE  OrError(h, r) = Tell("raised") /\ OrInvalid(h, r) = Tell("raised")
BY DEF OrError, OrInvalid

\* Scanners that let failures through to scan() tell nothing good of them.
LEMMA FailureIsNotSafe ==
  ASSUME NEW h, NEW r, AnyRaised(h)
  PROVE  /\ OrError(h, r) \in {Tell("raised"), Inconclusive, Error}
         /\ OrInvalid(h, r) \in {Tell("raised"), Inconclusive, Error}
BY DEF OrError, OrInvalid

\* The scanners that keep some of the failures.
Keeping == {"websocket_scanner", "grpc_scanner", "modern_spa_scanner"}

LEMMA Handlers ==
  ASSUME NEW s \in ScannerNames \ Keeping, NEW in, NEW h
  PROVE  \E r : Respond(s, in, h) = OrError(h, r) \/ Respond(s, in, h) = OrInvalid(h, r)
<1>1. CASE s = "sql_injection"
  <2>1. Respond(s, in, h) = OrError(h, sql_injection(in, h))
    BY <1>1 DEF Respond
  <2>2. QED BY <2>1
<1>2. CASE s = "xss"
  <2>1. Respond(s, in, h) = OrError(h, xss(in, h))
    BY <1>2 DEF Respond
  <2>2. QED BY <2>1
<1>3. CASE s = "html_injection"
  <2>1. Respond(s, in, h) = OrError(h, html_injection(in, h))
    BY <1>3 DEF Respond
  <2>2. QED BY <2>1
<1>4. CASE s = "open_redirect_scanner"
  <2>1. Respond(s, in, h) = OrError(h, open_redirect(in, h))
    BY <1>4 DEF Respond
  <2>2. QED BY <2>1
<1>5. CASE s = "host_header_scanner"
  <2>1. Respond(s, in, h) = OrError(h, host_header(in, h))
    BY <1>5 DEF Respond
  <2>2. QED BY <2>1
<1>6. CASE s = "stored_xss_scanner"
  <2>1. Respond(s, in, h) = OrError(h, stored_xss(in, h))
    BY <1>6 DEF Respond
  <2>2. QED BY <2>1
<1>7. CASE s = "path_traversal"
  <2>1. Respond(s, in, h) = OrError(h, path_traversal(in, h))
    BY <1>7 DEF Respond
  <2>2. QED BY <2>1
<1>8. CASE s = "idor"
  <2>1. Respond(s, in, h) = OrError(h, idor(in, h))
    BY <1>8 DEF Respond
  <2>2. QED BY <2>1
<1>9. CASE s = "auth_scanner"
  <2>1. Respond(s, in, h) = OrError(h, auth_scanner(in, h))
    BY <1>9 DEF Respond
  <2>2. QED BY <2>1
<1>10. CASE s = "rate_limit"
  <2>1. Respond(s, in, h) = OrError(h, rate_limit(in, h))
    BY <1>10 DEF Respond
  <2>2. QED BY <2>1
<1>11. CASE s = "weak_password_scanner"
  <2>1. Respond(s, in, h) = OrError(h, weak_password(in, h))
    BY <1>11 DEF Respond
  <2>2. QED BY <2>1
<1>12. CASE s = "csrf_scan"
  <2>1. Respond(s, in, h) = OrError(h, csrf_scan(in, h))
    BY <1>12 DEF Respond
  <2>2. QED BY <2>1
<1>13. CASE s = "clickjacking_scanner"
  <2>1. Respond(s, in, h) = OrError(h, clickjacking(in, h))
    BY <1>13 DEF Respond
  <2>2. QED BY <2>1
<1>14. CASE s = "info_scan"
  <2>1. Respond(s, in, h) = OrError(h, info_scan(in, h))
    BY <1>14 DEF Respond
  <2>2. QED BY <2>1
<1>15. CASE s = "cors_scanner"
  <2>1. Respond(s, in, h) = OrError(h, cors(in, h))
    BY <1>15 DEF Respond
  <2>2. QED BY <2>1
<1>16. CASE s = "dir_scan"
  <2>1. Respond(s, in, h) = OrError(h, dir_scan(in, h))
    BY <1>16 DEF Respond
  <2>2. QED BY <2>1
<1>17. CASE s = "file_upload"
  <2>1. Respond(s, in, h) = OrError(h, file_upload(in, h))
    BY <1>17 DEF Respond
  <2>2. QED BY <2>1
<1>18. CASE s = "authorization_matrix_scanner"
  <2>1. Respond(s, in, h) = OrError(h, authorization_matrix(in, h))
    BY <1>18 DEF Respond
  <2>2. QED BY <2>1
<1>19. CASE s = "graphql_scanner"
  <2>1. Respond(s, in, h) = OrInvalid(h, graphql(in, h))
    BY <1>19 DEF Respond
  <2>2. QED BY <2>1
<1>20. CASE s = "oidc_scanner"
  <2>1. Respond(s, in, h) = OrInvalid(h, oidc(in, h))
    BY <1>20 DEF Respond
  <2>2. QED BY <2>1
<1>21. CASE s = "openapi_scanner"
  <2>1. Respond(s, in, h) = OrInvalid(h, openapi(in, h))
    BY <1>21 DEF Respond
  <2>2. QED BY <2>1
<1>22. QED BY <1>1, <1>2, <1>3, <1>4, <1>5, <1>6, <1>7, <1>8, <1>9, <1>10, <1>11,
            <1>12, <1>13, <1>14, <1>15, <1>16, <1>17, <1>18, <1>19, <1>20, <1>21
            DEF ScannerNames, Keeping

LEMMA KeepingRespond ==
  ASSUME NEW in, NEW h
  PROVE  /\ Respond("websocket_scanner", in, h) = websocket(in, h)
         /\ Respond("grpc_scanner", in, h) = grpc(in, h)
         /\ Respond("modern_spa_scanner", in, h) = modern_spa(in, h)
<1>1. Respond("websocket_scanner", in, h) = websocket(in, h)
  BY DEF Respond
<1>2. Respond("grpc_scanner", in, h) = grpc(in, h)
  BY DEF Respond
<1>3. Respond("modern_spa_scanner", in, h) = modern_spa(in, h)
  BY DEF Respond
<1>4. QED BY <1>1, <1>2, <1>3

\* The first request is the one asked for before there was any answer, and
\* between the first two there is one answer.
LEMMA FirstAsked ==
  ASSUME ExchangeInv, answers # <<>>
  PROVE  /\ 1 \in DOMAIN answers
         /\ Asked(1) = Respond(scanner, input, <<>>)
         /\ 2 \in DOMAIN answers => Asked(2) = Respond(scanner, input, <<answers[1]>>)
         /\ \A i \in DOMAIN answers : i = 1 \/ (2 \in DOMAIN answers /\ i \in 2..Len(answers))
<1>1. answers \in Seq(ToSet(answers))
  BY DEF ExchangeInv
<1>2. Len(answers) \in Nat \ {0} /\ DOMAIN answers = 1..Len(answers)
  BY <1>1
<1>3. SubSeq(answers, 1, 1 - 1) = <<>>
  BY <1>1, <1>2
<1>4. ASSUME 2 \in DOMAIN answers
      PROVE  SubSeq(answers, 1, 2 - 1) = <<answers[1]>>
  <2> DEFINE t == SubSeq(answers, 1, 2 - 1)
  <2>1. t \in Seq(ToSet(answers)) /\ Len(t) = 1 /\ t[1] = answers[1]
    BY <1>1, <1>2, <1>4
  <2> HIDE DEF t
  <2>2. t = <<t[1]>>
    BY <2>1
  <2>3. t = <<answers[1]>>
    BY <2>1, <2>2
  <2>4. QED BY <2>3 DEF t
<1>5. 1 \in DOMAIN answers
      /\ \A i \in DOMAIN answers : i = 1 \/ (2 \in DOMAIN answers /\ i \in 2..Len(answers))
  BY <1>2
<1>6. Asked(1) = Respond(scanner, input, <<>>)
  BY <1>3 DEF Asked
<1>7. 2 \in DOMAIN answers => Asked(2) = Respond(scanner, input, <<answers[1]>>)
  BY <1>4, Zenon DEF Asked
<1>8. QED BY <1>5, <1>6, <1>7

\* websocket_scanner asks once.
LEMMA WebsocketOnce ==
  ASSUME ExchangeInv, scanner = "websocket_scanner", answers # <<>>
  PROVE  Endpoint(input) = "own" /\ DOMAIN answers = {1}
<1>1. Asked(1) = websocket(input, <<>>) /\ Asked(1).do = "ask"
  BY FirstAsked, KeepingRespond DEF ExchangeInv
<1>2. Endpoint(input) = "own"
  BY <1>1 DEF websocket, Inconclusive, Error, Tell
<1>3. ASSUME 2 \in DOMAIN answers PROVE FALSE
  <2>1. Asked(2) = websocket(input, <<answers[1]>>) /\ Asked(2).do = "ask"
    BY <1>3, FirstAsked, KeepingRespond DEF ExchangeInv
  <2>2. <<answers[1]>> # <<>>
    OBVIOUS
  <2>3. websocket(input, <<answers[1]>>).do = "tell"
    BY <2>2 DEF websocket, Inconclusive, NotVulnerable, Error, Tell
  <2>4. QED BY <2>1, <2>3
<1>4. QED BY <1>2, <1>3, FirstAsked

LEMMA GrpcReady ==
  ASSUME ExchangeInv, scanner = "grpc_scanner", answers # <<>>
  PROVE  input.target = "valid"
<1>1. Asked(1) = grpc(input, <<>>) /\ Asked(1).do = "ask"
  BY FirstAsked, KeepingRespond DEF ExchangeInv
<1>2. QED BY <1>1 DEF grpc, Inconclusive, Tell

\* The browser is there before a page is asked for, and its launch is not refused.
LEMMA BrowserReady ==
  ASSUME ExchangeInv, scanner = "modern_spa_scanner", answers # <<>>
  PROVE  /\ input.limits /\ answers[1] # Refused
         /\ 2 \in DOMAIN answers => answers[1] \notin Raised /\ answers[1].browser # "unavailable"
<1>1. Asked(1) = modern_spa(input, <<>>) /\ Asked(1).do = "ask"
  BY FirstAsked, KeepingRespond DEF ExchangeInv
<1>2. input.limits
  BY <1>1 DEF modern_spa, Inconclusive, Tell
<1>3. Asked(1) = Get("target", "launch")
  BY <1>1, <1>2 DEF modern_spa
<1>4. answers[1] # Refused
  BY <1>3, FirstAsked DEF ExchangeInv, Get, Request
<1>5. ASSUME 2 \in DOMAIN answers
      PROVE  answers[1] \notin Raised /\ answers[1].browser # "unavailable"
  <2>1. Asked(2) = modern_spa(input, <<answers[1]>>) /\ Asked(2).do = "ask"
    BY <1>5, FirstAsked, KeepingRespond DEF ExchangeInv
  <2>2. <<answers[1]>> # <<>> /\ <<answers[1]>>[1] = answers[1]
    OBVIOUS
  <2>3. QED BY <2>1, <2>2, <1>2 DEF modern_spa, Inconclusive, Error, Tell
<1>6. QED BY <1>2, <1>4, <1>5

\* What the browser scan tells once its pages are asked for.
LEMMA BrowserResponds ==
  ASSUME ExchangeInv, scanner = "modern_spa_scanner", 2 \in DOMAIN answers
  PROVE  Now = IF FatalRaised(input, answers) THEN Tell("raised")
               ELSE IF MorePages(input, answers) THEN Get("page", "page")
               ELSE IF Rendered(answers) = {} THEN Inconclusive
               ELSE IF \E i \in Rendered(answers) : answers[i].insecure_ws THEN Confirmed
               ELSE NotVulnerable
<1>1. answers # <<>>
  OBVIOUS
<1>2. input.limits /\ answers[1] \notin Raised /\ answers[1].browser # "unavailable"
  BY <1>1, BrowserReady
<1>3. Now = modern_spa(input, answers)
  BY KeepingRespond DEF Now
<1>4. QED BY <1>1, <1>2, <1>3 DEF modern_spa, NothingRendered

-----------------------------------------------------------------------------
LEMMA InvStops == ExchangeInv => StopIsPassedOn
<1> SUFFICES ASSUME ExchangeInv, StopMet
             PROVE  /\ ~Asks
                    /\ \/ Tells({"raised"})
                       \/ scanner = "modern_spa_scanner" /\ ~Stopped(answers)
  BY DEF StopIsPassedOn
<1>1. answers # <<>> /\ scanner \in ScannerNames
  <2>1. answers # <<>>
    BY DEF StopMet, Stopped, Kept, Rendered
  <2>2. QED BY <2>1 DEF ExchangeInv
<1>2. scanner # "none"
  BY <1>1 DEF ScannerNames
<1>3. ASSUME Now = Tell("raised") PROVE ~Asks /\ Tells({"raised"})
  BY <1>2, <1>3 DEF Asks, Tells, Tell
<1>4. CASE scanner \notin Keeping
  <2>1. Stopped(answers)
    BY <1>4 DEF StopMet, Keeping
  <2>2. Now = Tell("raised")
    BY <1>1, <1>4, <2>1, Handlers, StopRaises DEF Now
  <2>3. QED BY <1>3, <2>2
<1>5. CASE scanner = "websocket_scanner"
  <2>1. Stopped(answers) /\ Endpoint(input) = "own" /\ DOMAIN answers = {1}
    BY <1>1, <1>5, WebsocketOnce DEF StopMet
  <2>2. answers[1] = Refused
    BY <2>1 DEF Stopped
  <2>3. Now = websocket(input, answers)
    BY <1>5, KeepingRespond DEF Now
  <2>4. Now = Tell("raised")
    BY <1>1, <2>1, <2>2, <2>3 DEF websocket
  <2>5. QED BY <1>3, <2>4
<1>6. CASE scanner = "grpc_scanner"
  <2>1. Stopped(answers) /\ input.target = "valid"
    BY <1>1, <1>6, GrpcReady DEF StopMet
  <2>2. Now = grpc(input, answers)
    BY <1>6, KeepingRespond DEF Now
  <2>3. Now = Tell("raised")
    BY <1>1, <2>1, <2>2 DEF grpc
  <2>4. QED BY <1>3, <2>3
<1>7. CASE scanner = "modern_spa_scanner"
  <2>1. 2 \in DOMAIN answers
    <3>1. CASE Stopped(answers)
      <4>1. PICK i \in DOMAIN answers : answers[i] = Refused
        BY <3>1 DEF Stopped
      <4>2. i # 1
        BY <1>1, <1>7, <4>1, BrowserReady
      <4>3. QED BY <1>1, <4>2, FirstAsked
    <3>2. CASE Kept(answers)
      <4>1. PICK i \in 2..Len(answers) : TRUE
        BY <3>2 DEF Kept, Rendered
      <4>2. answers \in Seq(ToSet(answers))
        BY DEF ExchangeInv
      <4>3. QED BY <4>1, <4>2
    <3>3. QED BY <3>1, <3>2 DEF StopMet
  <2>2. CASE FatalRaised(input, answers)
    <3>1. Now = Tell("raised")
      BY <1>7, <2>1, <2>2, BrowserResponds
    <3>2. QED BY <1>3, <3>1
  <2>3. CASE ~FatalRaised(input, answers)
    <3>1. ~Stopped(answers) /\ ~MorePages(input, answers)
      BY <2>3 DEF FatalRaised, StopMet
    <3>2. Now \in {Inconclusive, Confirmed, NotVulnerable}
      BY <1>7, <2>1, <2>3, <3>1, BrowserResponds
    <3>3. ~Asks
      BY <3>2 DEF Asks, Inconclusive, Confirmed, NotVulnerable, Tell
    <3>4. QED BY <1>7, <3>1, <3>3
  <2>4. QED BY <2>2, <2>3
<1>8. QED BY <1>4, <1>5, <1>6, <1>7 DEF Keeping

LEMMA InvObserves == ExchangeInv => SafetyIsObserved
<1> SUFFICES ASSUME ExchangeInv, Tells({"not_vulnerable"}), AnyRaised(answers),
                    scanner # "grpc_scanner"
             PROVE  scanner = "modern_spa_scanner" /\ Rendered(answers) # {}
  BY DEF SafetyIsObserved
<1>1. /\ Now.do = "tell" /\ Now.status = "not_vulnerable"
      /\ answers # <<>> /\ scanner \in ScannerNames
  BY DEF Tells, AnyRaised, ExchangeInv
<1>2. Now \notin {Tell("raised"), Inconclusive, Error, Confirmed}
  BY <1>1 DEF Tell, Inconclusive, Error, Confirmed
<1>3. scanner \in Keeping
  <2>1. SUFFICES ASSUME scanner \notin Keeping PROVE FALSE
    OBVIOUS
  <2>2. PICK r : Now = OrError(answers, r) \/ Now = OrInvalid(answers, r)
    BY <1>1, <2>1, Handlers DEF Now
  <2>3. QED BY <1>2, <2>2, FailureIsNotSafe
<1>4. scanner # "websocket_scanner"
  <2>1. SUFFICES ASSUME scanner = "websocket_scanner" PROVE FALSE
    OBVIOUS
  <2>2. DOMAIN answers = {1} /\ Endpoint(input) = "own"
    BY <1>1, <2>1, WebsocketOnce
  <2>3. answers[1] \in Raised
    BY <2>2 DEF AnyRaised
  <2>4. Now = websocket(input, answers)
    BY <2>1, KeepingRespond DEF Now
  <2>5. Now \in {Tell("raised"), Inconclusive, Error}
    BY <1>1, <2>2, <2>3, <2>4 DEF websocket, Raised
  <2>6. QED BY <1>2, <2>5
<1>5. scanner = "modern_spa_scanner"
  BY <1>3, <1>4 DEF Keeping
<1>6. Rendered(answers) # {}
  <2>1. Now = modern_spa(input, answers)
    BY <1>5, KeepingRespond DEF Now
  <2>2. Now \in {Inconclusive, Error, Tell("raised"), Confirmed, Get("target", "launch"),
                 Get("page", "page")}
          \/ ~NothingRendered(answers)
    BY <2>1 DEF modern_spa
  <2>3. Now \notin {Get("target", "launch"), Get("page", "page")}
    BY <1>1 DEF Get, Request
  <2>4. QED BY <1>2, <2>2, <2>3 DEF NothingRendered
<1>7. QED BY <1>5, <1>6

\* Whatever the target answered before, a scanner that meets the cancellation
\* or the end of the budget sends nothing more, and raises; only the browser
\* scan may tell a result, when the guard has refused a request of the last page
\* it opened (except (ScanCancelled, RequestBudgetExceeded): raise).
THEOREM StopIsPassedOnHolds == ScannerSpec => []StopIsPassedOn
BY InvStops, ExchangeInit, ExchangeNext, PTL DEF ScannerSpec

\* Whatever the target answers and whichever request fails, a "not vulnerable"
\* needs an answer to every request; for modern_spa_scanner a page that it
\* opened or gave up waiting for, and for grpc_scanner nothing.
THEOREM SafetyIsObservedHolds == ScannerSpec => []SafetyIsObserved
BY InvObserves, ExchangeInit, ExchangeNext, PTL DEF ScannerSpec

-----------------------------------------------------------------------------
(***************************************************************************)
(* A report depends on the probe.                                          *)
(*                                                                         *)
(* The hypotheses are about the answers a target may give: those to        *)
(* sql_injection have a body and a status code; in those to html_injection *)
(* the element that the parser found as live is the markup of the probe,   *)
(* letter by letter.  A target that writes the element in other markup of  *)
(* its own is reported by html_injection whatever it was sent.             *)
(***************************************************************************)
SqlAnswers ==
  \A p \in {"benign", "payload"} :
    \A a \in Answers["sql_injection"][p] : a.body \in Bodies /\ a.code \in Int

HtmlAnswers ==
  \A p \in {"benign", "payload"} :
    \A a \in Answers["html_injection"][p] : a.element = "live" => a.raw

\* What a scanner that compares asks or tells when nothing is raised.
Scan(s, in, h) ==
  CASE s = "sql_injection" -> sql_injection(in, h)
    [] s = "xss" -> xss(in, h)
    [] s = "html_injection" -> html_injection(in, h)

\* A scanner that compares and saw a failure reports nothing; it asks and tells
\* what its scan() does otherwise.
LEMMA ComparingResponds ==
  ASSUME NEW s \in Comparing, NEW in, NEW h
  PROVE  /\ ~AnyRaised(h) => Respond(s, in, h) = Scan(s, in, h)
         /\ AnyRaised(h) => /\ Respond(s, in, h).do = "tell"
                            /\ Respond(s, in, h).status \notin Reported
<1>1. Respond(s, in, h) = OrError(h, Scan(s, in, h))
  <2>1. CASE s = "sql_injection"
    BY <2>1 DEF Respond, Scan
  <2>2. CASE s = "xss"
    BY <2>2 DEF Respond, Scan
  <2>3. CASE s = "html_injection"
    BY <2>3 DEF Respond, Scan
  <2>4. QED BY <2>1, <2>2, <2>3 DEF Comparing
<1>2. ASSUME ~AnyRaised(h) PROVE Respond(s, in, h) = Scan(s, in, h)
  <2>1. ~Stopped(h)
    BY <1>2 DEF Stopped, AnyRaised, Raised
  <2>2. QED BY <1>1, <1>2, <2>1 DEF OrError
<1>3. ASSUME AnyRaised(h)
      PROVE  Respond(s, in, h) \in {Tell("raised"), Inconclusive, Error}
  BY <1>1, <1>3, FailureIsNotSafe
<1>4. QED BY <1>2, <1>3 DEF Tell, Inconclusive, Error, Reported

\* The answers so far of a scanner that compares, none of which is a failure,
\* were asked for and given as its scan() says.
Clean(s, h) ==
  /\ h \in Seq(ToSet(h))
  /\ ~AnyRaised(h)
  /\ \A i \in DOMAIN h :
       LET r == Scan(s, input, SubSeq(h, 1, i - 1))
       IN  r.do = "ask" /\ h[i] \in Answers[s][r.probe]

LEMMA ComparingClean ==
  ASSUME ExchangeInv, scanner \in Comparing, Tells(Reported)
  PROVE  /\ Clean(scanner, answers)
         /\ Now = Scan(scanner, input, answers)
         /\ \A i \in DOMAIN answers :
              Asked(i) = Scan(scanner, input, SubSeq(answers, 1, i - 1))
<1>1. Now.do = "tell" /\ Now.status \in Reported
  BY DEF Tells
<1>2. ~AnyRaised(answers)
  BY <1>1, ComparingResponds DEF Now
<1>3. answers \in Seq(ToSet(answers))
  BY DEF ExchangeInv
<1>4. ASSUME NEW i \in DOMAIN answers
      PROVE  ~AnyRaised(SubSeq(answers, 1, i - 1))
  <2>1. i \in 1..Len(answers) /\ Len(answers) \in Nat /\ DOMAIN answers = 1..Len(answers)
    BY <1>3
  <2>2. ASSUME NEW j \in DOMAIN SubSeq(answers, 1, i - 1)
        PROVE  SubSeq(answers, 1, i - 1)[j] \notin Raised
    <3>1. j \in DOMAIN answers /\ SubSeq(answers, 1, i - 1)[j] = answers[j]
      BY <1>3, <2>1
    <3>2. QED BY <1>2, <3>1 DEF AnyRaised
  <2>3. QED BY <2>2 DEF AnyRaised
<1>5. ASSUME NEW i \in DOMAIN answers
      PROVE  Asked(i) = Scan(scanner, input, SubSeq(answers, 1, i - 1))
  BY <1>4, ComparingResponds DEF Asked
<1>6. Now = Scan(scanner, input, answers)
  BY <1>2, ComparingResponds DEF Now
<1>7. \A i \in DOMAIN answers : answers[i] \notin Raised
  BY <1>2 DEF AnyRaised
<1>8. QED BY <1>2, <1>3, <1>5, <1>6, <1>7 DEF ExchangeInv, Clean

LEMMA SelfLikeness == ASSUME NEW a, a.body \in Bodies PROVE similarity(a, a) \in Int
<1>1. Likeness[a.body][a.body] \in 0..100
  BY LikenessAssumption
<1>2. ASSUME NEW k \in 0..100 PROVE k \in Int
  OBVIOUS
<1>3. QED BY <1>1, <1>2 DEF similarity

\* If every answer is the same, no quote probe shows a new error and no pair
\* of conditions differs.
LEMMA SqlAlike ==
  ASSUME SqlAnswers, NEW in, NEW h, NEW a,
         a.body \in Bodies, a.code \in Int,
         h \in Seq(ToSet(h)), \A i \in DOMAIN h : h[i] = a,
         sql_injection(in, h).do = "tell"
  PROVE  sql_injection(in, h).status \notin Reported
<1>1. Len(h) \in Nat /\ DOMAIN h = 1..Len(h)
  OBVIOUS
<1>2. CASE ~in.param \/ Len(h) < 2
  BY <1>2 DEF sql_injection, Inconclusive, Tell, Get, Request, Reported
<1>3. CASE in.param /\ ~(Len(h) < 2)
  <2>1. h[1] = a /\ h[2] = a
    BY <1>1, <1>3
  <2>2. NewErrors(h) = {}
    BY <1>1, <2>1 DEF NewErrors, BaselineErrors
  <2>3. ~Differential(h, a, a)
    <3> DEFINE x == similarity(a, a)
    <3>1. x \in Int
      BY SelfLikeness
    <3>2. Max({x, x}) = x
      BY <3>1 DEF Max
    <3>3. QED BY <2>1, <3>1, <3>2 DEF Differential
  <2>4. QuotesAsked(h) = QuoteProbes
    BY <2>2 DEF QuotesAsked
  <2>5. ~Differs(h)
    <3>1. QuoteProbes \in Nat /\ BooleanPairs \in Nat
      BY InjectionAssumption
    <3>2. ASSUME NEW i \in 1..BooleanPairs
          PROVE  LET last == 2 + QuotesAsked(h) + 2 * i
                 IN  ~(last <= Len(h) /\ Differential(h, h[last - 1], h[last]))
      <4> DEFINE m == 2 + QuotesAsked(h) + 2 * i
      <4>1. m \in Nat /\ m - 1 \in Nat /\ m - 1 >= 1
        BY <2>4, <3>1
      <4>2. ASSUME m <= Len(h) PROVE h[m] = a /\ h[m - 1] = a
        BY <1>1, <4>1, <4>2
      <4> HIDE DEF m
      <4>3. ~(m <= Len(h) /\ Differential(h, h[m - 1], h[m]))
        BY <2>3, <4>2
      <4>4. QED BY <4>3 DEF m
    <3>3. QED BY <3>2 DEF Differs
  <2>6. QED
    BY <1>3, <2>2, <2>5
       DEF sql_injection, Inconclusive, NotVulnerable, Tell, Get, Request, Reported
<1>4. QED BY <1>2, <1>3

\* All requests of sql_injection and html_injection go to one place.
LEMMA OnePlaceOnly ==
  ASSUME NEW in, NEW h
  PROVE  /\ sql_injection(in, h).do = "ask" => /\ sql_injection(in, h).at = "param"
                                               /\ sql_injection(in, h).probe \in {"benign", "payload"}
         /\ html_injection(in, h).do = "ask" => /\ html_injection(in, h).at = "param"
                                                /\ html_injection(in, h).probe \in {"benign", "payload"}
<1>1. ASSUME sql_injection(in, h).do = "ask"
      PROVE  sql_injection(in, h) \in {Get("param", "benign"), Get("param", "payload")}
  BY <1>1 DEF sql_injection, Inconclusive, Confirmed, Potential, NotVulnerable, Tell
<1>2. ASSUME html_injection(in, h).do = "ask"
      PROVE  html_injection(in, h) \in {Get("param", "benign"), Get("param", "payload")}
  BY <1>2 DEF html_injection, Inconclusive, Confirmed, NotVulnerable, Tell
<1>3. QED BY <1>1, <1>2 DEF Get, Request

LEMMA SqlDepends ==
  ASSUME SqlAnswers, ExchangeInv, scanner = "sql_injection", Indifferent
  PROVE  ~Tells(Reported)
<1> SUFFICES ASSUME Tells(Reported) PROVE FALSE
  OBVIOUS
<1>1. scanner \in Comparing /\ \A h : Scan(scanner, input, h) = sql_injection(input, h)
  BY DEF Comparing, Scan
<1>2. Clean(scanner, answers) /\ Now = sql_injection(input, answers)
  BY <1>1, ComparingClean
<1>3. \A i \in DOMAIN answers :
        /\ Asked(i).do = "ask" /\ Asked(i) = sql_injection(input, SubSeq(answers, 1, i - 1))
        /\ answers[i] \in Answers["sql_injection"][Asked(i).probe]
  BY <1>1, <1>2, ComparingClean DEF Clean
<1>4. \A i \in DOMAIN answers : Asked(i).at = "param" /\ Asked(i).probe \in {"benign", "payload"}
  BY <1>3, OnePlaceOnly
<1>5. \A i, j \in DOMAIN answers : answers[i] = answers[j]
  BY <1>4 DEF Indifferent
<1>6. answers \in Seq(ToSet(answers))
  BY <1>2 DEF Clean
<1>7. Now.do = "tell" /\ Now.status \in Reported
  BY DEF Tells
<1>8. CASE DOMAIN answers = {}
  <2>1. Len(answers) = 0
    BY <1>6, <1>8
  <2>2. QED
    BY <1>2, <1>7, <2>1 DEF sql_injection, Inconclusive, Tell, Get, Request, Reported
<1>9. CASE DOMAIN answers # {}
  <2>1. PICK k \in DOMAIN answers : TRUE
    BY <1>9
  <2>2. answers[k].body \in Bodies /\ answers[k].code \in Int
    BY <1>3, <1>4, <2>1 DEF SqlAnswers
  <2>3. QED BY <1>2, <1>5, <1>6, <1>7, <2>1, <2>2, SqlAlike
<1>10. QED BY <1>8, <1>9

LEMMA HtmlDepends ==
  ASSUME HtmlAnswers, ExchangeInv, scanner = "html_injection", Indifferent
  PROVE  ~Tells(Reported)
<1> SUFFICES ASSUME Tells(Reported) PROVE FALSE
  OBVIOUS
<1>1. scanner \in Comparing /\ \A h : Scan(scanner, input, h) = html_injection(input, h)
  BY DEF Comparing, Scan
<1>2. Clean(scanner, answers) /\ Now = html_injection(input, answers)
  BY <1>1, ComparingClean
<1>3. \A i \in DOMAIN answers :
        /\ Asked(i).do = "ask" /\ Asked(i) = html_injection(input, SubSeq(answers, 1, i - 1))
        /\ answers[i] \in Answers["html_injection"][Asked(i).probe]
  BY <1>1, <1>2, ComparingClean DEF Clean
<1>4. \A i \in DOMAIN answers : Asked(i).at = "param" /\ Asked(i).probe \in {"benign", "payload"}
  BY <1>3, OnePlaceOnly
<1>5. answers \in Seq(ToSet(answers)) /\ Len(answers) \in Nat /\ DOMAIN answers = 1..Len(answers)
  BY <1>2 DEF Clean
<1>6. Now.do = "tell" /\ Now.status \in Reported
  BY DEF Tells
<1>7. ~(Len(answers) < 2) /\ answers[2].element = "live" /\ ~answers[1].raw
  BY <1>2, <1>6
     DEF html_injection, Inconclusive, NotVulnerable, Tell, Get, Request, Reported
<1>8. 1 \in DOMAIN answers /\ 2 \in DOMAIN answers
  BY <1>5, <1>7
<1>9. answers[1] = answers[2]
  BY <1>4, <1>8 DEF Indifferent
<1>10. answers[2].raw
  BY <1>3, <1>4, <1>7, <1>8 DEF HtmlAnswers
<1>11. QED BY <1>7, <1>9, <1>10

\* The baseline of an answer is in its block.
LEMMA BlockStart ==
  ASSUME NEW k \in Nat, k >= 1
  PROVE  /\ BaselineOf(k) \in 1..k
         /\ (BaselineOf(k) - 1) \div XssBlock = (k - 1) \div XssBlock
<1>1. XssBlock \in Nat /\ XssBlock >= 2
  BY InjectionAssumption DEF XssBlock
<1> DEFINE B == XssBlock
           m == (k - 1) % B
           d == (k - 1) \div B
<1>2. m \in Nat /\ d \in Nat /\ k - 1 = B * d + m /\ m <= k - 1
  <2> HIDE DEF B
  <2>1. B \in Nat /\ B > 0 /\ k - 1 \in Nat
    BY <1>1 DEF B
  <2>2. QED BY <2>1
<1>3. BaselineOf(k) = k - m
  BY DEF BaselineOf
<1>4. (k - m) - 1 = B * d
  <2> HIDE DEF m, d, B
  <2>1. B \in Nat
    BY <1>1 DEF B
  <2>2. QED BY <1>2, <2>1
<1>5. (B * d) \div B = d
  <2> HIDE DEF m, d, B
  <2>1. B \in Nat /\ B > 0
    BY <1>1 DEF B
  <2>2. QED BY <1>2, <2>1
<1>6. k - m \in 1..k
  <2> HIDE DEF m, d, B
  <2>1. QED BY <1>2
<1>7. QED BY <1>3, <1>4, <1>5, <1>6

LEMMA XssTells ==
  ASSUME NEW in, NEW h, xss(in, h).do = "tell", xss(in, h).status \in Reported
  PROVE  /\ ~(Discovers(in) /\ h = <<>>)
         /\ \E k \in DOMAIN XssAnswers(in, h) : XssConfirmed(XssAnswers(in, h), k)
<1>1. ~(Discovers(in) /\ h = <<>>)
  BY DEF xss, Get, Request
<1>2. CASE ~\E k \in DOMAIN XssAnswers(in, h) : XssConfirmed(XssAnswers(in, h), k)
  <2>1. \/ xss(in, h) = NotVulnerable
        \/ xss(in, h).do = "ask"
    BY <1>1, <1>2 DEF xss, Get, Request
  <2>2. QED BY <2>1 DEF NotVulnerable, Tell, Reported
<1>3. QED BY <1>1, <1>2

\* Where an answer that is not the discovery was asked for.
LEMMA XssAsks ==
  ASSUME NEW in, NEW h, xss(in, h).do = "ask", ~(Discovers(in) /\ h = <<>>)
  PROVE  xss(in, h).at = XssAt(in, h, Len(XssAnswers(in, h)) + 1)
BY DEF xss, Get, Request, Confirmed, NotVulnerable, Tell

\* The k-th answer after the discovery, and the request it answers.
Position(in, k) == IF Discovers(in) THEN k + 1 ELSE k
Before(in, h, k) == SubSeq(h, 1, Position(in, k) - 1)

LEMMA XssPlace ==
  ASSUME NEW in, NEW h, h \in Seq(ToSet(h)), ~(Discovers(in) /\ h = <<>>),
         NEW k \in DOMAIN XssAnswers(in, h)
  PROVE  /\ k \in Nat /\ k >= 1
         /\ Position(in, k) \in DOMAIN h
         /\ XssAnswers(in, h)[k] = h[Position(in, k)]
         /\ ~(Discovers(in) /\ Before(in, h, k) = <<>>)
         /\ Len(XssAnswers(in, Before(in, h, k))) + 1 = k
         /\ Discovers(in) => Before(in, h, k)[1] = h[1]
<1> USE DEF Position, Before
<1>1. Len(h) \in Nat /\ DOMAIN h = 1..Len(h)
  OBVIOUS
<1>2. CASE ~Discovers(in)
  <2>1. XssAnswers(in, h) = h /\ k \in 1..Len(h)
    BY <1>1, <1>2 DEF XssAnswers
  <2>2. Len(SubSeq(h, 1, k - 1)) + 1 = k
    BY <1>1, <2>1
  <2>3. XssAnswers(in, SubSeq(h, 1, k - 1)) = SubSeq(h, 1, k - 1)
    BY <1>2 DEF XssAnswers
  <2>4. QED BY <1>1, <1>2, <2>1, <2>2, <2>3
<1>3. CASE Discovers(in)
  <2>1. h # <<>> /\ Len(h) >= 1 /\ XssAnswers(in, h) = Tail(h)
    BY <1>1, <1>3 DEF XssAnswers
  <2>2. DOMAIN Tail(h) = 1..(Len(h) - 1) /\ \A j \in 1..(Len(h) - 1) : Tail(h)[j] = h[j + 1]
    BY <2>1
  <2>3. k \in 1..(Len(h) - 1) /\ Tail(h)[k] = h[k + 1]
    BY <2>1, <2>2
  <2> DEFINE p == SubSeq(h, 1, k)
  <2>4. p \in Seq(ToSet(h)) /\ Len(p) = k /\ p[1] = h[1] /\ p # <<>>
    BY <1>1, <2>3
  <2>5. Len(Tail(p)) + 1 = k
    BY <2>3, <2>4
  <2>6. XssAnswers(in, p) = Tail(p)
    BY <1>3 DEF XssAnswers
  <2>7. k + 1 \in 1..Len(h) /\ (k + 1) - 1 = k
    BY <1>1, <2>3
  <2> HIDE DEF p
  <2>8. SubSeq(h, 1, (k + 1) - 1) = p
    BY <2>7 DEF p
  <2>9. k \in Nat /\ k >= 1 /\ k + 1 \in DOMAIN h
    BY <1>1, <2>3, <2>7
  <2>10. Len(XssAnswers(in, p)) + 1 = k
    BY <2>5, <2>6
  <2>11. QED BY <1>3, <2>1, <2>3, <2>4, <2>8, <2>9, <2>10
<1>4. QED BY <1>2, <1>3

LEMMA XssDepends ==
  ASSUME ExchangeInv, scanner = "xss", Indifferent
  PROVE  ~Tells(Reported)
<1> SUFFICES ASSUME Tells(Reported) PROVE FALSE
  OBVIOUS
<1>1. scanner \in Comparing /\ \A h : Scan(scanner, input, h) = xss(input, h)
  BY DEF Comparing, Scan
<1>2. Clean(scanner, answers) /\ Now = xss(input, answers)
  BY <1>1, ComparingClean
<1>3. \A i \in DOMAIN answers :
        Asked(i).do = "ask" /\ Asked(i) = xss(input, SubSeq(answers, 1, i - 1))
  BY <1>1, <1>2, ComparingClean DEF Clean
<1> DEFINE q == XssAnswers(input, answers)
           At(k) == Position(input, k)
<1>4. answers \in Seq(ToSet(answers))
  BY <1>2 DEF Clean
<1>5. Now.do = "tell" /\ Now.status \in Reported
  BY DEF Tells
<1>6. /\ ~(Discovers(input) /\ answers = <<>>)
      /\ \E k \in DOMAIN q : XssConfirmed(q, k)
  BY <1>2, <1>5, XssTells
<1>7. PICK k \in DOMAIN q : XssConfirmed(q, k)
  BY <1>6
<1> DEFINE b == BaselineOf(k)
<1>8. ASSUME NEW j \in DOMAIN q
      PROVE  /\ j \in Nat /\ j >= 1 /\ At(j) \in DOMAIN answers /\ q[j] = answers[At(j)]
             /\ Asked(At(j)).at = XssAt(input, answers, j)
  <2> DEFINE i == At(j)
             p == Before(input, answers, j)
  <2>1. /\ j \in Nat /\ j >= 1 /\ i \in DOMAIN answers /\ q[j] = answers[i]
        /\ ~(Discovers(input) /\ p = <<>>)
        /\ Len(XssAnswers(input, p)) + 1 = j
        /\ Discovers(input) => p[1] = answers[1]
    BY <1>4, <1>6, XssPlace
  <2>2. Asked(i).do = "ask" /\ Asked(i) = xss(input, p)
    BY <1>3, <2>1 DEF Before
  <2> HIDE DEF i, p
  <2>3. Asked(i).at = XssAt(input, p, j)
    BY <2>1, <2>2, XssAsks
  <2>4. XssAt(input, p, j) = XssAt(input, answers, j)
    BY <2>1 DEF XssAt
  <2>5. QED BY <2>1, <2>3, <2>4 DEF i
<1>9. b \in DOMAIN q /\ (b - 1) \div XssBlock = (k - 1) \div XssBlock
  <2>1. k \in Nat /\ k >= 1
    BY <1>8
  <2>2. b \in 1..k /\ (b - 1) \div XssBlock = (k - 1) \div XssBlock
    BY <2>1, BlockStart
  <2>3. Len(answers) \in Nat /\ DOMAIN answers = 1..Len(answers)
    BY <1>4
  <2>4. DOMAIN q = IF Discovers(input) THEN 1..(Len(answers) - 1) ELSE 1..Len(answers)
    BY <1>4, <1>6 DEF XssAnswers
  <2> HIDE DEF q, b
  <2>5. b \in DOMAIN q
    BY <2>1, <2>2, <2>3, <2>4
  <2>6. QED BY <2>2, <2>5
<1>10. XssAt(input, answers, b) = XssAt(input, answers, k)
  BY <1>9 DEF XssAt
<1> HIDE DEF At, q, b
<1>11. Asked(At(b)).at = Asked(At(k)).at /\ At(b) \in DOMAIN answers /\ At(k) \in DOMAIN answers
  BY <1>8, <1>9, <1>10
<1>12. answers[At(b)] = answers[At(k)]
  BY <1>11 DEF Indifferent
<1>13. q[b] = q[k]
  BY <1>8, <1>9, <1>12
<1>14. QED BY <1>7, <1>13 DEF XssConfirmed, b

\* Of a target whose answers to the requests at one place are the same,
\* however suspicious, sql_injection, xss and html_injection report nothing:
\* for any payloads, bodies and likeness, and any number of fields.  The
\* hypotheses say what an answer to sql_injection and html_injection is.
THEOREM ReportDependsOnProbeHolds ==
  ASSUME SqlAnswers, HtmlAnswers PROVE ScannerSpec => []ReportDependsOnProbe
<1>1. ExchangeInv => ReportDependsOnProbe
  BY SqlDepends, XssDepends, HtmlDepends DEF ReportDependsOnProbe, Comparing
<1>2. QED BY <1>1, ExchangeInit, ExchangeNext, PTL DEF ScannerSpec

-----------------------------------------------------------------------------
(***************************************************************************)
(* The results of a scan.                                                  *)
(***************************************************************************)

\* An item scores points exactly when it is a finding.
LEMMA PointsOfFindings ==
  ASSUME NEW item \in Items
  PROVE  /\ ScorePoints(item) \in Nat
         /\ ScorePoints(item) > 0 <=> item \in Findings
<1>1. /\ item.severity \in Severities
      /\ item \in Findings <=> item.status \in {"confirmed", "potential"}
  BY DEF Items, Findings, is_finding
<1> DEFINE w == Weight(item.severity)
           c == Confidence(item.confidence)
           k == Factor100(item.status)
<1>2. w \in Nat /\ w > 0 /\ c \in Nat /\ c > 0 /\ k \in Nat /\ k > 0
  <2>1. w \in {40, 25, 12, 5, 1}
    BY <1>1 DEF Weight, Severities
  <2>2. c \in {100, 70, 35}
    BY DEF Confidence
  <2>3. k \in {100, 45}
    BY DEF Factor100
  <2> HIDE DEF w, c, k
  <2>4. QED BY <2>1, <2>2, <2>3
<1>3. ScorePoints(item) = IF item.status \notin {"confirmed", "potential"} THEN 0 ELSE w * c * k
  BY DEF ScorePoints
<1> HIDE DEF w, c, k
<1>4. w * c \in Nat /\ w * c > 0
  BY <1>2
<1>5. w * c * k \in Nat /\ w * c * k > 0
  <2> DEFINE d == w * c
  <2>1. d \in Nat /\ d > 0
    BY <1>4
  <2> HIDE DEF d
  <2>2. d * k \in Nat /\ d * k > 0
    BY <1>2, <2>1
  <2>3. QED BY <2>2 DEF d
<1>6. CASE item \in Findings
  BY <1>1, <1>3, <1>5, <1>6
<1>7. CASE item \notin Findings
  BY <1>1, <1>3, <1>7
<1>8. QED BY <1>6, <1>7

LEMMA Smaller ==
  ASSUME NEW a \in Int, NEW b \in Int
  PROVE  Min({a, b}) = IF a <= b THEN a ELSE b
BY DEF Min

\* The score is above 0 exactly when there is a finding.
LEMMA ScoreOfFindings ==
  ASSUME NEW items \in Seq(Items)
  PROVE  calculate_risk_score(items) > 0 <=> normalize_scan_results(items) # <<>>
<1> DEFINE f == [i \in DOMAIN items |-> ScorePoints(items[i])]
<1>1. DOMAIN items = 1..Len(items) /\ Len(items) \in Nat /\ \A i \in DOMAIN items : items[i] \in Items
  OBVIOUS
<1>2. \A i \in DOMAIN items : f[i] \in Nat /\ (f[i] > 0 <=> items[i] \in Findings)
  BY <1>1, PointsOfFindings
<1>3. calculate_risk_score(items) = Min({100 * 10000, SumFunctionOnSet(f, DOMAIN items)})
  BY DEF calculate_risk_score, SumFunction
<1> HIDE DEF f
<1>4. /\ SumFunctionOnSet(f, DOMAIN items) \in Nat
      /\ SumFunctionOnSet(f, DOMAIN items) > 0 <=> \E i \in DOMAIN items : f[i] > 0
  <2>1. IsFiniteSet(DOMAIN items)
    BY <1>1, FiniteDomain
  <2>2. QED BY <1>2, <2>1, SumPositive
<1>5. normalize_scan_results(items) # <<>> <=> \E i \in DOMAIN items : items[i] \in Findings
  BY KeepsSome DEF normalize_scan_results
<1>6. Min({100 * 10000, SumFunctionOnSet(f, DOMAIN items)}) > 0
        <=> SumFunctionOnSet(f, DOMAIN items) > 0
  <2> DEFINE sum == SumFunctionOnSet(f, DOMAIN items)
  <2>1. sum \in Int /\ 100 * 10000 \in Int /\ 100 * 10000 > 0
    BY <1>4
  <2> HIDE DEF sum
  <2>2. Min({100 * 10000, sum}) = IF 100 * 10000 <= sum THEN 100 * 10000 ELSE sum
    BY <2>1, Smaller
  <2>3. Min({100 * 10000, sum}) > 0 <=> sum > 0
    BY <2>1, <2>2
  <2>4. QED BY <2>3 DEF sum
<1>7. QED BY <1>2, <1>3, <1>4, <1>5, <1>6

At(items, s) == {i \in DOMAIN items : items[i].severity = s}

\* The distribution counts every item once.
LEMMA DistributionCounts ==
  ASSUME NEW items \in Seq(Items)
  PROVE  SumFunction(severity_distribution(items)) = Len(items)
<1> DEFINE f(r) == severity_distribution(r)
           A == {r \in Seq(Items) : SumFunctionOnSet(f(r), Severities) = Len(r)}
<1>0. \A r : DOMAIN f(r) = Severities /\ \A s \in Severities : f(r)[s] = Cardinality(At(r, s))
  BY DEF severity_distribution, At
<1>1. IsFiniteSet(Severities)
  <2>1. IsFiniteSet({})
    BY FS_EmptySet
  <2>2. IsFiniteSet({} \cup {"Critical"} \cup {"High"} \cup {"Medium"} \cup {"Low"} \cup {"Info"})
    BY <2>1, FS_AddElement
  <2>3. Severities = {} \cup {"Critical"} \cup {"High"} \cup {"Medium"} \cup {"Low"} \cup {"Info"}
    BY DEF Severities
  <2>4. QED BY <2>2, <2>3
<1>2. <<>> \in A
  <2>1. \A s \in Severities : At(<<>>, s) = {}
    BY DEF At
  <2>2. \A s \in Severities : f(<<>>)[s] = 0
    BY <1>0, <2>1, FS_EmptySet
  <2>3. SumFunctionOnSet(f(<<>>), Severities) = 0
    <3> HIDE DEF f
    <3>1. QED BY <1>1, <2>2, SumOfZeros
  <2>4. QED BY <2>3
<1>3. ASSUME NEW r \in Seq(Items), NEW y \in Items, r \in A PROVE Append(r, y) \in A
  <2> DEFINE t == Append(r, y)
  <2>1. /\ t \in Seq(Items) /\ Len(r) \in Nat /\ Len(t) = Len(r) + 1
        /\ DOMAIN t = 1..(Len(r) + 1) /\ DOMAIN r = 1..Len(r)
        /\ t[Len(r) + 1] = y /\ \A i \in 1..Len(r) : t[i] = r[i]
    OBVIOUS
  <2>2. y.severity \in Severities
    BY DEF Items
  <2> HIDE DEF t
  <2>3. ASSUME NEW s \in Severities
        PROVE  /\ Cardinality(At(r, s)) \in Nat
               /\ Cardinality(At(t, s)) = IF s = y.severity THEN Cardinality(At(r, s)) + 1
                                          ELSE Cardinality(At(r, s))
    <3>1. IsFiniteSet(At(r, s)) /\ Cardinality(At(r, s)) \in Nat
      <4>1. IsFiniteSet(1..Len(r)) /\ At(r, s) \subseteq 1..Len(r)
        BY <2>1, FiniteDomain DEF At
      <4>2. QED BY <4>1, FS_Subset, FS_CardinalityType
    <3>2. CASE s = y.severity
      <4>1. At(t, s) = At(r, s) \cup {Len(r) + 1} /\ Len(r) + 1 \notin At(r, s)
        BY <2>1, <3>2 DEF At
      <4>2. QED BY <3>1, <3>2, <4>1, FS_AddElement
    <3>3. CASE s # y.severity
      <4>1. At(t, s) = At(r, s)
        BY <2>1, <3>3 DEF At
      <4>2. QED BY <3>1, <3>3, <4>1
    <3>4. QED BY <3>2, <3>3
  <2>4. \A s \in Severities : /\ f(r)[s] \in Nat
                              /\ f(t)[s] = IF s = y.severity THEN f(r)[s] + 1 ELSE f(r)[s]
    BY <1>0, <2>3
  <2>5. SumFunctionOnSet(f(t), Severities) = SumFunctionOnSet(f(r), Severities) + 1
    <3> HIDE DEF f
    <3>1. QED BY <1>1, <2>2, <2>4, SumOneMore
  <2>6. SumFunctionOnSet(f(r), Severities) = Len(r)
    BY <1>3
  <2>7. QED BY <2>1, <2>5, <2>6 DEF t
<1>4. Seq(Items) \subseteq A
  <2> HIDE DEF A
  <2>1. QED BY <1>2, <1>3, SeqInduction
<1>5. SumFunctionOnSet(f(items), Severities) = Len(items)
  BY <1>4
<1>6. QED BY <1>0, <1>5 DEF SumFunction

\* The order of the severities tells them apart, so the highest one is that of
\* an item.
LEMMA HighestOccurs ==
  ASSUME NEW items \in Seq(Items), items # <<>>
  PROVE  severity_distribution(items)[highest_severity(items)] > 0
<1> DEFINE orders == {Order(items[i].severity) : i \in DOMAIN items}
           s == highest_severity(items)
<1>1. /\ DOMAIN items = 1..Len(items) /\ Len(items) \in Nat /\ 1 \in DOMAIN items
      /\ \A i \in DOMAIN items : items[i].severity \in Severities
  <2>1. DOMAIN items = 1..Len(items) /\ Len(items) \in Nat /\ Len(items) # 0
    OBVIOUS
  <2>2. \A i \in DOMAIN items : items[i] \in Items
    OBVIOUS
  <2>3. \A item \in Items : item.severity \in Severities
    BY DEF Items
  <2>4. QED BY <2>1, <2>2, <2>3
<1>2. /\ \A r \in Severities : Order(r) \in 0..4
      /\ \A r, t \in Severities : Order(r) = Order(t) => r = t
  <2>1. /\ Order("Critical") = 4 /\ Order("High") = 3 /\ Order("Medium") = 2
        /\ Order("Low") = 1 /\ Order("Info") = 0
    BY DEF Order
  <2>2. QED BY <2>1 DEF Severities
<1>3. orders \subseteq 0..4 /\ orders # {}
  BY <1>1, <1>2
<1>4. PICK m \in orders : \A k \in orders : m >= k
  <2> DEFINE B == {4 - k : k \in orders}
  <2> HIDE DEF orders
  <2>1. B \subseteq Nat /\ B # {}
    <3>1. \A k \in orders : k \in 0..4 /\ 4 - k \in Nat /\ 4 - k \in B
      BY <1>3
    <3>2. QED BY <1>3, <3>1
  <2>2. PICK n \in B : \A l \in B : n <= l
    <3> HIDE DEF B
    <3>1. QED BY <2>1, Least
  <2>3. PICK m \in orders : n = 4 - m
    BY <2>2
  <2>4. \A k \in orders : 4 - m <= 4 - k /\ k \in Int /\ m \in Int
    <3>1. ASSUME NEW k \in orders PROVE 4 - m <= 4 - k /\ k \in Int /\ m \in Int
      <4>1. 4 - k \in B /\ k \in Int /\ m \in Int
        BY <1>3
      <4> HIDE DEF B
      <4>2. n <= 4 - k
        BY <2>2, <4>1
      <4>3. QED BY <2>3, <4>1, <4>2
    <3>2. QED BY <3>1
  <2>5. \A k \in orders : m >= k
    BY <2>4
  <2>6. QED BY <2>3, <2>5
<1>5. Max(orders) = m
  <2> HIDE DEF orders
  <2>1. \A k \in orders : k \in Int /\ (\A l \in orders : k >= l) => k = m
    <3>1. \A k \in orders : k \in Int /\ m \in Int /\ m >= k
      BY <1>3, <1>4
    <3>2. ASSUME NEW k \in orders, \A l \in orders : k >= l PROVE k = m
      <4>1. k >= m /\ m >= k /\ k \in Int /\ m \in Int
        BY <1>4, <3>1, <3>2
      <4>2. QED BY <4>1
    <3>3. QED BY <3>1, <3>2
  <2>2. m \in orders /\ \A l \in orders : m >= l
    BY <1>4
  <2>3. QED BY <2>1, <2>2 DEF Max
<1>6. PICK i \in DOMAIN items : m = Order(items[i].severity)
  BY <1>4
<1>7. s = items[i].severity
  <2>1. s = CHOOSE r \in Severities : Order(r) = Max(orders)
    BY DEF highest_severity
  <2> HIDE DEF s, orders
  <2>2. items[i].severity \in Severities /\ Order(items[i].severity) = Max(orders)
    BY <1>1, <1>5, <1>6
  <2>3. s \in Severities /\ Order(s) = Max(orders)
    BY <2>1, <2>2
  <2>4. QED BY <1>2, <2>2, <2>3
<1> HIDE DEF s
<1>8. s \in Severities /\ i \in At(items, s)
  BY <1>1, <1>7 DEF At
<1>9. IsFiniteSet(At(items, s))
  <2>1. IsFiniteSet(1..Len(items)) /\ At(items, s) \subseteq 1..Len(items)
    BY <1>1, FiniteDomain DEF At
  <2>2. QED BY <2>1, FS_Subset
<1>10. Cardinality(At(items, s)) \in Nat /\ Cardinality(At(items, s)) # 0
  BY <1>8, <1>9, FS_CardinalityType, FS_EmptySet
<1>11. severity_distribution(items)[s] = Cardinality(At(items, s))
  BY <1>8 DEF severity_distribution, At
<1>12. QED BY <1>10, <1>11 DEF s

\* Every item is a finding, a failed or inconclusive check, or clean.
LEMMA ViewsPartition ==
  ASSUME NEW items \in Seq(Items)
  PROVE  Len(normalize_scan_results(items))
           + Len(normalize_scan_checks(items, {"error", "inconclusive"}))
           + Len(normalize_scan_checks(items, {"not_vulnerable"})) = Len(items)
<1> DEFINE E == OfStatus({"error", "inconclusive"})
           C == OfStatus({"not_vulnerable"})
           A == {r \in Seq(Items) :
                   Len(Keep(r, Findings)) + Len(Keep(r, E)) + Len(Keep(r, C)) = Len(r)}
<1>1. <<>> \in A
  <2>1. Keep(<<>>, Findings) = <<>> /\ Keep(<<>>, E) = <<>> /\ Keep(<<>>, C) = <<>>
    BY KeepOfNone
  <2>2. QED BY <2>1
<1>2. \A y \in Items : \/ y \in Findings /\ y \notin E /\ y \notin C
                       \/ y \notin Findings /\ y \in E /\ y \notin C
                       \/ y \notin Findings /\ y \notin E /\ y \in C
  BY DEF Items, Findings, OfStatus, is_finding, RawStatuses
<1>3. ASSUME NEW r \in Seq(Items), NEW y \in Items, r \in A PROVE Append(r, y) \in A
  <2> HIDE DEF E, C
  <2>1. ASSUME NEW S
        PROVE  /\ Len(Keep(r, S)) \in Nat
               /\ Len(Keep(Append(r, y), S)) = IF y \in S THEN Len(Keep(r, S)) + 1
                                               ELSE Len(Keep(r, S))
    <3>1. Keep(Append(r, y), S) = IF y \in S THEN Append(Keep(r, S), y) ELSE Keep(r, S)
      BY KeepAppend
    <3>2. Keep(r, S) \in Seq(Items \cap S)
      BY KeepType
    <3>3. y \in S => Len(Append(Keep(r, S), y)) = Len(Keep(r, S)) + 1
      BY <3>2
    <3>4. QED BY <3>1, <3>2, <3>3
  <2>2. Len(Keep(r, Findings)) + Len(Keep(r, E)) + Len(Keep(r, C)) = Len(r)
    BY <1>3
  <2>3. Len(Append(r, y)) = Len(r) + 1 /\ Append(r, y) \in Seq(Items)
    OBVIOUS
  <2>4. Len(Keep(Append(r, y), Findings)) + Len(Keep(Append(r, y), E))
          + Len(Keep(Append(r, y), C)) = Len(Append(r, y))
    <3>1. /\ Len(Keep(r, Findings)) \in Nat
          /\ Len(Keep(Append(r, y), Findings)) = IF y \in Findings THEN Len(Keep(r, Findings)) + 1
                                                 ELSE Len(Keep(r, Findings))
      BY <2>1
    <3>2. /\ Len(Keep(r, E)) \in Nat
          /\ Len(Keep(Append(r, y), E)) = IF y \in E THEN Len(Keep(r, E)) + 1
                                          ELSE Len(Keep(r, E))
      BY <2>1
    <3>3. /\ Len(Keep(r, C)) \in Nat
          /\ Len(Keep(Append(r, y), C)) = IF y \in C THEN Len(Keep(r, C)) + 1
                                          ELSE Len(Keep(r, C))
      BY <2>1
    <3>4. \/ y \in Findings /\ y \notin E /\ y \notin C
          \/ y \notin Findings /\ y \in E /\ y \notin C
          \/ y \notin Findings /\ y \notin E /\ y \in C
      BY <1>2
    <3>5. CASE y \in Findings /\ y \notin E /\ y \notin C
      BY <2>2, <2>3, <3>1, <3>2, <3>3, <3>5
    <3>6. CASE y \notin Findings /\ y \in E /\ y \notin C
      BY <2>2, <2>3, <3>1, <3>2, <3>3, <3>6
    <3>7. CASE y \notin Findings /\ y \notin E /\ y \in C
      BY <2>2, <2>3, <3>1, <3>2, <3>3, <3>7
    <3>8. QED BY <3>4, <3>5, <3>6, <3>7
  <2>5. QED BY <2>3, <2>4
<1>4. Seq(Items) \subseteq A
  <2> HIDE DEF A
  <2>1. QED BY <1>1, <1>3, SeqInduction
<1>5. QED BY <1>4 DEF normalize_scan_results, normalize_scan_checks

\* What the assistant is told of a scan it is posted in full.
LEMMA AiSees ==
  ASSUME NEW items \in Seq(Items), Len(items) <= AiMax
  PROVE  AiKey(items) = <<normalize_scan_results(items),
                          normalize_scan_checks(items, {"error", "inconclusive"})>>
<1>1. Len(items) \in Int /\ AiMax \in Int
  BY ResultsAssumption
<1>2. Min({AiMax, Len(items)}) = Len(items)
  BY <1>1, Smaller
<1>3. Posted(items) = items
  BY <1>2 DEF Posted
<1>4. OfStatus({"confirmed", "potential"}) = Findings
  BY DEF OfStatus, Findings, is_finding
<1>5. QED BY <1>3, <1>4
         DEF AiKey, AiFindings, AiOperational, normalize_scan_results, normalize_scan_checks

LEMMA NormalizedIsItem ==
  ASSUME NEW raw \in RawResults
  PROVE  normalize_scanner_result(raw) \in Items
<1>1. /\ raw.severity \in Severities \cup {"absent"} /\ raw.status \in RawStatuses
      /\ raw.confidence \in {"High", "Medium", "Low", "absent"}
  BY ResultsAssumption
<1>2. normalize_severity(raw.severity) \in Severities
  BY DEF normalize_severity, Severities
<1>3. QED BY <1>1, <1>2
         DEF normalize_scanner_result, Items, RawStatuses, Severities

-----------------------------------------------------------------------------
AiKeys == Seq(Items) \X Seq(Items)

(***************************************************************************)
(* The inductive invariant: the score is that of the results there are;    *)
(* room is made for a key before it is added, and it is added only where   *)
(* it is not yet there, whatever was stored since the lookup.              *)
(***************************************************************************)
ResultsInv ==
  /\ results \in Seq(Items)
  /\ risk = calculate_risk_score(results)
  /\ cache \in Seq(AiKeys)
  /\ \A t \in AiThreads :
       analysis[t] \in [pc : {"idle"}] \cup [pc : {"computing"}, key : AiKeys]
  /\ DOMAIN analysis = AiThreads
  /\ CacheIsBounded

LEMMA KeyType == ASSUME NEW items \in Seq(Items) PROVE AiKey(items) \in AiKeys
<1>1. Posted(items) \in Seq(Items)
  <2>1. Len(items) \in Int /\ AiMax \in Nat /\ Len(items) \in Nat
    BY ResultsAssumption
  <2>2. Min({AiMax, Len(items)}) \in 0..Len(items)
    <3>1. Min({AiMax, Len(items)}) = IF AiMax <= Len(items) THEN AiMax ELSE Len(items)
      BY <2>1, Smaller
    <3>2. QED BY <2>1, <3>1
  <2> DEFINE m == Min({AiMax, Len(items)})
  <2> HIDE DEF m
  <2>3. m \in 0..Len(items)
    BY <2>2 DEF m
  <2>4. SubSeq(items, 1, m) \in Seq(Items)
    BY <2>1, <2>3
  <2>5. QED BY <2>4 DEF Posted, m
<1>2. \A S : Keep(Posted(items), S) \in Seq(Items)
  <2>1. ASSUME NEW S PROVE Keep(Posted(items), S) \in Seq(Items)
    <3>1. Keep(Posted(items), S) \in Seq(Items \cap S)
      BY <1>1, KeepType
    <3>2. QED BY <3>1
  <2>2. QED BY <2>1
<1>3. QED BY <1>2 DEF AiKey, AiKeys, AiFindings, AiOperational

LEMMA ResultsInitInv == ResultsInit => ResultsInv
<1> SUFFICES ASSUME ResultsInit PROVE ResultsInv
  OBVIOUS
<1>1. calculate_risk_score(<<>>) = 0
  <2> DEFINE f == [i \in DOMAIN <<>> |-> ScorePoints(<<>>[i])]
  <2>1. calculate_risk_score(<<>>) = Min({100 * 10000, SumFunctionOnSet(f, {})})
    BY DEF calculate_risk_score, SumFunction
  <2> HIDE DEF f
  <2>2. SumFunctionOnSet(f, {}) = 0
    BY SumOfNone
  <2>3. Min({100 * 10000, SumFunctionOnSet(f, {})}) = SumFunctionOnSet(f, {})
    <3> DEFINE a == 100 * 10000
               b == SumFunctionOnSet(f, {})
    <3>1. a \in Int /\ b \in Int /\ ~(a <= b)
      BY <2>2
    <3> HIDE DEF a, b
    <3>2. Min({a, b}) = b
      BY <3>1, Smaller
    <3>3. QED BY <3>2 DEF a, b
  <2>4. QED BY <2>1, <2>2, <2>3
<1>2. CacheIsBounded
  BY ResultsAssumption DEF ResultsInit, CacheIsBounded
<1>3. QED BY <1>1, <1>2 DEF ResultsInit, ResultsInv

LEMMA RoomIsMade ==
  ASSUME ResultsInv
  PROVE  /\ Room \in Seq(AiKeys)
         /\ Len(Room) < CacheMax
         /\ \A i, j \in DOMAIN Room : Room[i] = Room[j] => i = j
<1>1. /\ cache \in Seq(AiKeys) /\ Len(cache) \in Nat /\ Len(cache) <= CacheMax
      /\ CacheMax \in Nat /\ CacheMax >= 1 /\ DOMAIN cache = 1..Len(cache)
      /\ \A i, j \in DOMAIN cache : cache[i] = cache[j] => i = j
  BY ResultsAssumption DEF ResultsInv, CacheIsBounded
<1>2. CASE Len(cache) >= CacheMax
  <2> DEFINE r == Tail(cache)
  <2>1. /\ r \in Seq(AiKeys) /\ Len(r) = Len(cache) - 1 /\ DOMAIN r = 1..(Len(cache) - 1)
        /\ \A i \in 1..(Len(cache) - 1) : r[i] = cache[i + 1]
    BY <1>1, <1>2
  <2> HIDE DEF r
  <2>2. ASSUME NEW i \in DOMAIN r, NEW j \in DOMAIN r, r[i] = r[j] PROVE i = j
    <3>1. i + 1 \in DOMAIN cache /\ j + 1 \in DOMAIN cache /\ cache[i + 1] = cache[j + 1]
      BY <1>1, <2>1, <2>2
    <3>2. i + 1 = j + 1
      BY <1>1, <3>1
    <3>3. QED BY <2>1, <3>2
  <2>3. Room = r
    BY <1>2 DEF Room, r
  <2>4. Len(r) < CacheMax
    BY <1>1, <2>1
  <2>5. QED BY <2>1, <2>2, <2>3, <2>4
<1>3. CASE ~(Len(cache) >= CacheMax)
  BY <1>1, <1>3 DEF Room
<1>4. QED BY <1>2, <1>3

LEMMA ResultsNextInv == ResultsInv /\ [ResultsNext]_resultVars => ResultsInv'
<1> SUFFICES ASSUME ResultsInv, [ResultsNext]_resultVars PROVE ResultsInv'
  OBVIOUS
<1>1. CASE UNCHANGED resultVars
  BY <1>1 DEF resultVars, ResultsInv, CacheIsBounded
<1>2. ASSUME NEW raw \in RawResults, ScannerReturns(raw) PROVE ResultsInv'
  <2>1. normalize_scanner_result(raw) \in Items
    BY NormalizedIsItem
  <2>2. results' \in Seq(Items) /\ risk' = calculate_risk_score(results')
    BY <1>2, <2>1 DEF ScannerReturns, ResultsInv
  <2>3. QED BY <1>2, <2>2 DEF ScannerReturns, ResultsInv, CacheIsBounded
<1>3. ASSUME NEW t \in AiThreads, LookUpAnalysis(t) PROVE ResultsInv'
  <2>1. AiKey(results) \in AiKeys
    BY KeyType DEF ResultsInv
  <2>2. \A u \in AiThreads : \/ analysis'[u] = analysis[u]
                             \/ analysis'[u] = [pc |-> "computing", key |-> AiKey(results)]
    BY <1>3 DEF LookUpAnalysis, ResultsInv
  <2>3. \A u \in AiThreads :
          analysis'[u] \in [pc : {"idle"}] \cup [pc : {"computing"}, key : AiKeys]
    BY <2>1, <2>2 DEF ResultsInv
  <2>4. QED BY <1>3, <2>3 DEF LookUpAnalysis, ResultsInv, CacheIsBounded
<1>4. ASSUME NEW t \in AiThreads, StoreAnalysis(t) PROVE ResultsInv'
  <2> DEFINE key == analysis[t].key
  <2>1. key \in AiKeys
    <3>1. analysis[t] \in [pc : {"idle"}] \cup [pc : {"computing"}, key : AiKeys]
          /\ analysis[t].pc = "computing"
      BY <1>4 DEF StoreAnalysis, ResultsInv
    <3>2. QED BY <3>1
  <2>2. cache' = IF Contains(Room, key) THEN Room ELSE Append(Room, key)
    BY <1>4 DEF StoreAnalysis
  <2> HIDE DEF key
  <2>3. cache' \in Seq(AiKeys)
    BY <2>1, <2>2, RoomIsMade
  <2>4. CacheIsBounded'
    <3>0. /\ Room \in Seq(AiKeys) /\ Len(Room) < CacheMax /\ Len(Room) \in Nat
          /\ DOMAIN Room = 1..Len(Room) /\ CacheMax \in Nat
          /\ \A i, j \in DOMAIN Room : Room[i] = Room[j] => i = j
      BY RoomIsMade, ResultsAssumption
    <3>1. CASE Contains(Room, key)
      BY <2>2, <3>0, <3>1 DEF CacheIsBounded
    <3>2. CASE ~Contains(Room, key)
      <4>1. cache' = Append(Room, key) /\ \A i \in 1..Len(Room) : Room[i] # key
        BY <2>2, <3>2 DEF Contains
      <4>2. /\ Len(cache') = Len(Room) + 1 /\ DOMAIN cache' = 1..(Len(Room) + 1)
            /\ cache'[Len(Room) + 1] = key /\ \A i \in 1..Len(Room) : cache'[i] = Room[i]
        BY <2>1, <3>0, <4>1
      <4>3. ASSUME NEW i \in DOMAIN cache', NEW j \in DOMAIN cache', cache'[i] = cache'[j]
            PROVE  i = j
        <5>1. (i \in 1..Len(Room) \/ i = Len(Room) + 1) /\ (j \in 1..Len(Room) \/ j = Len(Room) + 1)
          BY <3>0, <4>2
        <5>2. QED BY <3>0, <4>1, <4>2, <4>3, <5>1
      <4>4. Len(cache') <= CacheMax
        BY <3>0, <4>2
      <4>5. QED BY <4>3, <4>4 DEF CacheIsBounded
    <3>3. QED BY <3>1, <3>2
  <2>5. \A u \in AiThreads : analysis'[u] = analysis[u] \/ analysis'[u] = [pc |-> "idle"]
    BY <1>4 DEF StoreAnalysis, ResultsInv
  <2>6. \A u \in AiThreads :
          analysis'[u] \in [pc : {"idle"}] \cup [pc : {"computing"}, key : AiKeys]
    BY <2>5 DEF ResultsInv
  <2>7. QED BY <1>4, <2>3, <2>4, <2>6 DEF StoreAnalysis, ResultsInv
<1>5. QED BY <1>1, <1>2, <1>3, <1>4 DEF ResultsNext

\* For any results, the views of one scan tell the same story: the score, the
\* list of findings, the distribution and the assistant's key agree.
THEOREM ViewsAgreeHolds == ResultsSpec => []ViewsAgree
<1>1. ResultsInv => ViewsAgree
  <2> SUFFICES ASSUME ResultsInv PROVE ViewsAgree
    OBVIOUS
  <2> DEFINE found == normalize_scan_results(results)
  <2>1. results \in Seq(Items) /\ risk = calculate_risk_score(results)
    BY DEF ResultsInv
  <2>2. found \in Seq(Items)
    <3>1. found \in Seq(Items \cap Findings)
      BY <2>1, KeepType DEF normalize_scan_results
    <3> HIDE DEF found
    <3>2. QED BY <3>1
  <2>3. risk > 0 <=> found # <<>>
    BY <2>1, ScoreOfFindings
  <2>5. SumFunction(severity_distribution(found)) = Len(found)
    BY <2>2, DistributionCounts
  <2>6. found # <<>> => severity_distribution(found)[highest_severity(found)] > 0
    BY <2>2, HighestOccurs
  <2>7. Len(found) + Len(normalize_scan_checks(results, {"error", "inconclusive"}))
          + Len(normalize_scan_checks(results, {"not_vulnerable"})) = Len(results)
    BY <2>1, ViewsPartition
  <2>8. Len(results) <= AiMax =>
          AiKey(results) = <<found, normalize_scan_checks(results, {"error", "inconclusive"})>>
    BY <2>1, AiSees
  <2> HIDE DEF found
  <2>9. QED BY <2>3, <2>5, <2>6, <2>7, <2>8 DEF ViewsAgree, found
<1>2. QED BY <1>1, ResultsInitInv, ResultsNextInv, PTL DEF ResultsSpec

\* Whatever two threads compute and store in between, the cache of analyses
\* keeps its bound and has no key twice.
THEOREM CacheIsBoundedHolds == ResultsSpec => []CacheIsBounded
<1>1. ResultsInv => CacheIsBounded
  BY DEF ResultsInv
<1>2. QED BY <1>1, ResultsInitInv, ResultsNextInv, PTL DEF ResultsSpec
=============================================================================
