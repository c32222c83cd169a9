SPECIFICATION Spec
CONSTANTS
  e1 = e1
  e2 = e2
  u1 = u1
  u2 = u2
  Urls <- AllUrls
  Target = "t"
  OnHost <- HostUrls
  SameOrigin <- OriginUrls
  Public <- PublicUrls
  LeadsTo <- RedirectUrls
  LinkLists <- Links
  Requests <- PageRequests
  AllowWrites = FALSE
  MaxPages = 2
  Factor = 2
  CrawlBudget = 3
  Probes = {p1, p2}
  Xss = {p1}
  Clients = {c1, c2}
  Passwords = {pw1, pw2}
  NoUser = NoUser
  LimitMax = 2
  Window = 2
  LastTick = 3
  MaxCalls = 3
  Students = {r1, r2}
  Lessons = {l1, l2}
  Scores = {0, 70}
  LastDay = 3
  Bodies <- MCBodies
  Likeness <- MCLikeness
  QuoteProbes = 2
  BooleanPairs = 1
  XssPayloads = 2
  CommonParams = 1
  OsProbes = 2
  LoginAttempts = 4
  RateAttempts = 4
  DefaultPaths = 2
  MaxPaths = 3
  Inputs <- MCInputs
  Answers <- MCAnswers
  PolicyUrls <- MCUrls
  ScanTarget <- TheTarget
  Callbacks <- TheCallback
  Addresses <- MCAddresses
  AllowPrivate = FALSE
  MaxRedirects = 2
  NoHost = "none"
  NoPort = NoPort
  ScopeUsers = {u1, u2}
  Hostnames <- MCHosts
  Subdomain <- MCSubdomain
  Resolvable = {"d", "www.d"}
  AllowedHosts <- MCAllowed
  RequireScope = FALSE
  AllowInsecureTls = FALSE
  MaxBudget = 20
  MaxProfiles = 4
  Launches <- MCLaunches
  LaunchThreads = {t1, t2}
  MaxScopes = 2
  RawResults <- MCRaw
  MaxResults = 3
  AiThreads = {a1, a2}
  CacheMax = 2
  AiMax = 2
  None = None
  Scans = {s1}
  Execs <- MCExecs
  Total = 2
  Budget = 2
  DbErrors = TRUE
INVARIANTS
  FrontierBounded
  NavigationIsAuthorized
  VerdictMatchesCallbacks
  NothingLeaks
  RegisteredIsOwner
  ProfileMatches
  ReportDependsOnProbe
  StopIsPassedOn
  SafetyIsObserved
  RequestsInScope
  AdmissionIsEarned
  ViewsAgree
  CacheIsBounded
  DoneIsComplete
  BudgetRespected
  TerminalIsAnnounced
PROPERTIES
  FatalStopsNavigation
  RefusalIsEarned
  CrawlFinishes
CHECK_DEADLOCK FALSE
