------------------------------ MODULE Admission ------------------------------
(***************************************************************************)
(* What a scan must pass before a row is created for it (scan_live,        *)
(* src/app.py), and the scopes of the users, which other requests add and  *)
(* delete meanwhile.  What follows is in LocalScan and DistributedScan.    *)
(*                                                                         *)
(* A hostname is a value; Subdomain relates it to the patterns it ends     *)
(* with, after a dot.                                                      *)
(***************************************************************************)
EXTENDS Integers, Sequences, FiniteSets

CONSTANTS
  ScopeUsers,
  Hostnames,
  Subdomain,        \* pairs <<host, pattern>>
  Resolvable,       \* the hosts whose addresses validate_target_url accepts
  AllowedHosts,     \* SCAN_ALLOWED_HOSTS: a set of [pattern, wildcard]
  RequireScope,     \* REQUIRE_TARGET_SCOPE
  AllowInsecureTls,
  MaxBudget,        \* MAX_REQUEST_BUDGET
  MaxProfiles,      \* 4
  Launches,         \* the requests for a scan that are made
  LaunchThreads,    \* the threads that serve them
  MaxScopes         \* a bound on the scopes ever added

\* A profile: its name in lower case, or "" when it is cut to nothing; the
\* access it expects; whether its headers, cookies and storage are in order.
AccessLevels == {"low", "high", "admin", "user", "anonymous", "unknown"}

ASSUME AdmissionAssumption ==
  /\ Subdomain \subseteq Hostnames \X Hostnames
  /\ Resolvable \subseteq Hostnames
  /\ AllowedHosts \subseteq [pattern : Hostnames, wildcard : BOOLEAN]
  /\ {RequireScope, AllowInsecureTls} \subseteq BOOLEAN
  /\ {MaxBudget, MaxProfiles, MaxScopes} \subseteq Nat
  /\ \A r \in Launches :
       /\ r.user \in ScopeUsers /\ r.host \in Hostnames
       /\ r.budget \in Int
       /\ {r.selected, r.authorized, r.maps, r.inputs, r.verifyTls} \subseteq BOOLEAN

VARIABLES
  scopes,      \* rows of target_scopes: [id, user, pattern, subdomains]
  scopesAdded, \* lastrowid
  launch,      \* thread -> what it serves: [pc, request]
  covered      \* history: the threads whose host was in scope since they began

admissionVars == <<scopes, scopesAdded, launch, covered>>

NoLaunch == [pc |-> "idle"]

-----------------------------------------------------------------------------
Below(h, p) == <<h, p>> \in Subdomain

configured_host_allowed(h) ==
  \/ AllowedHosts = {}
  \/ \E a \in AllowedHosts : h = a.pattern \/ (a.wildcard /\ Below(h, a.pattern))

Matches(s, h) == h = s.pattern \/ (s.subdomains /\ Below(h, s.pattern))

ScopesOf(u) == {s \in scopes : s.user = u}

AnybodysScope(u, h) == \E s \in scopes : Matches(s, h)  \* variant
target_in_user_scope(u, h) ==
  IF ScopesOf(u) = {} THEN ~RequireScope ELSE \E s \in ScopesOf(u) : Matches(s, h)

\* parse_auth_profiles
ProfilesParse(profiles) ==
  /\ Len(profiles) <= MaxProfiles
  /\ \A i \in DOMAIN profiles :
       /\ profiles[i].name # ""
       /\ \A j \in DOMAIN profiles : profiles[j].name = profiles[i].name => j = i
       /\ profiles[i].access \in AccessLevels
       /\ profiles[i].valid

\* `maps` says whether headers, cookies and storage state parse, `inputs`
\* whether normalize_scanner_inputs takes the inputs (module TargetPolicy).
RestIsValid(r) ==
  /\ r.maps
  /\ ProfilesParse(r.profiles)
  /\ r.inputs
  /\ r.budget \in 10..MaxBudget
  /\ r.verifyTls \/ AllowInsecureTls

-----------------------------------------------------------------------------
AdmissionInit ==
  /\ scopes = {}
  /\ scopesAdded = 0
  /\ launch = [t \in LaunchThreads |-> NoLaunch]
  /\ covered = {}

InScopeBy(rows, u, h) ==
  LET mine == {s \in rows : s.user = u}
  IN  IF mine = {} THEN ~RequireScope
      ELSE \E s \in mine : h = s.pattern \/ (s.subdomains /\ <<h, s.pattern>> \in Subdomain)

\* The history: the threads under way whose host is in scope now.
Note(rows, launches) ==
  covered' = {t \in LaunchThreads :
                /\ launches[t].pc # "idle"
                /\ \/ t \in covered /\ launch[t].pc # "idle"
                   \/ InScopeBy(rows, launches[t].request.user, launches[t].request.host)}

SetLaunch(t, to) ==
  /\ launch' = [launch EXCEPT ![t] = to]
  /\ Note(scopes, launch')
  /\ UNCHANGED <<scopes, scopesAdded>>

\* The checks up to the allowlist.
ReceiveLaunch(t, r) ==
  /\ launch[t].pc = "idle"
  /\ SetLaunch(t, [request |-> r,
                   pc |-> IF /\ r.selected /\ r.authorized
                             /\ r.host \in Resolvable
                             /\ configured_host_allowed(r.host)
                          THEN "scope" ELSE "refused"])

ReadScopes(t) ==
  /\ launch[t].pc = "scope"
  /\ LET r == launch[t].request
     IN  SetLaunch(t, [launch[t] EXCEPT
                         !.pc = IF target_in_user_scope(r.user, r.host) THEN "rest"
                                ELSE "refused"])

\* The rest is checked, and the row created unless the quota is reached.
AdmitLaunch(t) ==
  /\ launch[t].pc = "rest"
  /\ IF RestIsValid(launch[t].request)
     THEN \E pc \in {"admitted", "refused"} : SetLaunch(t, [launch[t] EXCEPT !.pc = pc])
     ELSE SetLaunch(t, [launch[t] EXCEPT !.pc = "refused"])

FinishLaunch(t) ==
  /\ launch[t].pc \in {"admitted", "refused"}
  /\ SetLaunch(t, NoLaunch)

-----------------------------------------------------------------------------
\* /api/scopes

\* UNIQUE(user_id, hostname_pattern)
AddScope(u, h, sub) ==
  /\ scopesAdded < MaxScopes
  /\ h \in Resolvable
  /\ ~\E s \in scopes : s.user = u /\ s.pattern = h
  /\ scopesAdded' = scopesAdded + 1
  /\ scopes' = scopes \cup {[id |-> scopesAdded', user |-> u, pattern |-> h,
                             subdomains |-> sub]}
  /\ Note(scopes', launch)
  /\ UNCHANGED launch

DeleteScope(u, id) ==
  /\ \E s \in scopes : s.id = id /\ s.user = u
  /\ scopes' = {s \in scopes : s.id # id}
  /\ Note(scopes', launch)
  /\ UNCHANGED <<scopesAdded, launch>>

AdmissionNext ==
  \/ \E t \in LaunchThreads, r \in Launches : ReceiveLaunch(t, r)
  \/ \E t \in LaunchThreads : ReadScopes(t)
  \/ \E t \in LaunchThreads : AdmitLaunch(t)
  \/ \E t \in LaunchThreads : FinishLaunch(t)
  \/ \E u \in ScopeUsers, h \in Hostnames, sub \in BOOLEAN : AddScope(u, h, sub)
  \/ \E u \in ScopeUsers, id \in 1..MaxScopes : DeleteScope(u, id)

AdmissionSpec == AdmissionInit /\ [][AdmissionNext]_admissionVars

-----------------------------------------------------------------------------
\* Properties

\* A scan is admitted only for a host that its own user's scopes covered at
\* some time since the request came, whatever is added or deleted meanwhile,
\* and that the server's allowlist covers, with the user's confirmation, a
\* budget in range and the TLS policy respected (scan_live, 1635-1671).
AdmissionIsEarned ==
  \A t \in LaunchThreads :
    launch[t].pc = "admitted" =>
      LET r == launch[t].request
      IN  /\ t \in covered
          /\ r.authorized
          /\ configured_host_allowed(r.host)
          /\ r.budget \in 10..MaxBudget
          /\ r.verifyTls \/ AllowInsecureTls
=============================================================================
