---------------------------- MODULE UserProofs ------------------------------
(***************************************************************************)
(* Proofs about what the web server keeps of its users: Admission, for any *)
(* users, hosts, allowlist and threads; Accounts, for any clients,         *)
(* passwords and limits; Learning, for any students, lessons and scores.   *)
(***************************************************************************)
EXTENDS Admission, Accounts, Learning, FoldProofs

-----------------------------------------------------------------------------
(***************************************************************************)
(* The admission of a scan.                                                *)
(***************************************************************************)

LaunchPcs == {"scope", "rest", "admitted", "refused"}

Launched == [request : Launches, pc : LaunchPcs]

\* What a thread has checked by the time it is where it is.
Earned(l) ==
  /\ l.pc \in {"scope", "rest", "admitted"} =>
       l.request.authorized /\ configured_host_allowed(l.request.host)
  /\ l.pc = "admitted" => RestIsValid(l.request)

(***************************************************************************)
(* The inductive invariant: a thread past the check of the scopes was      *)
(* covered when it was made, and later changes of the scopes do not undo   *)
(* that.                                                                   *)
(***************************************************************************)
AdmissionInv ==
  /\ launch \in [LaunchThreads -> {NoLaunch} \cup Launched]
  /\ \A t \in LaunchThreads :
       /\ Earned(launch[t])
       /\ launch[t].pc \in {"rest", "admitted"} => t \in covered

-----------------------------------------------------------------------------
\* A launch that is not idle has a request.
LEMMA BusyIsLaunched ==
  ASSUME AdmissionInv, NEW t \in LaunchThreads, launch[t].pc # "idle"
  PROVE  launch[t] \in Launched
<1>1. launch[t] \in {NoLaunch} \cup Launched
  BY DEF AdmissionInv
<1>2. launch[t] # NoLaunch
  BY DEF NoLaunch
<1>3. QED BY <1>1, <1>2

\* Moving a launch on leaves its request alone.
LEMMA MoveOn ==
  ASSUME NEW l \in Launched, NEW pc \in LaunchPcs
  PROVE  /\ [l EXCEPT !.pc = pc] \in Launched
         /\ [l EXCEPT !.pc = pc].pc = pc
         /\ [l EXCEPT !.pc = pc].request = l.request
BY DEF Launched, LaunchPcs

\* Who is under way and covered stays covered.
LEMMA NoteKeeps ==
  ASSUME NEW rows, NEW launches, Note(rows, launches), NEW t \in LaunchThreads,
         t \in covered, launch[t].pc # "idle", launches[t].pc # "idle"
  PROVE  t \in covered'
BY DEF Note

\* One thread moves: the others keep what they have earned.
LEMMA SetLaunchKeeps ==
  ASSUME AdmissionInv, NEW t \in LaunchThreads, NEW to \in {NoLaunch} \cup Launched,
         SetLaunch(t, to), Earned(to), to.pc \in {"rest", "admitted"} => t \in covered'
  PROVE  AdmissionInv'
<1>1. /\ launch' = [launch EXCEPT ![t] = to]
      /\ launch \in [LaunchThreads -> {NoLaunch} \cup Launched]
  BY DEF SetLaunch, AdmissionInv
<1>2. /\ launch' \in [LaunchThreads -> {NoLaunch} \cup Launched]
      /\ launch'[t] = to
      /\ \A u \in LaunchThreads \ {t} : launch'[u] = launch[u]
  BY <1>1
<1>3. ASSUME NEW u \in LaunchThreads
      PROVE  /\ Earned(launch[u])'
             /\ launch'[u].pc \in {"rest", "admitted"} => u \in covered'
  <2>1. CASE u = t
    BY <1>2, <2>1 DEF Earned, configured_host_allowed, RestIsValid, ProfilesParse, Below
  <2>2. CASE u # t
    <3>1. launch'[u] = launch[u]
      BY <1>2, <2>2
    <3>2. Earned(launch[u])'
      BY <3>1 DEF AdmissionInv, Earned, configured_host_allowed, RestIsValid,
                  ProfilesParse, Below
    <3>3. ASSUME launch[u].pc \in {"rest", "admitted"}
          PROVE  u \in covered'
      <4>1. u \in covered /\ launch[u].pc # "idle" /\ launch'[u].pc # "idle"
        BY <3>1, <3>3 DEF AdmissionInv
      <4>2. Note(scopes, launch')
        BY DEF SetLaunch
      <4>3. QED BY <4>1, <4>2, NoteKeeps
    <3>4. QED BY <3>1, <3>2, <3>3
  <2>3. QED BY <2>1, <2>2
<1>4. QED BY <1>2, <1>3 DEF AdmissionInv

\* Adding or deleting a scope moves no thread.
LEMMA ScopesKeep ==
  ASSUME AdmissionInv, UNCHANGED launch, NEW rows, Note(rows, launch)
  PROVE  AdmissionInv'
<1>1. ASSUME NEW u \in LaunchThreads
      PROVE  /\ Earned(launch[u])'
             /\ launch'[u].pc \in {"rest", "admitted"} => u \in covered'
  <2>1. Earned(launch[u])'
    BY DEF AdmissionInv, Earned, configured_host_allowed, RestIsValid, ProfilesParse, Below
  <2>2. ASSUME launch[u].pc \in {"rest", "admitted"}
        PROVE  u \in covered'
    <3>1. u \in covered /\ launch[u].pc # "idle"
      BY <2>2 DEF AdmissionInv
    <3>2. QED BY <3>1, NoteKeeps
  <2>3. QED BY <2>1, <2>2
<1>2. QED BY <1>1 DEF AdmissionInv

\* The scopes are read in the step that moves the thread on, so that step notes
\* that the thread is covered.
LEMMA ReadScopesCovers ==
  ASSUME AdmissionInv, NEW t \in LaunchThreads, ReadScopes(t),
         target_in_user_scope(launch[t].request.user, launch[t].request.host)
  PROVE  t \in covered'
<1> DEFINE to == [launch[t] EXCEPT !.pc = "rest"]
<1>1. launch[t].pc = "scope" /\ launch[t] \in Launched
  BY BusyIsLaunched DEF ReadScopes
<1>2. to \in Launched /\ to.pc = "rest" /\ to.request = launch[t].request
  BY <1>1, MoveOn DEF LaunchPcs
<1>3. launch' = [launch EXCEPT ![t] = to] /\ Note(scopes, launch')
  BY DEF ReadScopes, SetLaunch
<1>4. launch'[t] = to
  BY <1>3 DEF AdmissionInv
<1>5. InScopeBy(scopes, launch'[t].request.user, launch'[t].request.host)
  BY <1>2, <1>4 DEF target_in_user_scope, InScopeBy, ScopesOf, Matches, Below
<1> HIDE DEF to
<1>6. QED BY <1>2, <1>3, <1>4, <1>5 DEF Note

-----------------------------------------------------------------------------
LEMMA AdmissionInitInv == AdmissionInit => AdmissionInv
BY DEF AdmissionInit, AdmissionInv, NoLaunch, Earned

LEMMA AdmissionNextInv == AdmissionInv /\ [AdmissionNext]_admissionVars => AdmissionInv'
<1> SUFFICES ASSUME AdmissionInv, [AdmissionNext]_admissionVars PROVE AdmissionInv'
  OBVIOUS
<1>1. CASE UNCHANGED admissionVars
  BY <1>1 DEF AdmissionInv, admissionVars, Earned, configured_host_allowed, RestIsValid,
              ProfilesParse, Below
<1>2. ASSUME NEW t \in LaunchThreads, NEW r \in Launches, ReceiveLaunch(t, r)
      PROVE  AdmissionInv'
  <2> DEFINE ok == /\ r.selected /\ r.authorized
                   /\ r.host \in Resolvable
                   /\ configured_host_allowed(r.host)
  <2> DEFINE to == [request |-> r, pc |-> IF ok THEN "scope" ELSE "refused"]
  <2>1. SetLaunch(t, to)
    BY <1>2 DEF ReceiveLaunch
  <2>2. to \in Launched /\ to.request = r /\ to.pc = IF ok THEN "scope" ELSE "refused"
    BY DEF Launched, LaunchPcs
  <2>3. to.pc = "scope" => r.authorized /\ configured_host_allowed(r.host)
    BY <2>2
  <2> HIDE DEF to, ok
  <2>4. Earned(to) /\ to.pc \notin {"rest", "admitted"}
    BY <2>2, <2>3 DEF Earned
  <2>5. QED BY <2>1, <2>2, <2>4, SetLaunchKeeps
<1>3. ASSUME NEW t \in LaunchThreads, ReadScopes(t)
      PROVE  AdmissionInv'
  <2> DEFINE r == launch[t].request
             pc == IF target_in_user_scope(r.user, r.host) THEN "rest" ELSE "refused"
             to == [launch[t] EXCEPT !.pc = pc]
  <2>1. SetLaunch(t, to) /\ launch[t].pc = "scope"
    BY <1>3 DEF ReadScopes
  <2>2. launch[t] \in Launched /\ Earned(launch[t])
    BY <2>1, BusyIsLaunched DEF AdmissionInv
  <2>3. pc \in {"rest", "refused"} /\ (pc = "rest" => t \in covered')
    BY <1>3, ReadScopesCovers
  <2> HIDE DEF pc
  <2>4. to \in Launched /\ to.pc = pc /\ to.request = launch[t].request
    <3>1. pc \in LaunchPcs
      BY <2>3 DEF LaunchPcs
    <3>2. QED BY <3>1, <2>2, MoveOn
  <2> HIDE DEF to
  <2>5. Earned(to)
    BY <2>1, <2>2, <2>3, <2>4 DEF Earned
  <2>6. QED BY <2>1, <2>3, <2>4, <2>5, SetLaunchKeeps
<1>4. ASSUME NEW t \in LaunchThreads, AdmitLaunch(t)
      PROVE  AdmissionInv'
  <2>1. launch[t] \in Launched /\ Earned(launch[t]) /\ launch[t].pc = "rest" /\ t \in covered
    BY <1>4, BusyIsLaunched DEF AdmitLaunch, AdmissionInv
  <2>2. PICK pc \in {"admitted", "refused"} :
          /\ SetLaunch(t, [launch[t] EXCEPT !.pc = pc])
          /\ pc = "admitted" => RestIsValid(launch[t].request)
    BY <1>4 DEF AdmitLaunch
  <2> DEFINE to == [launch[t] EXCEPT !.pc = pc]
  <2>3. to \in Launched /\ to.pc = pc /\ to.request = launch[t].request
    <3>1. pc \in LaunchPcs
      BY <2>2 DEF LaunchPcs
    <3>2. QED BY <3>1, <2>1, MoveOn
  <2>4. SetLaunch(t, to)
    BY <2>2
  <2> HIDE DEF to
  <2>5. Earned(to)
    BY <2>1, <2>2, <2>3 DEF Earned
  <2>6. launch' = [launch EXCEPT ![t] = to] /\ Note(scopes, launch')
    BY <2>4 DEF SetLaunch
  <2>7. launch'[t] = to
    BY <2>6 DEF AdmissionInv
  <2>8. t \in covered'
    BY <2>1, <2>2, <2>3, <2>6, <2>7, NoteKeeps
  <2>9. QED BY <2>3, <2>4, <2>5, <2>8, SetLaunchKeeps
<1>5. ASSUME NEW t \in LaunchThreads, FinishLaunch(t)
      PROVE  AdmissionInv'
  <2>1. SetLaunch(t, NoLaunch) /\ Earned(NoLaunch) /\ NoLaunch.pc \notin {"rest", "admitted"}
    BY <1>5 DEF FinishLaunch, NoLaunch, Earned
  <2>2. QED BY <2>1, SetLaunchKeeps
<1>6. ASSUME NEW u \in ScopeUsers, NEW h \in Hostnames, NEW sub \in BOOLEAN, AddScope(u, h, sub)
      PROVE  AdmissionInv'
  BY <1>6, ScopesKeep DEF AddScope
<1>7. ASSUME NEW u \in ScopeUsers, NEW id \in 1..MaxScopes, DeleteScope(u, id)
      PROVE  AdmissionInv'
  BY <1>7, ScopesKeep DEF DeleteScope
<1>8. QED BY <1>1, <1>2, <1>3, <1>4, <1>5, <1>6, <1>7 DEF AdmissionNext

\* Whatever scopes are added and deleted between the checks, a scan is admitted
\* only for a host its own user's scopes covered since the request came, and
\* only after every other check (scan_live).
THEOREM AdmissionIsEarnedHolds == AdmissionSpec => []AdmissionIsEarned
<1>1. AdmissionInv => AdmissionIsEarned
  BY DEF AdmissionInv, AdmissionIsEarned, Earned, RestIsValid
<1>2. QED BY <1>1, AdmissionInitInv, AdmissionNextInv, PTL DEF AdmissionSpec

-----------------------------------------------------------------------------
(***************************************************************************)
(* Registration and login.                                                 *)
(***************************************************************************)

Moments == 0..LastTick
InWindow(now) == {at \in 0..LastTick : now - at < Window}

CallShape == [kind : Kinds, password : Passwords \cup {NoUser}, now : Moments,
              timestamps : Seq(Moments)]

\* No moment is in a list more often than calls were let through at it.
Backed(stamps, kind) == \A at \in Moments : Occurs(stamps, at) <= admitted[kind][at]

(***************************************************************************)
(* The inductive invariant.  A row was inserted only where there was none, *)
(* and no password is the mark of a missing row.  Whatever a list of       *)
(* moments loses to another thread's, it never gains what was not let      *)
(* through, and the copy that a thread counts is of its window.            *)
(***************************************************************************)
AccountInv ==
  /\ tick \in Moments
  /\ clientPc \in [Clients -> {"idle", "read", "store", "select", "hash"}]
  /\ call \in [Clients -> CallShape]
  /\ rateLimits \in [Kinds -> Seq(Moments)]
  /\ admitted \in [Kinds -> [Moments -> Nat]]
  /\ created \subseteq {account} \ {NoUser}
  /\ \A kind \in Kinds : Backed(rateLimits[kind], kind)
  /\ \A c \in Clients :
       /\ clientPc[c] # "idle" => call[c].password \in Passwords
       /\ clientPc[c] = "store" =>
            /\ call[c].timestamps \in Seq(InWindow(call[c].now))
            /\ Backed(call[c].timestamps, call[c].kind)

\* A list with one moment more, and one call more let through at it.
LEMMA AppendBacked ==
  ASSUME NEW stamps \in Seq(Moments), NEW now \in Moments, NEW f, NEW e,
         \A at \in Moments : f[at] \in Nat /\ e[at] = IF at = now THEN f[at] + 1 ELSE f[at],
         \A at \in Moments : Occurs(stamps, at) <= f[at]
  PROVE  \A at \in Moments : Occurs(Append(stamps, now), at) <= e[at]
<1> SUFFICES ASSUME NEW at \in Moments PROVE Occurs(Append(stamps, now), at) <= e[at]
  OBVIOUS
<1>1. Occurs(Append(stamps, now), at)
        = IF now = at THEN Occurs(stamps, at) + 1 ELSE Occurs(stamps, at)
  BY OccursAppend
<1>2. Occurs(stamps, at) \in Nat
  BY OccursType
<1>3. QED BY <1>1, <1>2

LEMMA RecentBacked ==
  ASSUME NEW stamps \in Seq(Moments), NEW now \in Moments
  PROVE  /\ Recent(stamps, now) \in Seq(InWindow(now)) /\ Recent(stamps, now) \in Seq(Moments)
         /\ \A at \in Moments : /\ Occurs(Recent(stamps, now), at) \in Nat
                                /\ Occurs(stamps, at) \in Nat
                                /\ Occurs(Recent(stamps, now), at) <= Occurs(stamps, at)
<1>1. Recent(stamps, now) = Keep(stamps, InWindow(now))
  BY DEF Recent, InWindow
<1>2. Keep(stamps, InWindow(now)) \in Seq(Moments \cap InWindow(now))
  BY KeepType
<1>3. Keep(stamps, InWindow(now)) \in Seq(InWindow(now))
      /\ Keep(stamps, InWindow(now)) \in Seq(Moments)
  BY <1>2
<1>4. QED BY <1>1, <1>3, OccursInKept, OccursType

LEMMA AccountsInitInv == AccountsInit => AccountInv
<1> SUFFICES ASSUME AccountsInit PROVE AccountInv
  OBVIOUS
<1>1. \A at \in Moments : Occurs(<<>>, at) = 0
  BY KeepOfNone DEF Occurs
<1>2. 0 \in Moments
  BY AccountsAssumption DEF Moments
<1>3. QED BY <1>1, <1>2
         DEF AccountsInit, AccountInv, NoCall, CallShape, Backed, Kinds, Moments

LEMMA AccountsNextInv == AccountInv /\ [AccountsNext]_accountVars => AccountInv'
<1> SUFFICES ASSUME AccountInv, [AccountsNext]_accountVars PROVE AccountInv'
  OBVIOUS
<1> USE DEF AccountInv, ClientGoto, Reply
<1>0. NoCall \in CallShape
  BY AccountsAssumption DEF NoCall, CallShape, Moments, Kinds
<1>1. CASE UNCHANGED accountVars
  BY <1>1 DEF accountVars, Backed
<1>2. CASE Tick
  BY <1>2, AccountsAssumption DEF Tick, Backed, Moments
<1>3. ASSUME NEW c \in Clients, Call(c) PROVE AccountInv'
  BY <1>3 DEF Call, CallShape, Backed
<1>4. ASSUME NEW c \in Clients, ReadStamps(c) PROVE AccountInv'
  <2> DEFINE old == rateLimits[call[c].kind]
             new == Recent(old, call[c].now)
  <2>1. call[c].kind \in Kinds /\ old \in Seq(Moments) /\ call[c].now \in Moments
    BY DEF CallShape
  <2>2. /\ new \in Seq(InWindow(call[c].now)) /\ new \in Seq(Moments)
        /\ Backed(new, call[c].kind)
    <3> HIDE DEF old
    <3>1. \A at \in Moments : Occurs(old, at) <= admitted[call[c].kind][at]
                              /\ admitted[call[c].kind][at] \in Nat
      BY <2>1 DEF old, Backed
    <3>2. /\ new \in Seq(InWindow(call[c].now)) /\ new \in Seq(Moments)
          /\ \A at \in Moments : /\ Occurs(new, at) \in Nat /\ Occurs(old, at) \in Nat
                                 /\ Occurs(new, at) <= Occurs(old, at)
      BY <2>1, RecentBacked
    <3> HIDE DEF new
    <3>3. \A at \in Moments : Occurs(new, at) <= admitted[call[c].kind][at]
      BY <3>1, <3>2
    <3>4. QED BY <3>2, <3>3 DEF Backed
  <2>3. call' = [call EXCEPT ![c].timestamps = new]
    BY <1>4 DEF ReadStamps
  <2> HIDE DEF new
  <2>4. call' \in [Clients -> CallShape]
    BY <2>2, <2>3 DEF CallShape
  <2>5. \A d \in Clients : /\ call'[d].kind = call[d].kind /\ call'[d].now = call[d].now
                           /\ call'[d].password = call[d].password
                           /\ call'[d].timestamps = IF d = c THEN new ELSE call[d].timestamps
    BY <2>3 DEF CallShape
  <2>6. QED BY <1>4, <2>2, <2>4, <2>5 DEF ReadStamps, Backed
<1>5. ASSUME NEW c \in Clients, Refuse(c) PROVE AccountInv'
  <2>1. call[c].kind \in Kinds /\ call[c].timestamps \in Seq(Moments)
    BY DEF CallShape
  <2>2. call' = [call EXCEPT ![c] = NoCall] /\ clientPc' = [clientPc EXCEPT ![c] = "idle"]
        /\ rateLimits' = [rateLimits EXCEPT ![call[c].kind] = call[c].timestamps]
    BY <1>5 DEF Refuse
  <2>3. \A kind \in Kinds : Backed(rateLimits[kind], kind)'
    BY <1>5, <2>1, <2>2 DEF Refuse, Backed
  <2>4. QED BY <1>0, <1>5, <2>1, <2>2, <2>3 DEF Refuse, Backed
<1>6. ASSUME NEW c \in Clients, Admit(c) PROVE AccountInv'
  <2> DEFINE k == call[c].kind
             now == call[c].now
             stamps == call[c].timestamps
  <2>1. k \in Kinds /\ now \in Moments /\ stamps \in Seq(Moments)
    BY DEF CallShape
  <2>2. /\ admitted' = [admitted EXCEPT ![k][now] = @ + 1]
        /\ rateLimits' = [rateLimits EXCEPT ![k] = Append(stamps, now)]
        /\ call' = [call EXCEPT ![c].now = 0, ![c].timestamps = <<>>]
        /\ clientPc' = [clientPc EXCEPT ![c] = "select"]
        /\ UNCHANGED <<account, tick, created>>
        /\ Backed(stamps, k)
    BY <1>6 DEF Admit
  <2> HIDE DEF k, now, stamps
  <2>3. admitted' \in [Kinds -> [Moments -> Nat]]
    BY <2>1, <2>2
  <2>4. \A kind \in Kinds : \A at \in Moments :
          /\ admitted[kind][at] \in Nat
          /\ admitted'[kind][at] = IF kind = k /\ at = now THEN admitted[kind][at] + 1
                                   ELSE admitted[kind][at]
    BY <2>1, <2>2
  <2>5. \A at \in Moments : Occurs(Append(stamps, now), at) <= admitted'[k][at]
    <3>1. \A at \in Moments : /\ admitted[k][at] \in Nat /\ Occurs(stamps, at) <= admitted[k][at]
                              /\ admitted'[k][at] = IF at = now THEN admitted[k][at] + 1
                                                    ELSE admitted[k][at]
      BY <2>1, <2>2, <2>4 DEF Backed
    <3>2. \A at \in Moments :
            admitted[k][at] \in Nat
              /\ admitted'[k][at] = IF at = now THEN admitted[k][at] + 1 ELSE admitted[k][at]
      BY <3>1
    <3>3. \A at \in Moments : Occurs(stamps, at) <= admitted[k][at]
      BY <3>1
    <3>4. QED BY <2>1, <3>2, <3>3, AppendBacked
  <2>6. \A s : \A kind \in Kinds :
          (\A at \in Moments : Occurs(s, at) \in Nat) /\ Backed(s, kind) =>
            \A at \in Moments : Occurs(s, at) <= admitted'[kind][at]
    BY <2>4 DEF Backed
  <2>7. \A kind \in Kinds : Backed(rateLimits[kind], kind)'
    <3>1. ASSUME NEW kind \in Kinds, kind # k, NEW at \in Moments
          PROVE  Occurs(rateLimits'[kind], at) <= admitted'[kind][at]
      BY <2>2, <2>4, <3>1 DEF Backed
    <3>2. ASSUME NEW at \in Moments PROVE Occurs(rateLimits'[k], at) <= admitted'[k][at]
      BY <2>1, <2>2, <2>5
    <3>3. QED BY <3>1, <3>2 DEF Backed
  <2>8. rateLimits' \in [Kinds -> Seq(Moments)]
    BY <2>1, <2>2
  <2>9. 0 \in Moments
    BY AccountsAssumption DEF Moments
  <2>10. call' \in [Clients -> CallShape]
    <3>1. <<>> \in Seq(Moments)
      OBVIOUS
    <3>2. \A d \in Clients :
            call'[d] = IF d = c THEN [call[d] EXCEPT !.now = 0, !.timestamps = <<>>]
                       ELSE call[d]
      BY <2>2
    <3>3. ASSUME NEW d \in Clients PROVE call'[d] \in CallShape
      <4>1. call[d] \in CallShape
        OBVIOUS
      <4>2. [call[d] EXCEPT !.now = 0, !.timestamps = <<>>] \in CallShape
        BY <2>9, <3>1, <4>1 DEF CallShape
      <4>3. QED BY <3>2, <4>1, <4>2
    <3>4. call' = [d \in Clients |-> call'[d]]
      BY <2>2
    <3>5. QED BY <3>3, <3>4
  <2>11. \A d \in Clients : /\ call'[d].password = call[d].password
                            /\ call'[d].kind = call[d].kind
                            /\ d # c => call'[d] = call[d]
    BY <2>2 DEF CallShape
  <2>12. ASSUME NEW d \in Clients, clientPc'[d] = "store"
         PROVE  /\ (call[d].timestamps \in Seq(InWindow(call[d].now)))'
                /\ Backed(call[d].timestamps, call[d].kind)'
    <3>1. d # c /\ clientPc[d] = "store"
      BY <2>2, <2>12
    <3>2. call'[d] = call[d] /\ call[d].kind \in Kinds /\ call[d].timestamps \in Seq(Moments)
      BY <2>11, <3>1 DEF CallShape
    <3>3. Backed(call[d].timestamps, call[d].kind)
      BY <3>1
    <3>4. \A at \in Moments : Occurs(call[d].timestamps, at) \in Nat
      BY <3>2, OccursType
    <3>5. \A at \in Moments : Occurs(call[d].timestamps, at) <= admitted'[call[d].kind][at]
      BY <2>6, <3>2, <3>3, <3>4
    <3>6. QED BY <3>1, <3>2, <3>5 DEF Backed
  <2>13. \A d \in Clients : clientPc'[d] # "idle" => call'[d].password \in Passwords
    BY <1>6, <2>2, <2>11 DEF Admit
  <2>14. clientPc' \in [Clients -> {"idle", "read", "store", "select", "hash"}]
    BY <2>2
  <2>15. QED BY <2>2, <2>3, <2>7, <2>8, <2>10, <2>12, <2>13, <2>14
<1>7. ASSUME NEW c \in Clients, Login(c) PROVE AccountInv'
  BY <1>0, <1>7 DEF Login, Backed
<1>8. ASSUME NEW c \in Clients, LookUp(c) PROVE AccountInv'
  BY <1>0, <1>8 DEF LookUp, Backed
<1>9. ASSUME NEW c \in Clients, InsertUser(c) PROVE AccountInv'
  <2>1. call[c].password \in Passwords /\ call[c].password # NoUser
    BY <1>9, AccountsAssumption DEF InsertUser
  <2>2. (created \subseteq {account} \ {NoUser})'
    BY <1>9, <2>1 DEF InsertUser
  <2>3. QED BY <1>0, <1>9, <2>2 DEF InsertUser, Backed
<1>10. QED BY <1>1, <1>2, <1>3, <1>4, <1>5, <1>6, <1>7, <1>8, <1>9 DEF AccountsNext

\* Whoever was told 201 owns the account, whichever registrations have found
\* the email free at the same time (register of app.py).
THEOREM RegisteredIsOwnerHolds == AccountsSpec => []RegisteredIsOwner
<1>1. AccountInv => RegisteredIsOwner
  BY DEF AccountInv, RegisteredIsOwner
<1>2. QED BY <1>1, AccountsInitInv, AccountsNextInv, PTL DEF AccountsSpec

\* The moments of a list, all of them of a window, are no more than the calls
\* let through in the window.
LEMMA CountedIsAdmitted ==
  ASSUME NEW W, W \subseteq Moments, NEW stamps \in Seq(W), NEW kind \in Kinds,
         admitted \in [Kinds -> [Moments -> Nat]], Backed(stamps, kind)
  PROVE  Len(stamps) <= LetThrough({kind}, W) /\ LetThrough({kind}, W) \in Int
<1> DEFINE occurrences == [at \in W |-> Occurs(stamps, at)]
           sums == [k \in Kinds |-> SumFunctionOnSet(admitted[k], W)]
<1>1. IsFiniteSet(W)
  <2>1. 0 \in Int /\ LastTick \in Int
    BY AccountsAssumption
  <2>2. IsFiniteSet(Moments)
    BY <2>1, FS_Interval DEF Moments
  <2>3. QED BY <2>2, FS_Subset
<1>2. SumFunctionOnSet(occurrences, W) = Len(stamps)
  <2>1. SumFunctionOnSet(occurrences, W) = Len(Keep(stamps, W))
    BY <1>1, OccurrencesAreKept
  <2>2. Keep(stamps, W) = stamps
    BY KeepAll
  <2>3. QED BY <2>1, <2>2
<1>3. SumFunctionOnSet(occurrences, W) <= SumFunctionOnSet(admitted[kind], W)
  <2>1. \A at \in W : /\ occurrences[at] \in Int /\ admitted[kind][at] \in Int
                      /\ occurrences[at] <= admitted[kind][at]
    BY OccursType DEF Backed
  <2> HIDE DEF occurrences
  <2>2. QED BY <1>1, <2>1, SumMonotone
<1>4. SumFunctionOnSet(admitted[kind], W) \in Int
  <2>1. \A at \in W : admitted[kind][at] \in Nat
    OBVIOUS
  <2>2. QED BY <1>1, <2>1, SumOfNaturals
<1>5. LetThrough({kind}, W) = SumFunctionOnSet(admitted[kind], W)
  <2>1. sums[kind] = SumFunctionOnSet(admitted[kind], W)
    OBVIOUS
  <2>2. LetThrough({kind}, W) = SumFunctionOnSet(sums, {kind})
    BY DEF LetThrough
  <2> HIDE DEF sums
  <2>3. SumFunctionOnSet(sums, {kind}) = sums[kind] + SumFunctionOnSet(sums, {kind} \ {kind})
    <3>1. IsFiniteSet({kind}) /\ kind \in {kind} /\ \A y \in {kind} : sums[y] \in Int
      BY <1>4, <2>1, FS_Singleton
    <3>2. QED BY <3>1, SumWithout
  <2>4. {kind} \ {kind} = {}
    OBVIOUS
  <2>5. SumFunctionOnSet(sums, {kind} \ {kind}) = 0
    BY <2>4, SumOfNone
  <2>6. QED BY <1>4, <2>1, <2>2, <2>3, <2>5
<1>6. QED BY <1>2, <1>3, <1>4, <1>5

LEMMA OnlyRefuse ==
  ASSUME AccountInv, AccountsNext, NEW c \in Clients, clientPc[c] = "store",
         clientPc'[c] = "idle"
  PROVE  Refuse(c)
<1> USE DEF AccountInv, ClientGoto, Reply
<1>1. ~Tick
  BY DEF Tick
<1>2. ASSUME NEW d \in Clients,
             Call(d) \/ ReadStamps(d) \/ Refuse(d) \/ Admit(d) \/ Login(d) \/ LookUp(d)
               \/ InsertUser(d)
      PROVE  d = c
  BY <1>2 DEF Call, ReadStamps, Refuse, Admit, Login, LookUp, InsertUser
<1>3. ~Call(c) /\ ~ReadStamps(c) /\ ~Admit(c) /\ ~Login(c) /\ ~LookUp(c) /\ ~InsertUser(c)
  BY DEF Call, ReadStamps, Admit, Login, LookUp, InsertUser
<1>4. QED BY <1>1, <1>2, <1>3 DEF AccountsNext

\* Nobody is turned away without cause: a refusal means that as many calls as
\* the limit allows were let through within the window before it, however the
\* calls of is_rate_limited interleave.
THEOREM RefusalIsEarnedHolds == AccountsSpec => RefusalIsEarned
<1> DEFINE Earns == \A c \in Clients : clientPc[c] = "store" /\ clientPc'[c] = "idle" =>
              LetThrough({call[c].kind}, {at \in 0..LastTick : call[c].now - at < Window})
                >= LimitMax
<1>1. AccountInv /\ [AccountsNext]_accountVars => [Earns]_accountVars
  <2> SUFFICES ASSUME AccountInv, AccountsNext, NEW c \in Clients,
                      clientPc[c] = "store", clientPc'[c] = "idle"
               PROVE  LetThrough({call[c].kind},
                                 {at \in 0..LastTick : call[c].now - at < Window}) >= LimitMax
    OBVIOUS
  <2>1. Len(call[c].timestamps) >= LimitMax
    BY OnlyRefuse DEF Refuse
  <2>2. /\ call[c].kind \in Kinds /\ call[c].timestamps \in Seq(InWindow(call[c].now))
        /\ Backed(call[c].timestamps, call[c].kind) /\ admitted \in [Kinds -> [Moments -> Nat]]
        /\ InWindow(call[c].now) \subseteq Moments
    BY DEF AccountInv, CallShape, InWindow, Moments
  <2>3. Len(call[c].timestamps) <= LetThrough({call[c].kind}, InWindow(call[c].now))
        /\ LetThrough({call[c].kind}, InWindow(call[c].now)) \in Int
    BY <2>2, CountedIsAdmitted
  <2>4. Len(call[c].timestamps) \in Int /\ LimitMax \in Int
    BY <2>2, AccountsAssumption
  <2>5. QED BY <2>1, <2>3, <2>4 DEF InWindow
<1>2. QED BY <1>1, AccountsInitInv, AccountsNextInv, PTL DEF AccountsSpec, RefusalIsEarned

-----------------------------------------------------------------------------
(***************************************************************************)
(* The progress of a student.                                              *)
(***************************************************************************)

Lesson == [watched : BOOLEAN, score : 0..100]

(***************************************************************************)
(* The inductive invariant.  The request that holds the lock is the only   *)
(* one past its first statement, so the date it takes is no earlier than   *)
(* any that was committed; until then the profile sums up what is          *)
(* committed.                                                              *)
(***************************************************************************)
LearningInv ==
  /\ today \in Nat
  /\ activeDays \subseteq 0..today
  /\ progress \in [Lessons -> Lesson] /\ draft \in [Lessons -> Lesson]
  /\ lessonPc \in [Students -> {"idle", "posted", "locked", "dated"}]
  /\ post \in [Students -> [lesson : {NoPost.lesson} \cup Lessons, watched : BOOLEAN,
                            score : 0..100, day : {NoDay} \cup 0..today]]
  /\ \A r \in Students :
       /\ r \in lock <=> lessonPc[r] \in {"locked", "dated"}
       /\ lessonPc[r] # "idle" => post[r].lesson \in Lessons
       /\ lessonPc[r] = "dated" => post[r].day \in 0..today /\ profile.last <= post[r].day
  /\ lock \subseteq Students /\ \A r \in lock : lock = {r}
  /\ profile \in [xp : Int, streak : Nat, last : activeDays \cup {NoDay}]
  /\ \A d \in activeDays : d <= profile.last
  /\ profile.xp = Xp(progress)
  /\ profile.streak = Cardinality(Run)

LEMMA Larger ==
  ASSUME NEW a \in Int, NEW b \in Int
  PROVE  Max({a, b}) = IF a >= b THEN a ELSE b
BY DEF Max

LEMMA UpdatedIsLesson ==
  ASSUME NEW rows \in [Lessons -> Lesson], NEW p, p.lesson \in Lessons,
         p.watched \in BOOLEAN, p.score \in 0..100
  PROVE  Updated(rows, p) \in [Lessons -> Lesson]
<1>1. rows[p.lesson].score \in 0..100
  BY DEF Lesson
<1>2. Max({rows[p.lesson].score, p.score}) \in 0..100
  <2> DEFINE a == rows[p.lesson].score
             b == p.score
  <2>1. a \in Int /\ b \in Int /\ a \in 0..100 /\ b \in 0..100
    BY <1>1
  <2> HIDE DEF a, b
  <2>2. Max({a, b}) = IF a >= b THEN a ELSE b
    BY <2>1, Larger
  <2>3. Max({a, b}) \in 0..100
    BY <2>1, <2>2
  <2>4. QED BY <2>3 DEF a, b
<1>3. QED BY <1>2 DEF Updated, Lesson

LEMMA PointsOf == \A row \in Lesson : Points(row) \in Nat
BY DEF Lesson, Points

LEMMA XpOf ==
  ASSUME NEW rows \in [Lessons -> Lesson]
  PROVE  Xp(rows) \in Int
<1> DEFINE f == [l \in Lessons |-> Points(rows[l])]
<1>1. IsFiniteSet(Lessons) /\ \A l \in Lessons : f[l] \in Nat
  BY PointsOf, LearningAssumption
<1>2. Xp(rows) = SumFunctionOnSet(f, Lessons)
  BY DEF Xp, SumFunction
<1>3. QED
  <2> HIDE DEF f
  <2>1. QED BY <1>1, <1>2, SumOfNaturals

LEMMA NoPoints == Xp([l \in Lessons |-> Unseen]) = 0
<1> DEFINE rows == [l \in Lessons |-> Unseen]
           f == [l \in Lessons |-> Points(rows[l])]
<1>1. IsFiniteSet(Lessons) /\ \A l \in Lessons : f[l] = 0
  BY LearningAssumption DEF Points, Unseen
<1>2. Xp(rows) = SumFunctionOnSet(f, Lessons)
  BY DEF Xp, SumFunction
<1>3. QED
  <2> HIDE DEF f
  <2>1. SumFunctionOnSet(f, Lessons) = 0
    BY <1>1, SumOfZeros
  <2>2. QED BY <1>2, <2>1

\* The streak, from that of the last activity.
StreakOf(days, last) == {d \in days : \A e \in d..last : e \in days}

LEMMA StreakCounts ==
  ASSUME NEW days, NEW last, NEW day \in Nat, days \subseteq 0..day,
         last \in days \cup {NoDay}, \A d \in days : d <= last, last <= day
  PROVE  Cardinality(StreakOf(days \cup {day}, day))
           = IF last = day THEN Cardinality(StreakOf(days, last))
             ELSE IF last = day - 1 THEN Cardinality(StreakOf(days, last)) + 1 ELSE 1
<1>1. CASE last = day
  <2>1. day \in days
    BY <1>1 DEF NoDay
  <2>2. days \cup {day} = days
    BY <2>1
  <2>3. QED BY <1>1, <2>2
<1>2. CASE last = day - 1
  <2>1. last \in days /\ day \notin days
    BY <1>2 DEF NoDay
  <2>2. StreakOf(days \cup {day}, day) = StreakOf(days, last) \cup {day}
    <3>1. ASSUME NEW d \in StreakOf(days \cup {day}, day), d # day
          PROVE  d \in StreakOf(days, last)
      <4>1. d \in days /\ d \in Nat /\ \A e \in d..day : e \in days \cup {day}
        BY <3>1 DEF StreakOf
      <4>2. \A e \in d..last : e \in d..day /\ e # day
        BY <1>2, <4>1
      <4>3. QED BY <4>1, <4>2 DEF StreakOf
    <3>2. ASSUME NEW d \in StreakOf(days, last) PROVE d \in StreakOf(days \cup {day}, day)
      <4>1. d \in days /\ d \in Nat /\ \A e \in d..last : e \in days
        BY <3>2 DEF StreakOf
      <4>2. \A e \in d..day : e = day \/ e \in d..last
        BY <1>2, <4>1
      <4>3. QED BY <4>1, <4>2 DEF StreakOf
    <3>3. day \in StreakOf(days \cup {day}, day)
      BY DEF StreakOf
    <3>4. QED BY <3>1, <3>2, <3>3
  <2>3. day \notin StreakOf(days, last) /\ IsFiniteSet(StreakOf(days, last))
    <3>1. IsFiniteSet(0..day)
      <4>1. 0 \in Int /\ day \in Int
        OBVIOUS
      <4>2. QED BY <4>1, FS_Interval
    <3>2. StreakOf(days, last) \subseteq 0..day
      BY DEF StreakOf
    <3>3. IsFiniteSet(StreakOf(days, last))
      BY <3>1, <3>2, FS_Subset
    <3>4. QED BY <2>1, <3>3 DEF StreakOf
  <2>4. Cardinality(StreakOf(days, last) \cup {day}) = Cardinality(StreakOf(days, last)) + 1
    BY <2>3, FS_AddElement
  <2>5. last # day
    BY <1>2
  <2>6. QED BY <1>2, <2>2, <2>4, <2>5
<1>3. CASE last # day /\ last # day - 1
  <2>1. last < day - 1
    BY <1>3 DEF NoDay
  <2>2. day - 1 \notin days /\ day \notin days
    BY <2>1
  <2>3. StreakOf(days \cup {day}, day) = {day}
    <3>1. ASSUME NEW d \in StreakOf(days \cup {day}, day), d # day PROVE FALSE
      <4>1. d \in days /\ d \in 0..day /\ \A e \in d..day : e \in days \cup {day}
        BY <3>1 DEF StreakOf
      <4>2. day - 1 \in d..day
        BY <3>1, <4>1
      <4>3. QED BY <2>2, <4>1, <4>2
    <3>2. day \in StreakOf(days \cup {day}, day)
      BY DEF StreakOf
    <3>3. QED BY <3>1, <3>2
  <2>4. QED BY <1>3, <2>3, FS_Singleton
<1>4. QED BY <1>1, <1>2, <1>3

LEMMA RunIsStreak == Run = StreakOf(activeDays, profile.last)
BY DEF Run, StreakOf

-----------------------------------------------------------------------------
LEMMA LearningInitInv == LearningInit => LearningInv
<1> SUFFICES ASSUME LearningInit PROVE LearningInv
  OBVIOUS
<1>1. progress \in [Lessons -> Lesson]
  BY DEF LearningInit, Lesson, Unseen
<1>2. profile.xp = Xp(progress)
  BY NoPoints DEF LearningInit
<1>3. profile.streak = Cardinality(Run)
  BY FS_EmptySet DEF LearningInit, Run
<1>4. post \in [Students -> [lesson : {NoPost.lesson} \cup Lessons, watched : BOOLEAN,
                             score : 0..100, day : {NoDay} \cup 0..today]]
  BY DEF LearningInit, NoPost
<1>5. QED BY <1>1, <1>2, <1>3, <1>4 DEF LearningInit, LearningInv

\* The last activity, if there was any, is the latest.
LEMMA LastIsPast ==
  ASSUME LearningInv
  PROVE  /\ profile.last \in activeDays \cup {NoDay} /\ profile.last \in Int
         /\ profile.last <= today
         /\ activeDays # {} => profile.last \in activeDays
<1>1. profile.last \in activeDays \cup {NoDay}
  BY DEF LearningInv
<1>2. \A d \in activeDays : d \in 0..today /\ d <= profile.last
  BY DEF LearningInv
<1>3. today \in Nat /\ NoDay = -2
  BY DEF LearningInv, NoDay
<1>4. QED BY <1>1, <1>2, <1>3

\* The second statement, under the lock.
TakeDate(r) ==
  /\ lessonPc[r] = "locked"
  /\ post' = [post EXCEPT ![r].day = today]
  /\ LessonGoto(r, "dated")
  /\ UNCHANGED <<lock, draft, progress, profile, today, activeDays>>

LEMMA LearningNextInv == LearningInv /\ [LearningNext]_learningVars => LearningInv'
<1> SUFFICES ASSUME LearningInv, [LearningNext]_learningVars PROVE LearningInv'
  OBVIOUS
<1>0. LastDay \in Nat /\ Scores \subseteq 0..100
  BY LearningAssumption
<1>1. CASE UNCHANGED learningVars
  BY <1>1 DEF learningVars, LearningInv, Run
<1>2. CASE Midnight
  <2>1. 0..today \subseteq 0..today' /\ today' \in Nat
    BY <1>2 DEF Midnight, LearningInv
  <2>2. QED BY <1>2, <2>1 DEF Midnight, LearningInv, Run
<1>3. ASSUME NEW r \in Students, Post(r) PROVE LearningInv'
  BY <1>0, <1>3 DEF Post, LessonGoto, LearningInv, Run
<1>4. ASSUME NEW r \in Students, Upsert(r) PROVE LearningInv'
  <2>1. Updated(progress, post[r]) \in [Lessons -> Lesson]
    BY <1>4, UpdatedIsLesson DEF Upsert, LearningInv
  <2>2. QED BY <1>4, <2>1 DEF Upsert, LessonGoto, LearningInv, Run
<1>5. ASSUME NEW r \in Students, TakeDate(r) PROVE LearningInv'
  <2>1. post' \in [Students -> [lesson : {NoPost.lesson} \cup Lessons, watched : BOOLEAN,
                                score : 0..100, day : {NoDay} \cup 0..today]]
    BY <1>5 DEF TakeDate, LearningInv
  <2>2. profile.last <= today
    BY LastIsPast DEF LearningInv
  <2>3. lessonPc' = [lessonPc EXCEPT ![r] = "dated"] /\ post' = [post EXCEPT ![r].day = today]
    BY <1>5 DEF TakeDate, LessonGoto
  <2>4. \A q \in Students :
          /\ q \in lock <=> lessonPc'[q] \in {"locked", "dated"}
          /\ lessonPc'[q] # "idle" => post'[q].lesson \in Lessons
          /\ lessonPc'[q] = "dated" => post'[q].day \in 0..today /\ profile.last <= post'[q].day
    BY <1>5, <2>2, <2>3 DEF TakeDate, LearningInv
  <2>5. QED BY <1>5, <2>1, <2>3, <2>4 DEF TakeDate, LearningInv, Run
<1>6. ASSUME NEW r \in Students, Abandon(r) PROVE LearningInv'
  BY <1>6 DEF Abandon, Forget, LessonGoto, LearningInv, Run, NoPost, NoDay
<1>7. ASSUME NEW r \in Students, Commit(r) PROVE LearningInv'
  <2> DEFINE day == post[r].day
  <2>1. day \in 0..today /\ profile.last <= day
    BY <1>7 DEF Commit, LearningInv
  <2>2. activeDays \subseteq 0..day /\ profile.last \in activeDays \cup {NoDay}
    BY <2>1, LastIsPast DEF LearningInv
  <2>3. profile' = [xp |-> Xp(draft), streak |-> Streak(profile, day), last |-> day]
        /\ activeDays' = activeDays \cup {day} /\ progress' = draft /\ today' = today
    BY <1>7 DEF Commit
  <2>4. Xp(draft) \in Int /\ Streak(profile, day) \in Nat
    BY XpOf DEF LearningInv, Streak
  <2>5. profile'.streak = Cardinality(Run')
    <3>1. Run' = StreakOf(activeDays \cup {day}, day)
      BY <2>3 DEF Run, StreakOf
    <3>2. Cardinality(StreakOf(activeDays, profile.last)) = profile.streak
      BY RunIsStreak DEF LearningInv
    <3>3. Cardinality(StreakOf(activeDays \cup {day}, day))
           = IF profile.last = day THEN Cardinality(StreakOf(activeDays, profile.last))
             ELSE IF profile.last = day - 1
                  THEN Cardinality(StreakOf(activeDays, profile.last)) + 1 ELSE 1
      <4>1. day \in Nat /\ \A d \in activeDays : d <= profile.last
        BY <2>1 DEF LearningInv
      <4> HIDE DEF day
      <4>2. QED BY <2>1, <2>2, <4>1, StreakCounts
    <3>4. QED BY <2>3, <3>1, <3>2, <3>3 DEF Streak
  <2>6. \A d \in activeDays' : d <= profile'.last
    BY <2>1, <2>2, <2>3
  <2>7. profile' \in [xp : Int, streak : Nat, last : activeDays' \cup {NoDay}]
    BY <2>3, <2>4
  <2>8. profile'.xp = Xp(progress')
    BY <2>3
  <2>9. activeDays' \subseteq 0..today'
    BY <2>1, <2>3 DEF LearningInv
  <2>10. lock = {r}
    BY <1>7 DEF Commit, LearningInv
  <2>11. QED BY <1>7, <2>3, <2>5, <2>6, <2>7, <2>8, <2>9, <2>10
            DEF Commit, Forget, LessonGoto, LearningInv, NoPost, NoDay
<1>8. QED BY <1>1, <1>2, <1>3, <1>4, <1>5, <1>6, <1>7 DEF LearningNext, LockThenDate, TakeDate

\* However many requests of a student interleave, and whatever midnights pass
\* between them, the points are those of the lessons committed, the last
\* activity is the latest and the streak counts the days up to it without a gap
\* (api_learning_progress of app.py).
THEOREM ProfileMatchesHolds == LearningSpec => []ProfileMatches
<1>1. LearningInv => ProfileMatches
  <2> SUFFICES ASSUME LearningInv PROVE ProfileMatches
    OBVIOUS
  <2>1. ASSUME activeDays # {} PROVE profile.last = Max(activeDays)
    <3>1. profile.last \in activeDays
      BY <2>1, LastIsPast
    <3>2. \A m \in activeDays : m \in Int /\ profile.last >= m
      BY <3>1, LastIsPast DEF LearningInv
    <3>3. \A m \in activeDays : (\A y \in activeDays : m >= y) => m = profile.last
      BY <3>1, <3>2
    <3>4. QED BY <3>1, <3>2, <3>3 DEF Max
  <2>2. QED BY <2>1 DEF LearningInv, ProfileMatches
<1>2. QED BY <1>1, LearningInitInv, LearningNextInv, PTL DEF LearningSpec
=============================================================================
