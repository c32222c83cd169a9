------------------------------ MODULE Accounts ------------------------------
(***************************************************************************)
(* Registration and login of one email address by the threads of the web   *)
(* server (register, login, api_register, api_login, is_rate_limited in    *)
(* src/app.py).                                                            *)
(*                                                                         *)
(* is_rate_limited reads, filters and stores a list without a lock, so its *)
(* calls interleave.  A request is a registration or a login with one of   *)
(* the Passwords; those that are refused for their form end before the     *)
(* database and are left out.                                              *)
(***************************************************************************)
EXTENDS Integers, Lists

CONSTANTS
  Clients,      \* threads of the server, each with one request at a time
  Passwords,
  NoUser,       \* no row with this email
  LimitMax,     \* AUTH_RATE_LIMIT_MAX
  Window,       \* AUTH_RATE_LIMIT_WINDOW
  LastTick,     \* bound: the last moment of a behaviour
  MaxCalls      \* bound: the calls let through

ASSUME AccountsAssumption ==
  /\ NoUser \notin Passwords
  /\ LimitMax \in Nat \ {0}
  /\ Window \in Nat \ {0}
  /\ LastTick \in Nat
  /\ MaxCalls \in Nat

Kinds == {"register", "login"}  \* the action in the key of RATE_LIMITS

VARIABLES
  clientPc,   \* "idle", "read", "store", "select", "hash"
  call,       \* kind, password, now and timestamps of each request
  rateLimits, \* RATE_LIMITS, by kind
  account,    \* the password in the row
  tick,
  admitted,   \* history: how many calls were let through, by kind and moment
  created     \* history: the passwords of those who were told 201

accountVars == <<clientPc, call, rateLimits, account, tick, admitted, created>>

NoCall == [kind |-> "login", password |-> NoUser, now |-> 0, timestamps |-> <<>>]

AccountsInit ==
  /\ clientPc = [c \in Clients |-> "idle"]
  /\ call = [c \in Clients |-> NoCall]
  /\ rateLimits = [k \in Kinds |-> <<>>]
  /\ account = NoUser
  /\ tick = 0
  /\ admitted = [k \in Kinds |-> [at \in 0..LastTick |-> 0]]
  /\ created = {}

Tick ==
  /\ tick < LastTick
  /\ tick' = tick + 1
  /\ UNCHANGED <<clientPc, call, rateLimits, account, admitted, created>>

ClientGoto(c, label) == clientPc' = [clientPc EXCEPT ![c] = label]
Reply(c) == call' = [call EXCEPT ![c] = NoCall] /\ ClientGoto(c, "idle")

LetThrough(kinds, period) ==
  SumFunctionOnSet([k \in Kinds |-> SumFunctionOnSet(admitted[k], period)], kinds)

-----------------------------------------------------------------------------
\* is_rate_limited

Call(c) ==
  /\ clientPc[c] = "idle"
  /\ LetThrough(Kinds, 0..LastTick) < MaxCalls
  /\ \E k \in Kinds, p \in Passwords :
       /\ call' = [call EXCEPT ![c] = [kind |-> k, password |-> p, now |-> tick,
                                       timestamps |-> <<>>]]
  /\ ClientGoto(c, "read")
  /\ UNCHANGED <<rateLimits, account, tick, admitted, created>>

Forever(stamps, now) == stamps  \* variant
Recent(stamps, now) == Keep(stamps, {stamp \in 0..LastTick : now - stamp < Window})

ReadStamps(c) ==
  /\ clientPc[c] = "read"
  /\ call' = [call EXCEPT ![c].timestamps = Recent(rateLimits[call[c].kind], call[c].now)]
  /\ ClientGoto(c, "store")
  /\ UNCHANGED <<rateLimits, account, tick, admitted, created>>

Refuse(c) ==
  /\ clientPc[c] = "store"
  /\ Len(call[c].timestamps) >= LimitMax
  /\ rateLimits' = [rateLimits EXCEPT ![call[c].kind] = call[c].timestamps]
  /\ Reply(c)  \* 429
  /\ UNCHANGED <<account, tick, admitted, created>>

Admit(c) ==
  /\ clientPc[c] = "store"
  /\ Len(call[c].timestamps) < LimitMax
  /\ rateLimits' = [rateLimits EXCEPT
                      ![call[c].kind] = Append(call[c].timestamps, call[c].now)]
  /\ admitted' = [admitted EXCEPT ![call[c].kind][call[c].now] = @ + 1]
  /\ call' = [call EXCEPT ![c].now = 0, ![c].timestamps = <<>>]
  /\ ClientGoto(c, "select")
  /\ UNCHANGED <<account, tick, created>>

-----------------------------------------------------------------------------
\* 200 with the password of the row, otherwise 401: nothing else depends on it.
Login(c) ==
  /\ clientPc[c] = "select"
  /\ call[c].kind = "login"
  /\ Reply(c)
  /\ UNCHANGED <<rateLimits, account, tick, admitted, created>>

LookUp(c) ==
  /\ clientPc[c] = "select"
  /\ call[c].kind = "register"
  /\ IF account = NoUser THEN ClientGoto(c, "hash") /\ UNCHANGED call
     ELSE Reply(c)  \* 409
  /\ UNCHANGED <<rateLimits, account, tick, admitted, created>>

\* Variant: INSERT OR REPLACE.
ReplaceUser(c) ==
  /\ clientPc[c] = "hash"
  /\ account' = call[c].password
  /\ created' = created \cup {call[c].password}
  /\ Reply(c)
  /\ UNCHANGED <<rateLimits, tick, admitted>>

\* The password was hashed in between; the column is UNIQUE, and nobody
\* catches the error.
InsertUser(c) ==
  /\ clientPc[c] = "hash"
  /\ IF account = NoUser
     THEN /\ account' = call[c].password
          /\ created' = created \cup {call[c].password}
     ELSE UNCHANGED <<account, created>>  \* 500
  /\ Reply(c)
  /\ UNCHANGED <<rateLimits, tick, admitted>>

AccountsNext ==
  \/ Tick
  \/ \E c \in Clients :
       \/ Call(c) \/ ReadStamps(c) \/ Refuse(c) \/ Admit(c)
       \/ Login(c) \/ LookUp(c) \/ InsertUser(c)

AccountsSpec == AccountsInit /\ [][AccountsNext]_accountVars

-----------------------------------------------------------------------------
\* Nobody is turned away without cause: whatever is lost when calls of
\* is_rate_limited interleave, a refusal means that as many calls as the limit
\* allows were let through within the window before it.
RefusalIsEarned ==
  [][\A c \in Clients : clientPc[c] = "store" /\ clientPc'[c] = "idle" =>
       LetThrough({call[c].kind}, {at \in 0..LastTick : call[c].now - at < Window})
         >= LimitMax]_accountVars

\* Whoever was told 201 owns the account, also when two registrations of the
\* email have both found it free.
RegisteredIsOwner == created \subseteq {account}
=============================================================================
