------------------------------ MODULE Sessions ------------------------------
(***************************************************************************)
(* The administrator's account of the local authentication mode: its       *)
(* bootstrap by starting processes, logins behind the throttle, sessions   *)
(* and their end, and the command `user set-password` (api.py, auth.py,    *)
(* storage.py, cli.py).                                                    *)
(*                                                                         *)
(* A password is a number, the order in which passwords were invented; a   *)
(* client may know the password of the row or not.  Refused requests write *)
(* only the audit trail and are left out; so is the password of the        *)
(* environment, which is told to nobody.                                   *)
(***************************************************************************)
EXTENDS Naturals, FiniteSets

CONSTANTS
  Servers,      \* service processes over one database
  Logins,       \* worker threads that serve a login
  Home,         \* Logins -> Servers
  Clients,      \* hosts that log in: with the user name, the keys of the throttle
  Tokens,       \* session tokens that can be issued
  Bearers,      \* requests that carry a token
  Operators,    \* runs of `user set-password`
  MaxFailures,  \* SETTINGS.login_max_failures
  Workloads,    \* bounds: how many logins are let in, how many processes end, what else turns up
  NoToken

ASSUME SessionAssumption ==
  /\ Home \in [Logins -> Servers]
  /\ IsFiniteSet(Logins)
  /\ MaxFailures \in Nat \ {0}
  /\ Workloads \subseteq [logins: Nat, stops: Nat, tokens: SUBSET Tokens,
                          bearers: SUBSET Bearers, operators: SUBSET Operators]
  /\ NoToken \notin Tokens

VARIABLES
  load,      \* the bounds of this behaviour
  password,  \* users: the password of the row, 0 without a row
  invented,  \* how many passwords there have been
  server,    \* each process: its step in lifespan, the password it generated
  told,      \* generated passwords that were announced
  failures,  \* LOGIN_THROTTLE of each process: failures in a row, per client
  blocked,   \* LOGIN_THROTTLE of each process: blocked_until is in the future
  login,     \* each login: its step, client, and the password it has read
  let,       \* how many logins were let in
  session,   \* auth_sessions: no row yet, valid, revoked or expired, purged
  opened,    \* history: the password each session was opened with
  bearer,    \* each request with a token: the session it was resolved to
  operator,  \* each run of the command: its step
  covered,   \* history: the password at the last revocation of all sessions
  slipped,   \* history: sessions whose login had read a password no longer in force
  stops

accountVars == <<password, invented, told>>
loginVars   == <<failures, blocked, login, let>>
tokenVars   == <<session, opened, bearer, slipped>>
sessionVars == <<load, accountVars, server, loginVars, tokenVars, operator, covered, stops>>

LoginIdle == [step |-> "idle", client |-> NoToken, seen |-> 0]

SessionInit ==
  /\ load \in Workloads
  /\ password = 0
  /\ invented = 0
  /\ server   = [s \in Servers |-> [step |-> "down", password |-> 0]]
  /\ told     = {}
  /\ failures = [s \in Servers |-> [c \in Clients |-> 0]]
  /\ blocked  = [s \in Servers |-> [c \in Clients |-> FALSE]]
  /\ login    = [l \in Logins |-> LoginIdle]
  /\ let      = 0
  /\ session  = [t \in Tokens |-> "none"]
  /\ opened   = [t \in Tokens |-> 0]
  /\ bearer   = [b \in Bearers |-> NoToken]
  /\ operator = [o \in Operators |-> "idle"]
  /\ covered  = 0
  /\ slipped  = {}
  /\ stops    = 0

-----------------------------------------------------------------------------
(* A process starts: count_users, create_user, the audit event, the warning. *)

CountUsers(s) ==
  /\ server[s].step = "down"
  /\ server' = [server EXCEPT ![s].step = IF password = 0 THEN "counted" ELSE "up"]
  /\ UNCHANGED <<load, accountVars, loginVars, tokenVars, operator, covered, stops>>

\* users.username is unique: the second of two processes fails and goes on.
CreateAdmin(s) ==
  /\ server[s].step = "counted"
  /\ IF password = 0
     THEN /\ password' = invented + 1
          /\ invented' = invented + 1
          /\ server' = [server EXCEPT ![s] = [step |-> "created", password |-> invented + 1]]
     ELSE /\ server' = [server EXCEPT ![s].step = "up"]
          /\ UNCHANGED <<load, password, invented>>
  /\ UNCHANGED <<load, told, loginVars, tokenVars, operator, covered, stops>>

\* The password is announced after the audit event, or lost with its exception.
Announce(s) ==
  /\ server[s].step = "created"
  /\ told' \in {told, told \cup {server[s].password}}
  /\ server' = [server EXCEPT ![s].step = "up"]
  /\ UNCHANGED <<load, password, invented, loginVars, tokenVars, operator, covered, stops>>

\* A process ends; its threads and its throttle go with it.
StopServer(s) ==
  /\ server[s].step # "down"
  /\ stops < load.stops
  /\ stops' = stops + 1
  /\ server' = [server EXCEPT ![s] = [step |-> "down", password |-> 0]]
  /\ failures' = [failures EXCEPT ![s] = [c \in Clients |-> 0]]
  /\ blocked' = [blocked EXCEPT ![s] = [c \in Clients |-> FALSE]]
  /\ login' = [l \in Logins |-> IF Home[l] = s THEN LoginIdle ELSE login[l]]
  /\ UNCHANGED <<load, accountVars, let, tokenVars, operator, covered>>

-----------------------------------------------------------------------------
(* A login: retry_after, the row, verify_password, the session. *)

\* Mutant: the count is forgotten when the lockout is checked.
LetInAnyway(l, c) ==
  LET s == Home[l] IN
  /\ server[s].step = "up"
  /\ login[l].step = "idle"
  /\ let < load.logins
  /\ let' = let + 1
  /\ login' = [login EXCEPT ![l] = [step |-> "let", client |-> c, seen |-> 0]]
  /\ UNCHANGED <<load, accountVars, server, failures, blocked, tokenVars, operator, covered, stops>>

\* retry_after is 0: too few failures, or the lockout is over and forgotten.
LetIn(l, c) ==
  LET s == Home[l] IN
  /\ server[s].step = "up"
  /\ login[l].step = "idle"
  /\ let < load.logins
  /\ failures[s][c] >= MaxFailures => ~blocked[s][c]
  /\ failures' = IF failures[s][c] >= MaxFailures THEN [failures EXCEPT ![s][c] = 0] ELSE failures
  /\ let' = let + 1
  /\ login' = [login EXCEPT ![l] = [step |-> "let", client |-> c, seen |-> 0]]
  /\ UNCHANGED <<load, accountVars, server, blocked, tokenVars, operator, covered, stops>>

LockoutEnds(s, c) ==
  /\ blocked[s][c]
  /\ blocked' = [blocked EXCEPT ![s][c] = FALSE]
  /\ UNCHANGED <<load, accountVars, server, failures, login, let, tokenVars, operator, covered, stops>>

ReadUser(l) ==
  /\ login[l].step = "let"
  /\ login' = [login EXCEPT ![l].step = "read", ![l].seen = password]
  /\ UNCHANGED <<load, accountVars, server, failures, blocked, let, tokenVars, operator, covered, stops>>

RecordFailure(l) ==
  LET s == Home[l]
      c == login[l].client
  IN  /\ login[l].step = "read"
      /\ failures' = [failures EXCEPT ![s][c] = @ + 1]
      /\ blocked' = [blocked EXCEPT ![s][c] = TRUE]
      /\ login' = [login EXCEPT ![l] = LoginIdle]
      /\ UNCHANGED <<load, accountVars, server, let, tokenVars, operator, covered, stops>>

\* The client knows the password of the row that was read.
Verified(l) ==
  LET s == Home[l]
      c == login[l].client
  IN  /\ login[l].step = "read"
      /\ login[l].seen # 0
      /\ failures' = [failures EXCEPT ![s][c] = 0]
      /\ blocked' = [blocked EXCEPT ![s][c] = FALSE]
      /\ login' = [login EXCEPT ![l].step = "verified"]
      /\ UNCHANGED <<load, accountVars, server, let, tokenVars, operator, covered, stops>>

CreateSession(l, t) ==
  /\ login[l].step = "verified"
  /\ t \in load.tokens
  /\ session[t] = "none"
  /\ session' = [session EXCEPT ![t] = "valid"]
  /\ opened' = [opened EXCEPT ![t] = login[l].seen]
  /\ slipped' = IF login[l].seen = password THEN slipped ELSE slipped \cup {t}
  /\ login' = [login EXCEPT ![l] = LoginIdle]
  /\ UNCHANGED <<load, accountVars, server, failures, blocked, let, bearer, operator, covered, stops>>

-----------------------------------------------------------------------------
(* The life of a session: get_auth_session, logout, expiry, purge. *)

\* auth_middleware resolves the token; what the endpoint does comes later.
Resolve(b, t) ==
  /\ b \in load.bearers
  /\ bearer[b] = NoToken
  /\ session[t] = "valid"
  /\ bearer' = [bearer EXCEPT ![b] = t]
  /\ UNCHANGED <<load, accountVars, server, loginVars, session, opened, slipped, operator, covered, stops>>

\* logout ends the session of its token; any other endpoint leaves it alone.
Serve(b) ==
  /\ bearer[b] # NoToken
  /\ session' \in {session, [session EXCEPT ![bearer[b]] = IF @ = "valid" THEN "ended" ELSE @]}
  /\ bearer' = [bearer EXCEPT ![b] = NoToken]
  /\ UNCHANGED <<load, accountVars, server, loginVars, opened, slipped, operator, covered, stops>>

Expire(t) ==
  /\ session[t] = "valid"
  /\ session' = [session EXCEPT ![t] = "ended"]
  /\ UNCHANGED <<load, accountVars, server, loginVars, opened, bearer, slipped, operator, covered, stops>>

\* At startup and in _maintenance_loop.
Purge ==
  /\ \E s \in Servers : server[s].step = "up"
  /\ \E t \in Tokens : session[t] = "ended"
  /\ session' = [t \in Tokens |-> IF session[t] = "ended" THEN "purged" ELSE session[t]]
  /\ UNCHANGED <<load, accountVars, server, loginVars, opened, bearer, slipped, operator, covered, stops>>

-----------------------------------------------------------------------------
(* `user set-password [--create]`, three transactions in the usual case. *)

LookUp(o) ==
  /\ o \in load.operators
  /\ operator[o] = "idle"
  /\ operator' = [operator EXCEPT ![o] = IF password = 0 THEN "missing" ELSE "found"]
  /\ UNCHANGED <<load, accountVars, server, loginVars, tokenVars, covered, stops>>

\* Fails on the unique user name when a process has created the row meanwhile.
CreateByOperator(o) ==
  /\ operator[o] = "missing"
  /\ IF password = 0
     THEN password' = invented + 1 /\ invented' = invented + 1
     ELSE UNCHANGED <<password, invented>>
  /\ operator' = [operator EXCEPT ![o] = "done"]
  /\ UNCHANGED <<load, told, server, loginVars, tokenVars, covered, stops>>

UpdatePassword(o) ==
  /\ operator[o] = "found"
  /\ password' = invented + 1
  /\ invented' = invented + 1
  /\ operator' = [operator EXCEPT ![o] = "updated"]
  /\ UNCHANGED <<load, told, server, loginVars, tokenVars, covered, stops>>

\* Mutant: the sessions are not revoked.
RevokeNothing(o) ==
  /\ operator[o] = "updated"
  /\ covered' = password
  /\ operator' = [operator EXCEPT ![o] = "done"]
  /\ UNCHANGED <<load, accountVars, server, loginVars, tokenVars, stops>>

RevokeAll(o) ==
  /\ operator[o] = "updated"
  /\ session' = [t \in Tokens |-> IF session[t] = "valid" THEN "ended" ELSE session[t]]
  /\ covered' = password
  /\ operator' = [operator EXCEPT ![o] = "done"]
  /\ UNCHANGED <<load, accountVars, server, loginVars, opened, bearer, slipped, stops>>

\* The command is interrupted between two of its transactions.
Interrupt(o) ==
  /\ operator[o] \in {"missing", "found", "updated"}
  /\ operator' = [operator EXCEPT ![o] = "done"]
  /\ UNCHANGED <<load, accountVars, server, loginVars, tokenVars, covered, stops>>

SessionNext ==
  \/ \E s \in Servers :
       \/ CountUsers(s)
       \/ CreateAdmin(s)
       \/ Announce(s)
       \/ StopServer(s)
       \/ \E c \in Clients : LockoutEnds(s, c)
  \/ \E l \in Logins :
       \/ \E c \in Clients : LetIn(l, c)
       \/ ReadUser(l)
       \/ RecordFailure(l)
       \/ Verified(l)
       \/ \E t \in Tokens : CreateSession(l, t)
  \/ \E b \in Bearers :
       \/ \E t \in Tokens : Resolve(b, t)
       \/ Serve(b)
  \/ \E t \in Tokens : Expire(t)
  \/ Purge
  \/ \E o \in Operators :
       \/ LookUp(o)
       \/ CreateByOperator(o)
       \/ UpdatePassword(o)
       \/ RevokeAll(o)
       \/ Interrupt(o)

SessionSpec == SessionInit /\ [][SessionNext]_sessionVars

-----------------------------------------------------------------------------

ServerStates == [step: {"down", "counted", "created", "up"}, password: Nat]
LoginStates  == [step: {"idle", "let", "read", "verified"}, client: Clients \cup {NoToken}, seen: Nat]

\* Every variable keeps its type.
SessionTypeOK ==
  /\ load     \in Workloads
  /\ password \in Nat
  /\ invented \in Nat
  /\ server   \in [Servers -> ServerStates]
  /\ told     \subseteq Nat
  /\ failures \in [Servers -> [Clients -> Nat]]
  /\ blocked  \in [Servers -> [Clients -> BOOLEAN]]
  /\ login    \in [Logins -> LoginStates]
  /\ let      \in Nat
  /\ session  \in [Tokens -> {"none", "valid", "ended", "purged"}]
  /\ opened   \in [Tokens -> Nat]
  /\ bearer   \in [Bearers -> Tokens \cup {NoToken}]
  /\ operator \in [Operators -> {"idle", "missing", "found", "updated", "done"}]
  /\ covered  \in Nat
  /\ slipped  \subseteq Tokens
  /\ stops    \in Nat

\* The threads that serve logins of a process.
Threads(s) == {l \in Logins : Home[l] = s}

\* One client guesses at most MaxFailures - 1 + threads times in a row before the
\* lockout holds it back, for the check and the count are separate steps that
\* threads interleave: the promise of _LoginThrottle, per process.
LockoutBounds ==
  \A s \in Servers, c \in Clients :
    failures[s][c] <= MaxFailures - 1 + Cardinality(Threads(s))

\* A session opened with an old password is valid only while the revocation that
\* follows the change is still to come (or its command was interrupted), or if its
\* login had read the old row before the change: what update_user_password gives.
SessionsFollowPassword ==
  \A t \in Tokens :
    session[t] = "valid" /\ opened[t] # password => password # covered \/ t \in slipped

\* However many processes start on an empty database, one generated password at
\* most is announced, and it is the first the account ever had.
ToldOnce == told \subseteq {1} /\ (told # {} => password # 0)

\* A session that was revoked or has expired never admits a request again, whatever
\* logout, expiry, purge and changes of the password do to its row.
EndedForGood ==
  [][\A t \in Tokens : session[t] \in {"ended", "purged"} => session'[t] \in {"ended", "purged"}]_sessionVars
=============================================================================
