---------------------------- MODULE SessionsProofs ----------------------------
(***************************************************************************)
(* Theorems about Sessions, for all processes, threads, clients, tokens    *)
(* and bounds.                                                             *)
(***************************************************************************)
EXTENDS Sessions, FiniteSetTheorems, TLAPS

\* The logins of a client that are past the throttle and have no result yet.
Pending(s, c) ==
  {l \in Threads(s) : login[l].step \in {"let", "read"} /\ login[l].client = c}

\* Failures counted and failures still to come stay within the bound together.
AttemptsBounded ==
  \A s \in Servers, c \in Clients :
    failures[s][c] + Cardinality(Pending(s, c)) <= MaxFailures - 1 + Cardinality(Threads(s))

\* A new password differs from every one there was.
PasswordsInOrder ==
  /\ password <= invented
  /\ covered <= invented
  /\ password = 0 => invented = 0

\* Only the process that made the row has a password to announce, the first.
OneBootstrap ==
  /\ \A s \in Servers : server[s].step = "created" => server[s].password = 1 /\ password # 0
  /\ told \subseteq {1}
  /\ told # {} => password # 0

-----------------------------------------------------------------------------

\* The initial state has the types.
LEMMA SessionInitTypes == SessionInit => SessionTypeOK
  BY SessionAssumption DEF SessionInit, SessionTypeOK, LoginIdle, LoginStates, ServerStates

LEMMA WorkloadTypes ==
  ASSUME SessionTypeOK
  PROVE  /\ load.logins \in Nat /\ load.stops \in Nat
         /\ load.tokens \subseteq Tokens /\ load.bearers \subseteq Bearers
         /\ load.operators \subseteq Operators
  BY SessionAssumption DEF SessionTypeOK

\* A record stays a record of its set when one field changes within its range.
LEMMA ServerField ==
  /\ \A r \in ServerStates, k \in {"down", "counted", "created", "up"} :
       [r EXCEPT !.step = k] \in ServerStates
  /\ \A k \in {"down", "counted", "created", "up"}, p \in Nat :
       [step |-> k, password |-> p] \in ServerStates
  BY DEF ServerStates

LEMMA LoginField ==
  /\ LoginIdle \in LoginStates
  /\ \A c \in Clients : [step |-> "let", client |-> c, seen |-> 0] \in LoginStates
  /\ \A r \in LoginStates, p \in Nat :
       [r EXCEPT !.step = "read", !.seen = p] \in LoginStates
  /\ \A r \in LoginStates : [r EXCEPT !.step = "verified"] \in LoginStates
<1>1. LoginIdle \in LoginStates
  BY DEF LoginIdle, LoginStates
<1>2. ASSUME NEW r \in LoginStates, NEW p \in Nat
      PROVE  [r EXCEPT !.step = "read", !.seen = p] \in LoginStates
  BY DEF LoginStates
<1> QED
  BY <1>1, <1>2 DEF LoginStates

\* Every step keeps the types.
LEMMA SessionTypesKept ==
  ASSUME SessionTypeOK, [SessionNext]_sessionVars
  PROVE  SessionTypeOK'
<1> USE SessionAssumption, WorkloadTypes DEF SessionTypeOK
<1>1. CASE UNCHANGED sessionVars
  BY <1>1 DEF sessionVars, accountVars, loginVars, tokenVars
<1>2. ASSUME NEW s \in Servers, CountUsers(s)
      PROVE  SessionTypeOK'
  <2>1. PICK k \in {"counted", "up"} : server' = [server EXCEPT ![s] = [server[s] EXCEPT !.step = k]]
    BY <1>2 DEF CountUsers
  <2>2. [server[s] EXCEPT !.step = k] \in ServerStates
    BY ServerField
  <2>3. server' \in [Servers -> ServerStates]
    BY <2>1, <2>2
  <2> QED
    BY <1>2, <2>3 DEF CountUsers, accountVars, loginVars, tokenVars
<1>3. ASSUME NEW s \in Servers, CreateAdmin(s)
      PROVE  SessionTypeOK'
  <2>1. invented + 1 \in Nat
    OBVIOUS
  <2>2. PICK v \in ServerStates : server' = [server EXCEPT ![s] = v]
    <3>1. [server[s] EXCEPT !.step = "up"] \in ServerStates
      BY ServerField
    <3>2. [step |-> "created", password |-> invented + 1] \in ServerStates
      BY <2>1, ServerField
    <3> QED
      BY <1>3, <3>1, <3>2 DEF CreateAdmin
  <2>3. server' \in [Servers -> ServerStates]
    BY <2>2
  <2> QED
    BY <1>3, <2>1, <2>3 DEF CreateAdmin, accountVars, loginVars, tokenVars
<1>4. ASSUME NEW s \in Servers, Announce(s)
      PROVE  SessionTypeOK'
  <2>1. [server[s] EXCEPT !.step = "up"] \in ServerStates
    BY ServerField
  <2>2. server' \in [Servers -> ServerStates]
    BY <1>4, <2>1 DEF Announce
  <2>3. server[s].password \in Nat
    BY DEF ServerStates
  <2> QED
    BY <1>4, <2>2, <2>3 DEF Announce, accountVars, loginVars, tokenVars
<1>5. ASSUME NEW s \in Servers, StopServer(s)
      PROVE  SessionTypeOK'
  <2>1. server' \in [Servers -> ServerStates]
    BY <1>5, ServerField DEF StopServer
  <2>2. login' \in [Logins -> LoginStates]
    BY <1>5, LoginField DEF StopServer
  <2> QED
    BY <1>5, <2>1, <2>2 DEF StopServer, accountVars, loginVars, tokenVars
<1>6. ASSUME NEW s \in Servers, NEW c \in Clients, LockoutEnds(s, c)
      PROVE  SessionTypeOK'
  BY <1>6 DEF LockoutEnds, accountVars, loginVars, tokenVars
<1>7. ASSUME NEW l \in Logins, NEW c \in Clients, LetIn(l, c)
      PROVE  SessionTypeOK'
  <2>1. [step |-> "let", client |-> c, seen |-> 0] \in LoginStates
    BY LoginField
  <2>2. login' \in [Logins -> LoginStates]
    BY <1>7, <2>1 DEF LetIn
  <2> QED
    BY <1>7, <2>2 DEF LetIn, accountVars, loginVars, tokenVars
<1>8. ASSUME NEW l \in Logins, ReadUser(l)
      PROVE  SessionTypeOK'
  <2>1. [login[l] EXCEPT !.step = "read", !.seen = password] \in LoginStates
    BY LoginField
  <2>2. login' \in [Logins -> LoginStates]
    BY <1>8, <2>1 DEF ReadUser
  <2> QED
    BY <1>8, <2>2 DEF ReadUser, accountVars, loginVars, tokenVars
<1>9. ASSUME NEW l \in Logins, RecordFailure(l)
      PROVE  SessionTypeOK'
  <2>1. [failures[Home[l]] EXCEPT ![login[l].client] = @ + 1] \in [Clients -> Nat]
    <3>1. ASSUME NEW f \in [Clients -> Nat], NEW c
          PROVE  [f EXCEPT ![c] = @ + 1] \in [Clients -> Nat]
      <4>1. CASE c \in Clients
        <5>1. f[c] + 1 \in Nat
          BY <4>1
        <5> QED
          BY <5>1
      <4>2. CASE c \notin Clients
        BY <4>2
      <4> QED
        BY <4>1, <4>2
    <3>2. failures[Home[l]] \in [Clients -> Nat]
      OBVIOUS
    <3> QED
      BY <3>1, <3>2
  <2>2. [blocked[Home[l]] EXCEPT ![login[l].client] = TRUE] \in [Clients -> BOOLEAN]
    OBVIOUS
  <2>3. failures' \in [Servers -> [Clients -> Nat]]
    BY <1>9, <2>1 DEF RecordFailure
  <2>4. blocked' \in [Servers -> [Clients -> BOOLEAN]]
    BY <1>9, <2>2 DEF RecordFailure
  <2>5. login' \in [Logins -> LoginStates]
    BY <1>9, LoginField DEF RecordFailure
  <2> QED
    BY <1>9, <2>3, <2>4, <2>5 DEF RecordFailure, accountVars, loginVars, tokenVars
<1>10. ASSUME NEW l \in Logins, Verified(l)
       PROVE  SessionTypeOK'
  <2>1. [login[l] EXCEPT !.step = "verified"] \in LoginStates
    BY LoginField
  <2>2. login' \in [Logins -> LoginStates]
    BY <1>10, <2>1 DEF Verified
  <2> QED
    BY <1>10, <2>2 DEF Verified, accountVars, loginVars, tokenVars
<1>11. ASSUME NEW l \in Logins, NEW t \in Tokens, CreateSession(l, t)
       PROVE  SessionTypeOK'
  <2>1. login[l].seen \in Nat
    BY DEF LoginStates
  <2>2. login' \in [Logins -> LoginStates]
    BY <1>11, LoginField DEF CreateSession
  <2> QED
    BY <1>11, <2>1, <2>2 DEF CreateSession, accountVars, loginVars, tokenVars
<1>12. ASSUME NEW b \in Bearers, NEW t \in Tokens, Resolve(b, t)
       PROVE  SessionTypeOK'
  BY <1>12 DEF Resolve, accountVars, loginVars, tokenVars
<1>13. ASSUME NEW b \in Bearers, Serve(b)
       PROVE  SessionTypeOK'
  BY <1>13 DEF Serve, accountVars, loginVars, tokenVars
<1>14. ASSUME NEW t \in Tokens, Expire(t)
       PROVE  SessionTypeOK'
  BY <1>14 DEF Expire, accountVars, loginVars, tokenVars
<1>15. ASSUME Purge
       PROVE  SessionTypeOK'
  BY <1>15 DEF Purge, accountVars, loginVars, tokenVars
<1>16. ASSUME NEW o \in Operators, LookUp(o)
       PROVE  SessionTypeOK'
  BY <1>16 DEF LookUp, accountVars, loginVars, tokenVars
<1>17. ASSUME NEW o \in Operators, CreateByOperator(o)
       PROVE  SessionTypeOK'
  BY <1>17 DEF CreateByOperator, accountVars, loginVars, tokenVars
<1>18. ASSUME NEW o \in Operators, UpdatePassword(o)
       PROVE  SessionTypeOK'
  BY <1>18 DEF UpdatePassword, accountVars, loginVars, tokenVars
<1>19. ASSUME NEW o \in Operators, RevokeAll(o)
       PROVE  SessionTypeOK'
  BY <1>19 DEF RevokeAll, accountVars, loginVars, tokenVars
<1>20. ASSUME NEW o \in Operators, Interrupt(o)
       PROVE  SessionTypeOK'
  BY <1>20 DEF Interrupt, accountVars, loginVars, tokenVars
<1> QED
  BY <1>1, <1>2, <1>3, <1>4, <1>5, <1>6, <1>7, <1>8, <1>9, <1>10, <1>11, <1>12, <1>13, <1>14, <1>15, <1>16, <1>17, <1>18, <1>19, <1>20 DEF SessionNext


-----------------------------------------------------------------------------
(* Which actions touch what. *)

\* Only these steps touch the throttle and the logins.
LEMMA ThrottleFrame ==
  ASSUME SessionNext
  PROVE  \/ UNCHANGED <<failures, login>>
         \/ \E s \in Servers : StopServer(s)
         \/ \E l \in Logins : \/ \E c \in Clients : LetIn(l, c)
                              \/ ReadUser(l)
                              \/ RecordFailure(l)
                              \/ Verified(l)
                              \/ \E t \in Tokens : CreateSession(l, t)
  BY DEF SessionNext, CountUsers, CreateAdmin, Announce, LockoutEnds, Resolve, Serve, Expire, Purge,
         LookUp, CreateByOperator, UpdatePassword, RevokeAll, Interrupt, loginVars

\* Only these steps touch the passwords and what is announced.
LEMMA AccountFrame ==
  ASSUME SessionNext
  PROVE  \/ UNCHANGED <<password, invented, told, server, covered>>
         \/ \E s \in Servers : CountUsers(s) \/ CreateAdmin(s) \/ Announce(s) \/ StopServer(s)
         \/ \E o \in Operators : CreateByOperator(o) \/ UpdatePassword(o) \/ RevokeAll(o)
<1> DEFINE Same == UNCHANGED <<password, invented, told, server, covered>>
<1>1. \A s \in Servers, c \in Clients : LockoutEnds(s, c) => Same
  BY DEF LockoutEnds, accountVars
<1>2. \A l \in Logins : (\E c \in Clients : LetIn(l, c)) \/ ReadUser(l) \/ RecordFailure(l) \/ Verified(l) => Same
  BY DEF LetIn, ReadUser, RecordFailure, Verified, accountVars
<1>3. \A l \in Logins, t \in Tokens : CreateSession(l, t) => Same
  BY DEF CreateSession, accountVars
<1>4. \A b \in Bearers : (\E t \in Tokens : Resolve(b, t)) \/ Serve(b) => Same
  BY DEF Resolve, Serve, accountVars
<1>5. (\E t \in Tokens : Expire(t)) \/ Purge => Same
  BY DEF Expire, Purge, accountVars
<1>6. \A o \in Operators : LookUp(o) \/ Interrupt(o) => Same
  BY DEF LookUp, Interrupt, accountVars
<1> HIDE DEF Same
<1>7. \/ Same
      \/ \E s \in Servers : CountUsers(s) \/ CreateAdmin(s) \/ Announce(s) \/ StopServer(s)
      \/ \E o \in Operators : CreateByOperator(o) \/ UpdatePassword(o) \/ RevokeAll(o)
  BY <1>1, <1>2, <1>3, <1>4, <1>5, <1>6 DEF SessionNext
<1> QED
  BY <1>7 DEF Same

-----------------------------------------------------------------------------
(* The lockout. *)

LEMMA PendingIsFinite ==
  ASSUME NEW s \in Servers, NEW c \in Clients
  PROVE  /\ IsFiniteSet(Threads(s)) /\ Cardinality(Threads(s)) \in Nat
         /\ IsFiniteSet(Pending(s, c)) /\ Cardinality(Pending(s, c)) \in Nat
         /\ Cardinality(Pending(s, c)) <= Cardinality(Threads(s))
<1>1. Threads(s) \subseteq Logins /\ Pending(s, c) \subseteq Threads(s)
  BY DEF Threads, Pending
<1>2. IsFiniteSet(Threads(s)) /\ Cardinality(Threads(s)) \in Nat
  BY <1>1, SessionAssumption, FS_Subset, FS_CardinalityType
<1> QED
  BY <1>1, <1>2, FS_Subset, FS_CardinalityType

LEMMA PendingIsFiniteNext ==
  ASSUME NEW s \in Servers, NEW c \in Clients
  PROVE  /\ IsFiniteSet(Pending(s, c)') /\ Cardinality(Pending(s, c)') \in Nat
         /\ Cardinality(Pending(s, c)') <= Cardinality(Threads(s))
<1>1. Pending(s, c)' \subseteq Threads(s)
  BY DEF Threads, Pending
<1> QED
  BY <1>1, PendingIsFinite, FS_Subset, FS_CardinalityType

\* A client whose failures and pending logins do not grow stays within its bound.
LEMMA BoundKept ==
  ASSUME SessionTypeOK, SessionTypeOK', AttemptsBounded, NEW s \in Servers, NEW c \in Clients,
         failures'[s][c] <= failures[s][c], Pending(s, c)' \subseteq Pending(s, c)
  PROVE  failures'[s][c] + Cardinality(Pending(s, c)') <= MaxFailures - 1 + Cardinality(Threads(s))
<1>1. Cardinality(Pending(s, c)') <= Cardinality(Pending(s, c))
  BY PendingIsFinite, FS_Subset
<1>2. failures[s][c] + Cardinality(Pending(s, c)) <= MaxFailures - 1 + Cardinality(Threads(s))
  BY DEF AttemptsBounded
<1>3. failures[s][c] \in Nat /\ failures'[s][c] \in Nat
  BY DEF SessionTypeOK
<1> QED
  BY <1>1, <1>2, <1>3, PendingIsFinite, PendingIsFiniteNext, SessionAssumption

\* Every step keeps the sum of counted and pending failures within the bound.
LEMMA AttemptsStayBounded ==
  ASSUME SessionTypeOK, AttemptsBounded, [SessionNext]_sessionVars
  PROVE  AttemptsBounded'
<1>1. SessionTypeOK'
  BY SessionTypesKept
<1> SUFFICES ASSUME NEW s \in Servers, NEW c \in Clients
             PROVE  failures'[s][c] + Cardinality(Pending(s, c)')
                      <= MaxFailures - 1 + Cardinality(Threads(s))
  BY DEF AttemptsBounded, Threads
<1>2. failures[s][c] \in Nat /\ failures'[s][c] \in Nat
  BY <1>1 DEF SessionTypeOK
<1>3. CASE UNCHANGED <<failures, login>>
  BY <1>1, <1>2, <1>3, BoundKept DEF Pending
<1>4. ASSUME NEW p \in Servers, StopServer(p)
      PROVE  failures'[s][c] + Cardinality(Pending(s, c)') <= MaxFailures - 1 + Cardinality(Threads(s))
  <2>1. failures'[s][c] <= failures[s][c]
    BY <1>2, <1>4 DEF StopServer, SessionTypeOK
  <2>2. Pending(s, c)' \subseteq Pending(s, c)
    BY <1>4 DEF StopServer, Pending, Threads, LoginIdle
  <2> QED
    BY <1>1, <2>1, <2>2, BoundKept
<1>5. ASSUME NEW l \in Logins, NEW d \in Clients, LetIn(l, d)
      PROVE  failures'[s][c] + Cardinality(Pending(s, c)') <= MaxFailures - 1 + Cardinality(Threads(s))
  <2>1. CASE s = Home[l] /\ c = d
    <3>1. failures'[s][c] <= MaxFailures - 1
      BY <1>2, <1>5, <2>1, SessionAssumption DEF LetIn, SessionTypeOK
    <3> QED
      BY <1>2, <3>1, PendingIsFinite, PendingIsFiniteNext, SessionAssumption
  <2>2. CASE ~(s = Home[l] /\ c = d)
    <3>1. failures'[s][c] = failures[s][c]
      BY <1>5, <2>2, SessionAssumption DEF LetIn, SessionTypeOK
    <3>2. Pending(s, c)' \subseteq Pending(s, c)
      BY <1>5, <2>2 DEF LetIn, Pending, Threads, SessionTypeOK
    <3> QED
      BY <1>1, <1>2, <3>1, <3>2, BoundKept
  <2> QED
    BY <2>1, <2>2
<1>6. ASSUME NEW l \in Logins, ReadUser(l)
      PROVE  failures'[s][c] + Cardinality(Pending(s, c)') <= MaxFailures - 1 + Cardinality(Threads(s))
  <2>1. Pending(s, c)' \subseteq Pending(s, c)
    <3>1. login'[l].client = login[l].client
      BY <1>6 DEF ReadUser, SessionTypeOK, LoginStates
    <3> QED
      BY <1>6, <3>1 DEF ReadUser, Pending, Threads, SessionTypeOK
  <2> QED
    BY <1>1, <1>2, <1>6, <2>1, BoundKept DEF ReadUser
<1>7. ASSUME NEW l \in Logins, RecordFailure(l)
      PROVE  failures'[s][c] + Cardinality(Pending(s, c)') <= MaxFailures - 1 + Cardinality(Threads(s))
  <2>1. CASE s = Home[l] /\ c = login[l].client
    <3>1. l \in Pending(s, c)
      BY <1>7, <2>1 DEF RecordFailure, Pending, Threads
    <3>2. Pending(s, c)' = Pending(s, c) \ {l}
      BY <1>7, <2>1 DEF RecordFailure, Pending, Threads, SessionTypeOK, LoginIdle
    <3>3. Cardinality(Pending(s, c)') = Cardinality(Pending(s, c)) - 1
      BY <3>1, <3>2, PendingIsFinite, FS_RemoveElement
    <3>4. failures'[s][c] = failures[s][c] + 1
      BY <1>7, <2>1 DEF RecordFailure, SessionTypeOK
    <3>5. failures[s][c] + Cardinality(Pending(s, c)) <= MaxFailures - 1 + Cardinality(Threads(s))
      BY DEF AttemptsBounded
    <3> QED
      BY <1>2, <3>3, <3>4, <3>5, PendingIsFinite, SessionAssumption
  <2>2. CASE ~(s = Home[l] /\ c = login[l].client)
    <3>1. failures'[s][c] = failures[s][c]
      BY <1>7, <2>2, SessionAssumption DEF RecordFailure, SessionTypeOK
    <3>2. Pending(s, c)' \subseteq Pending(s, c)
      BY <1>7, <2>2 DEF RecordFailure, Pending, Threads, SessionTypeOK, LoginIdle
    <3> QED
      BY <1>1, <1>2, <3>1, <3>2, BoundKept
  <2> QED
    BY <2>1, <2>2
<1>8. ASSUME NEW l \in Logins, Verified(l)
      PROVE  failures'[s][c] + Cardinality(Pending(s, c)') <= MaxFailures - 1 + Cardinality(Threads(s))
  <2>1. failures'[s][c] <= failures[s][c]
    BY <1>2, <1>8, SessionAssumption DEF Verified, SessionTypeOK
  <2>2. Pending(s, c)' \subseteq Pending(s, c)
    BY <1>8 DEF Verified, Pending, Threads, SessionTypeOK, LoginStates
  <2> QED
    BY <1>1, <2>1, <2>2, BoundKept
<1>9. ASSUME NEW l \in Logins, NEW t \in Tokens, CreateSession(l, t)
      PROVE  failures'[s][c] + Cardinality(Pending(s, c)') <= MaxFailures - 1 + Cardinality(Threads(s))
  <2>1. Pending(s, c)' \subseteq Pending(s, c)
    BY <1>9 DEF CreateSession, Pending, Threads, SessionTypeOK, LoginIdle
  <2> QED
    BY <1>1, <1>2, <1>9, <2>1, BoundKept DEF CreateSession
<1> QED
  BY <1>3, <1>4, <1>5, <1>6, <1>7, <1>8, <1>9, ThrottleFrame DEF sessionVars, loginVars

-----------------------------------------------------------------------------
(* The passwords. *)

\* Every step keeps the passwords in order.
LEMMA OrderKept ==
  ASSUME SessionTypeOK, PasswordsInOrder, [SessionNext]_sessionVars
  PROVE  PasswordsInOrder'
<1> USE DEF PasswordsInOrder, SessionTypeOK
<1>1. CASE UNCHANGED <<password, invented, covered>>
  BY <1>1
<1>2. ASSUME NEW s \in Servers, CountUsers(s) \/ Announce(s) \/ StopServer(s)
      PROVE  PasswordsInOrder'
  BY <1>1, <1>2 DEF CountUsers, Announce, StopServer, accountVars
<1>3. ASSUME NEW s \in Servers, CreateAdmin(s)
      PROVE  PasswordsInOrder'
  BY <1>3 DEF CreateAdmin
<1>4. ASSUME NEW o \in Operators, CreateByOperator(o)
      PROVE  PasswordsInOrder'
  BY <1>4 DEF CreateByOperator
<1>5. ASSUME NEW o \in Operators, UpdatePassword(o)
      PROVE  PasswordsInOrder'
  BY <1>5 DEF UpdatePassword
<1>6. ASSUME NEW o \in Operators, RevokeAll(o)
      PROVE  PasswordsInOrder'
  BY <1>6 DEF RevokeAll, accountVars
<1> QED
  BY <1>1, <1>2, <1>3, <1>4, <1>5, <1>6, AccountFrame DEF sessionVars, accountVars

\* Every step keeps the bootstrap single.
LEMMA OneBootstrapKept ==
  ASSUME SessionTypeOK, PasswordsInOrder, OneBootstrap, [SessionNext]_sessionVars
  PROVE  OneBootstrap'
<1> USE DEF OneBootstrap, SessionTypeOK
<1>1. CASE UNCHANGED <<password, told, server>>
  BY <1>1
<1>2. ASSUME NEW s \in Servers, CountUsers(s)
      PROVE  OneBootstrap'
  BY <1>2 DEF CountUsers, accountVars
<1>3. ASSUME NEW s \in Servers, CreateAdmin(s)
      PROVE  OneBootstrap'
  <2>1. CASE password = 0
    <3>1. invented = 0
      BY <2>1 DEF PasswordsInOrder
    <3>2. server' = [server EXCEPT ![s] = [step |-> "created", password |-> 1]] /\ password' = 1
      BY <1>3, <2>1, <3>1 DEF CreateAdmin
    <3>3. told' = told
      BY <1>3 DEF CreateAdmin
    <3> QED
      BY <3>2, <3>3
  <2>2. CASE password # 0
    <3>1. server' = [server EXCEPT ![s].step = "up"] /\ password' = password /\ told' = told
      BY <1>3, <2>2 DEF CreateAdmin
    <3>2. \A p \in Servers : server'[p].step = "created" => server'[p] = server[p]
      BY <3>1 DEF ServerStates
    <3> QED
      BY <3>1, <3>2
  <2> QED
    BY <2>1, <2>2
<1>4. ASSUME NEW s \in Servers, Announce(s)
      PROVE  OneBootstrap'
  BY <1>4 DEF Announce
<1>5. ASSUME NEW s \in Servers, StopServer(s)
      PROVE  OneBootstrap'
  BY <1>5 DEF StopServer, accountVars
<1>6. ASSUME UNCHANGED <<told, server>>, password' # 0 \/ password' = password
      PROVE  OneBootstrap'
  BY <1>6
<1>7. ASSUME NEW o \in Operators, CreateByOperator(o)
      PROVE  OneBootstrap'
  BY <1>6, <1>7 DEF CreateByOperator
<1>8. ASSUME NEW o \in Operators, UpdatePassword(o)
      PROVE  OneBootstrap'
  BY <1>6, <1>8 DEF UpdatePassword
<1>9. ASSUME NEW o \in Operators, RevokeAll(o)
      PROVE  OneBootstrap'
  BY <1>6, <1>9 DEF RevokeAll, accountVars
<1> QED
  BY <1>1, <1>2, <1>3, <1>4, <1>5, <1>7, <1>8, <1>9, AccountFrame DEF sessionVars, accountVars

-----------------------------------------------------------------------------
(* The sessions. *)

\* A step makes a session valid only by opening it, and never one that has ended.
StaysOrOpens(t) ==
  /\ session[t] \in {"ended", "purged"} => session'[t] \in {"ended", "purged"}
  /\ \/ session'[t] # "valid"
     \/ /\ session[t] = "valid"
        /\ opened'[t] = opened[t]
        /\ t \in slipped => t \in slipped'
     \/ \E l \in Logins : CreateSession(l, t)

\* Every step respects that.
LEMMA OnlyLoginsOpen ==
  ASSUME SessionTypeOK, [SessionNext]_sessionVars, NEW t \in Tokens
  PROVE  StaysOrOpens(t)
<1>1. CASE UNCHANGED tokenVars
  BY <1>1 DEF StaysOrOpens, tokenVars
<1>2. ASSUME NEW l \in Logins, NEW k \in Tokens, CreateSession(l, k)
      PROVE  StaysOrOpens(t)
  <2>1. CASE k = t
    BY <1>2, <2>1 DEF StaysOrOpens, CreateSession, SessionTypeOK
  <2>2. CASE k # t
    BY <1>2, <2>2 DEF StaysOrOpens, CreateSession, SessionTypeOK
  <2> QED
    BY <2>1, <2>2
<1>3. ASSUME NEW b \in Bearers, NEW k \in Tokens, Resolve(b, k)
      PROVE  StaysOrOpens(t)
  BY <1>3 DEF StaysOrOpens, Resolve
<1>4. ASSUME NEW b \in Bearers, Serve(b)
      PROVE  StaysOrOpens(t)
  <2>1. session'[t] = session[t] \/ (session[t] = "valid" /\ session'[t] = "ended")
    BY <1>4 DEF Serve, SessionTypeOK
  <2> QED
    BY <1>4, <2>1 DEF StaysOrOpens, Serve
<1>5. ASSUME NEW k \in Tokens, Expire(k)
      PROVE  StaysOrOpens(t)
  BY <1>5 DEF StaysOrOpens, Expire, SessionTypeOK
<1>6. ASSUME Purge
      PROVE  StaysOrOpens(t)
  BY <1>6 DEF StaysOrOpens, Purge
<1>7. ASSUME NEW o \in Operators, RevokeAll(o)
      PROVE  StaysOrOpens(t)
  BY <1>7 DEF StaysOrOpens, RevokeAll
<1>8. CASE UNCHANGED sessionVars
  BY <1>1, <1>8 DEF StaysOrOpens, sessionVars
<1>9. ASSUME NEW s \in Servers, CountUsers(s) \/ CreateAdmin(s) \/ Announce(s) \/ StopServer(s)
      PROVE  StaysOrOpens(t)
  BY <1>1, <1>9 DEF StaysOrOpens, CountUsers, CreateAdmin, Announce, StopServer
<1>10. ASSUME NEW s \in Servers, NEW c \in Clients, LockoutEnds(s, c)
       PROVE  StaysOrOpens(t)
  BY <1>1, <1>10 DEF StaysOrOpens, LockoutEnds
<1>11. ASSUME NEW l \in Logins, NEW c \in Clients, LetIn(l, c)
       PROVE  StaysOrOpens(t)
  BY <1>1, <1>11 DEF StaysOrOpens, LetIn
<1>12. ASSUME NEW l \in Logins, ReadUser(l) \/ RecordFailure(l) \/ Verified(l)
       PROVE  StaysOrOpens(t)
  BY <1>1, <1>12 DEF StaysOrOpens, ReadUser, RecordFailure, Verified
<1>13. ASSUME NEW o \in Operators,
              LookUp(o) \/ CreateByOperator(o) \/ UpdatePassword(o) \/ Interrupt(o)
       PROVE  StaysOrOpens(t)
  BY <1>1, <1>13 DEF StaysOrOpens, LookUp, CreateByOperator, UpdatePassword, Interrupt
<1> QED
  <2>1. CASE \E s \in Servers :
               \/ CountUsers(s) \/ CreateAdmin(s) \/ Announce(s) \/ StopServer(s)
               \/ \E c \in Clients : LockoutEnds(s, c)
    BY <1>9, <1>10, <2>1
  <2>2. CASE \E l \in Logins :
               \/ \E c \in Clients : LetIn(l, c)
               \/ ReadUser(l) \/ RecordFailure(l) \/ Verified(l)
               \/ \E k \in Tokens : CreateSession(l, k)
    BY <1>2, <1>11, <1>12, <2>2
  <2>3. CASE \E o \in Operators :
               \/ LookUp(o) \/ CreateByOperator(o) \/ UpdatePassword(o) \/ RevokeAll(o)
               \/ Interrupt(o)
    BY <1>7, <1>13, <2>3
  <2> QED
    BY <1>3, <1>4, <1>5, <1>6, <1>8, <2>1, <2>2, <2>3 DEF SessionNext

\* Every step keeps sessions in line with the password.
LEMMA FollowKept ==
  ASSUME SessionTypeOK, PasswordsInOrder, SessionsFollowPassword, [SessionNext]_sessionVars
  PROVE  SessionsFollowPassword'
<1>1. \/ password' = password /\ covered' = covered
      \/ password' = invented + 1 /\ covered' = covered
      \/ \E o \in Operators : RevokeAll(o)
  BY AccountFrame
     DEF CountUsers, CreateAdmin, Announce, StopServer, CreateByOperator, UpdatePassword,
         sessionVars, accountVars
<1>2. SUFFICES ASSUME NEW t \in Tokens, session'[t] = "valid", opened'[t] # password',
                      t \notin slipped'
               PROVE  password' # covered'
  BY DEF SessionsFollowPassword
<1>3. ASSUME NEW o \in Operators
      PROVE  ~RevokeAll(o)
  BY <1>2 DEF RevokeAll
<1>4. ASSUME NEW l \in Logins
      PROVE  ~CreateSession(l, t)
  BY <1>2 DEF CreateSession, SessionTypeOK, accountVars
<1>5. session[t] = "valid" /\ opened'[t] = opened[t] /\ t \notin slipped
  BY <1>2, <1>4, OnlyLoginsOpen DEF StaysOrOpens
<1> QED
  BY <1>1, <1>2, <1>3, <1>5 DEF SessionsFollowPassword, PasswordsInOrder, SessionTypeOK

-----------------------------------------------------------------------------
(* The theorems. *)

\* What the safety theorems rest on.
SessionInv ==
  /\ SessionTypeOK
  /\ AttemptsBounded
  /\ PasswordsInOrder
  /\ OneBootstrap
  /\ SessionsFollowPassword

LEMMA SessionInitInv == SessionInit => SessionInv
<1> SUFFICES ASSUME SessionInit
             PROVE  SessionInv
  OBVIOUS
<1>1. SessionTypeOK
  BY SessionInitTypes
<1>2. AttemptsBounded
  <2> SUFFICES ASSUME NEW s \in Servers, NEW c \in Clients
               PROVE  failures[s][c] + Cardinality(Pending(s, c))
                        <= MaxFailures - 1 + Cardinality(Threads(s))
    BY DEF AttemptsBounded
  <2>1. Pending(s, c) = {}
    BY DEF Pending, SessionInit, LoginIdle, Threads
  <2>2. failures[s][c] = 0
    BY DEF SessionInit
  <2> QED
    BY <2>1, <2>2, PendingIsFinite, FS_EmptySet, SessionAssumption
<1>3. PasswordsInOrder /\ OneBootstrap /\ SessionsFollowPassword
  BY DEF SessionInit, PasswordsInOrder, OneBootstrap, SessionsFollowPassword
<1> QED
  BY <1>1, <1>2, <1>3 DEF SessionInv

\* Every reachable state satisfies the invariant.
THEOREM SessionSafety == SessionSpec => []SessionInv
<1>1. SessionInv /\ [SessionNext]_sessionVars => SessionInv'
  BY SessionTypesKept, AttemptsStayBounded, OrderKept, OneBootstrapKept, FollowKept DEF SessionInv
<1> QED
  BY <1>1, SessionInitInv, PTL DEF SessionSpec

\* The throttle lets one client guess at most MaxFailures - 1 + threads times in a row.
THEOREM LockoutHolds == SessionSpec => []LockoutBounds
<1>1. SessionInv => LockoutBounds
  BY PendingIsFinite, SessionAssumption
     DEF SessionInv, LockoutBounds, AttemptsBounded, SessionTypeOK
<1> QED
  BY <1>1, SessionSafety, PTL

\* A session outlives its password only until the revocation, or if its login slipped by.
THEOREM SessionsFollow == SessionSpec => []SessionsFollowPassword
<1>1. SessionInv => SessionsFollowPassword
  BY DEF SessionInv
<1> QED
  BY <1>1, SessionSafety, PTL

\* Of all the passwords starting processes generate, one at most is announced.
THEOREM OnePasswordTold == SessionSpec => []ToldOnce
<1>1. SessionInv => ToldOnce
  BY DEF SessionInv, OneBootstrap, ToldOnce
<1> QED
  BY <1>1, SessionSafety, PTL

\* No step makes a session valid that was revoked, has expired or was purged.
THEOREM EndedSessionsStayEnded == SessionSpec => EndedForGood
<1>1. SessionInv /\ [SessionNext]_sessionVars =>
        [\A t \in Tokens : session[t] \in {"ended", "purged"} =>
                             session'[t] \in {"ended", "purged"}]_sessionVars
  BY OnlyLoginsOpen DEF SessionInv, StaysOrOpens
<1> QED
  BY <1>1, SessionSafety, PTL DEF SessionSpec, EndedForGood

=============================================================================
