--------------------------- MODULE SessionsProofs ---------------------------
(***************************************************************************)
(* Proofs about Sessions, for every set of users, sessions and requests    *)
(* and every value of the lifetimes: type correctness, the safety          *)
(* invariants, and that the session code implements SessionLifecycle.      *)
(***************************************************************************)
EXTENDS Sessions, TLAPS

(***************************************************************************)
(* The inductive invariant.  TypeOK alone is not inductive (a status is    *)
(* looked up through the owner of a row, which must exist), and the safety *)
(* invariants follow only once it is known what requests in flight hold.   *)
(***************************************************************************)

Opened(s) == sessions[s].status # "NONE"

\* A row that exists has an owner and names the newest token; a row that
\* does not exist has no tokens.
RowsOK ==
  \A s \in SessionIds :
    IF Opened(s)
    THEN /\ sessions[s].userId \in Users
         /\ Len(issued[s]) >= 1
         /\ sessions[s].refreshTokenHash = Len(issued[s])
    ELSE /\ sessions[s] = NoRow
         /\ issued[s] = <<>>
         /\ access[s] = 0

\* A refresh under way is about an existing row, whose expiry is still the
\* one it read; it raises an alert only about a closed session.
RefreshOK ==
  \A r \in RefreshRequests :
    refreshReq[r].pc \in {"decide", "alert"} =>
      /\ refreshReq[r].sid \in SessionIds
      /\ Opened(refreshReq[r].sid)
      /\ refreshReq[r].row.expiresAt = sessions[refreshReq[r].sid].expiresAt
      /\ refreshReq[r].pc = "alert" => Closed(refreshReq[r].sid)

\* A session that was unusable when a request arrived is still unusable.
AuthOK ==
  \A q \in AuthRequests :
    authReq[q].pc = "reading" =>
      /\ authReq[q].sid \in SessionIds
      /\ Opened(authReq[q].sid)
      /\ authReq[q].deadAtArrival =>
           ~Usable(authReq[q].sid) /\ authReq[q].session # "active"

\* The sessions a status change must close belong to its target.
AdminOK ==
  \A a \in AdminRequests :
    adminReq[a].pc # "idle" =>
      /\ adminReq[a].userId \in Users
      /\ \A s \in adminReq[a].before : sessions[s].userId = adminReq[a].userId

Inv ==
  /\ TypeOK
  /\ RowsOK
  /\ RefreshOK
  /\ AuthOK
  /\ AdminOK
  /\ DeactivationClosesSessions
  /\ AlertMeansClosed

(***************************************************************************)
(* What any step may do to the table: a row that exists keeps its owner    *)
(* and its expiry, and a closed row stays closed.                          *)
(***************************************************************************)
Evolves ==
  /\ now' >= now
  /\ \A s \in SessionIds :
       Opened(s) =>
         /\ sessions'[s].userId = sessions[s].userId
         /\ sessions'[s].expiresAt = sessions[s].expiresAt
         /\ sessions'[s].status # "NONE"
         /\ Closed(s) => Closed(s)'

\* The lifetime a rotation signs is a natural number: it is clamped at zero.
LEMMA RemainingTtlType ==
  ASSUME NEW e \in Nat, NEW t \in Nat
  PROVE  RemainingTtl(e, t) \in Nat
BY SessionConstants DEF RemainingTtl

\* The whole seconds of a JWT claim are a natural number.
LEMMA SecondsType ==
  ASSUME NEW t \in Nat
  PROVE  Seconds(t) \in Nat
BY SessionConstants DEF Seconds

\* So is the exp claim of a signed token.
LEMMA ExpirationTimeType ==
  ASSUME NEW t \in Nat, NEW ttl \in Nat
  PROVE  ExpirationTime(t, ttl) \in Nat
BY SecondsType DEF ExpirationTime

\* The column updates the service issues keep the type of a row.
LEMMA RowEdit ==
  ASSUME NEW row \in SessionRow, NEW st \in SessionStatus, NEW h \in Nat, NEW e \in Nat
  PROVE  /\ [row EXCEPT !.status = st] \in SessionRow
         /\ [row EXCEPT !.refreshTokenHash = h, !.expiresAt = e] \in SessionRow
BY DEF SessionRow

\* The updates of one row keep the type of the table.
LEMMA TableEdit ==
  ASSUME sessions \in [SessionIds -> SessionRow], NEW s \in SessionIds,
         NEW h \in Nat, NEW e \in Nat
  PROVE  /\ Revoke(s) \in [SessionIds -> SessionRow]
         /\ MarkExpired(s) \in [SessionIds -> SessionRow]
         /\ RotateToken(s, h, e) \in [SessionIds -> SessionRow]
<1>1. {"REVOKED", "EXPIRED"} \subseteq SessionStatus
  BY DEF SessionStatus
<1>2. Revoke(s) = [sessions EXCEPT ![s] = [sessions[s] EXCEPT !.status = "REVOKED"]]
  BY DEF Revoke
<1>3. MarkExpired(s) = [sessions EXCEPT ![s] = [sessions[s] EXCEPT !.status = "EXPIRED"]]
  BY DEF MarkExpired
<1>4. RotateToken(s, h, e) =
        [sessions EXCEPT ![s] = [sessions[s] EXCEPT !.refreshTokenHash = h, !.expiresAt = e]]
  BY DEF RotateToken
<1>5. /\ [sessions[s] EXCEPT !.status = "REVOKED"] \in SessionRow
      /\ [sessions[s] EXCEPT !.status = "EXPIRED"] \in SessionRow
      /\ [sessions[s] EXCEPT !.refreshTokenHash = h, !.expiresAt = e] \in SessionRow
  <2>1. sessions[s] \in SessionRow
    OBVIOUS
  <2> QED
    BY <1>1, <2>1, RowEdit
<1> QED
  BY <1>2, <1>3, <1>4, <1>5

\* revokeAllForUser, an update of many rows, keeps it too.
LEMMA TableRevokeAll ==
  ASSUME sessions \in [SessionIds -> SessionRow], NEW u
  PROVE  RevokeAllForUser(u) \in [SessionIds -> SessionRow]
<1>1. "REVOKED" \in SessionStatus
  BY DEF SessionStatus
<1>2. \A s \in SessionIds : [sessions[s] EXCEPT !.status = "REVOKED"] \in SessionRow
  BY <1>1 DEF SessionRow
<1> QED
  BY <1>2 DEF RevokeAllForUser

\* The session read of the middleware keeps the type of its record.
LEMMA SessionSeen ==
  ASSUME NEW rec \in AuthRecord, NEW x \in {"unread", "active", "inactive"}
  PROVE  [rec EXCEPT !.session = x] \in AuthRecord
  BY DEF AuthRecord

\* So does the user read.
LEMMA UserSeen ==
  ASSUME NEW rec \in AuthRecord, NEW x \in StatusSeen
  PROVE  [rec EXCEPT !.user = x] \in AuthRecord
  BY DEF AuthRecord

\* Detecting reuse keeps the type of the record of a refresh.
LEMMA ReuseDetected ==
  ASSUME NEW rec \in RefreshRecord
  PROVE  [rec EXCEPT !.pc = "alert"] \in RefreshRecord
  BY DEF RefreshRecord

\* A move of a status change keeps the type of its record.
LEMMA AdminMoves ==
  ASSUME adminReq \in [AdminRequests -> AdminRecord], NEW a \in AdminRequests,
         NEW pc \in {"revokeAll", "done"}
  PROVE  [adminReq EXCEPT ![a].pc = pc] \in [AdminRequests -> AdminRecord]
<1>1. [adminReq[a] EXCEPT !.pc = pc] \in AdminRecord
  BY DEF AdminRecord
<1> QED
  BY <1>1

\* The inductive invariant holds of an empty session table.
LEMMA InvInit == Init => Inv
<1> SUFFICES ASSUME Init PROVE Inv
  OBVIOUS
<1> USE DEF Init, NoRow, IdleRefresh, IdleAuth, IdleAdmin
<1>1. TypeOK
  BY SessionConstants
  DEF TypeOK, SessionRow, SessionStatus, AccountStatus, RefreshRecord,
      AuthRecord, AdminRecord, Owner, SessionRef, StatusSeen
<1>2. RowsOK
  BY DEF RowsOK, Opened
<1>3. RefreshOK /\ AuthOK /\ AdminOK
  BY DEF RefreshOK, AuthOK, AdminOK
<1>4. DeactivationClosesSessions /\ AlertMeansClosed
  BY DEF DeactivationClosesSessions, AlertMeansClosed
<1> QED
  BY <1>1, <1>2, <1>3, <1>4 DEF Inv

(***************************************************************************)
(* Type correctness of each step.                                          *)
(***************************************************************************)
LEMMA TypeStep == Inv /\ [Next]_vars => TypeOK'
<1> SUFFICES ASSUME Inv, [Next]_vars PROVE TypeOK'
  OBVIOUS
<1> USE SessionConstants
<1>0. TypeOK /\ RowsOK /\ RefreshOK /\ AuthOK /\ AdminOK
  BY DEF Inv
<1> USE DEF TypeOK
<1>a. now \in Nat
  BY <1>0
<1>1. CASE Tick
  BY <1>0, <1>1 DEF Tick
<1>2. ASSUME NEW s \in SessionIds, NEW u \in Users, NEW b \in BOOLEAN,
             IssueTokens(s, u, b)
      PROVE  TypeOK'
  <2> DEFINE ttl == RefreshTtl(b)
  <2>1. ttl \in Nat
    BY DEF RefreshTtl
  <2>b. ttl * TicksPerSecond \in Nat
    BY <2>1
  <2>2. now + ttl * TicksPerSecond \in Nat
    BY <1>a, <2>b
  <2>3. sessions' \in [SessionIds -> SessionRow]
    BY <1>0, <1>2, <2>2 DEF IssueTokens, CreateSession, SessionRow, SessionStatus, Owner
  <2>4. ExpirationTime(now, ttl) \in Nat /\ ExpirationTime(now, JWT_ACCESS_TTL) \in Nat
    BY <1>a, <2>1, ExpirationTimeType
  <2>5. issued' \in [SessionIds -> Seq(Nat)] /\ access' \in [SessionIds -> Nat]
    BY <1>0, <1>2, <2>4 DEF IssueTokens
  <2> QED
    BY <1>0, <1>2, <2>3, <2>5 DEF IssueTokens
<1>3. ASSUME NEW r \in RefreshRequests, NEW s \in SessionIds,
             NEW n \in DOMAIN issued[s], RefreshRead(r, s, n)
      PROVE  TypeOK'
  <2>1. n \in Nat
    BY <1>0
  <2>2. users[sessions[s].userId] \in AccountStatus
    BY <1>0, <1>3 DEF RowsOK, Opened, RefreshRead, FindActiveById
  <2>3. refreshReq' \in [RefreshRequests -> RefreshRecord]
    BY <1>0, <1>3, <2>1, <2>2 DEF RefreshRead, RefreshRecord, SessionRef
  <2> QED
    BY <1>0, <1>3, <2>3 DEF RefreshRead
<1>4. ASSUME NEW r \in RefreshRequests, RefreshStep(r) \/ RefreshCrash(r)
      PROVE  TypeOK'
  <2> USE DEF RefreshRecord
  <2>0. IdleRefresh \in RefreshRecord
    BY DEF IdleRefresh, NoRow, SessionRow, SessionStatus, AccountStatus, Owner, SessionRef
  <2>1. CASE RefreshReuse(r)
    <3>1. refreshReq[r].sid \in SessionIds
      BY <1>0, <2>1 DEF RefreshReuse, RefreshOK
    <3>2. sessions' \in [SessionIds -> SessionRow]
      BY <1>0, <2>1, <3>1, TableEdit DEF RefreshReuse
    <3>3. [refreshReq[r] EXCEPT !.pc = "alert"] \in RefreshRecord
      <4> HIDE DEF RefreshRecord
      <4>1. refreshReq[r] \in RefreshRecord
        BY <1>0
      <4> QED
        BY <4>1, ReuseDetected
    <3>4. refreshReq' = [refreshReq EXCEPT ![r] = [refreshReq[r] EXCEPT !.pc = "alert"]]
      BY <2>1 DEF RefreshReuse
    <3>5. refreshReq' \in [RefreshRequests -> RefreshRecord]
      <4> HIDE DEF RefreshRecord
      <4> QED
        BY <1>0, <3>3, <3>4
    <3> QED
      BY <1>0, <2>1, <3>2, <3>5 DEF RefreshReuse
  <2>2. CASE RefreshAlert(r)
    BY <1>0, <2>0, <2>2 DEF RefreshAlert, RefreshOK
  <2>3. CASE RefreshExpired(r)
    <3>1. refreshReq[r].sid \in SessionIds
      BY <1>0, <2>3 DEF RefreshExpired, RefreshOK
    <3>2. sessions' \in [SessionIds -> SessionRow]
      BY <1>0, <2>3, <3>1, TableEdit DEF RefreshExpired
    <3>3. refreshReq' \in [RefreshRequests -> RefreshRecord]
      BY <1>0, <2>0, <2>3 DEF RefreshExpired
    <3> QED
      BY <1>0, <2>3, <3>2, <3>3 DEF RefreshExpired
  <2>4. CASE RefreshDisabled(r)
    BY <1>0, <2>0, <2>4 DEF RefreshDisabled
  <2>5. CASE RefreshRotate(r)
    <3> DEFINE s == refreshReq[r].sid
               deadline == refreshReq[r].row.expiresAt
               exp == ExpirationTime(now, RemainingTtl(deadline, now))
    <3>1. s \in SessionIds /\ deadline \in Nat
      BY <1>0, <2>5 DEF RefreshRotate, RefreshOK, SessionRow
    <3>2. exp \in Nat /\ ExpirationTime(now, JWT_ACCESS_TTL) \in Nat
      <4>1. RemainingTtl(deadline, now) \in Nat
        BY <1>a, <3>1, RemainingTtlType
      <4> QED
        BY <1>a, <4>1, ExpirationTimeType
    <3>3. issued' \in [SessionIds -> Seq(Nat)]
      BY <1>0, <2>5, <3>1, <3>2 DEF RefreshRotate
    <3>4. access' \in [SessionIds -> Nat]
      BY <1>0, <2>5, <3>1, <3>2 DEF RefreshRotate, Later
    <3>5. sessions' \in [SessionIds -> SessionRow]
      <4>1. Len(issued[s]) + 1 \in Nat
        BY <1>0, <3>1
      <4>2. sessions' = RotateToken(s, Len(issued[s]) + 1, deadline)
        BY <2>5 DEF RefreshRotate
      <4> HIDE DEF s, deadline
      <4> QED
        BY <1>0, <3>1, <4>1, <4>2, TableEdit
    <3>6. refreshReq' \in [RefreshRequests -> RefreshRecord]
      BY <1>0, <2>0, <2>5 DEF RefreshRotate
    <3> QED
      BY <1>0, <2>5, <3>3, <3>4, <3>5, <3>6 DEF RefreshRotate
  <2>6. CASE RefreshCrash(r)
    <3>1. [IdleRefresh EXCEPT !.pc = "crashed"] \in RefreshRecord
      BY DEF IdleRefresh, NoRow, SessionRow, SessionStatus, AccountStatus, Owner, SessionRef
    <3> QED
      BY <1>0, <2>6, <3>1 DEF RefreshCrash
  <2> QED
    BY <1>4, <2>1, <2>2, <2>3, <2>4, <2>5, <2>6 DEF RefreshStep
<1>5. ASSUME NEW s \in SessionIds, Logout(s)
      PROVE  TypeOK'
  <2>1. sessions' \in [SessionIds -> SessionRow]
    BY <1>0, <1>5, TableEdit DEF Logout
  <2> QED
    BY <1>0, <1>5, <2>1 DEF Logout
<1>6. ASSUME NEW q \in AuthRequests, NEW s \in SessionIds, AuthArrive(q, s)
      PROVE  TypeOK'
  <2>1. authReq' \in [AuthRequests -> AuthRecord]
    BY <1>0, <1>6 DEF AuthArrive, IdleAuth, AuthRecord, SessionRef, StatusSeen
  <2> QED
    BY <1>0, <1>6, <2>1 DEF AuthArrive
<1>7. ASSUME NEW q \in AuthRequests,
             AuthFindUser(q) \/ AuthIsSessionActive(q) \/ AuthDone(q)
      PROVE  TypeOK'
  <2>1. CASE AuthFindUser(q)
    <3>0. authReq[q].sid \in SessionIds /\ Opened(authReq[q].sid)
      BY <1>0, <2>1 DEF AuthFindUser, AuthOK
    <3>1. users[sessions[authReq[q].sid].userId] \in AccountStatus
      BY <1>0, <3>0 DEF RowsOK
    <3>2. users[sessions[authReq[q].sid].userId] \in StatusSeen
      BY <3>1 DEF StatusSeen
    <3>3. authReq' \in [AuthRequests -> AuthRecord]
      <4> DEFINE seen == users[sessions[authReq[q].sid].userId]
      <4>1. [authReq[q] EXCEPT !.user = seen] \in AuthRecord
        BY <1>0, <3>2, UserSeen
      <4>2. authReq' = [authReq EXCEPT ![q] = [authReq[q] EXCEPT !.user = seen]]
        BY <2>1 DEF AuthFindUser
      <4> QED
        BY <1>0, <4>1, <4>2
    <3> QED
      BY <1>0, <2>1, <3>3 DEF AuthFindUser
  <2>2. CASE AuthIsSessionActive(q)
    <3>1. authReq' \in [AuthRequests -> AuthRecord]
      <4> DEFINE seen == IF Usable(authReq[q].sid) THEN "active" ELSE "inactive"
      <4>1. [authReq[q] EXCEPT !.session = seen] \in AuthRecord
        <5>1. seen \in {"unread", "active", "inactive"}
          OBVIOUS
        <5> HIDE DEF seen
        <5> QED
          BY <1>0, <5>1, SessionSeen
      <4>2. authReq' = [authReq EXCEPT ![q] = [authReq[q] EXCEPT !.session = seen]]
        BY <2>2 DEF AuthIsSessionActive
      <4> QED
        BY <1>0, <4>1, <4>2
    <3> QED
      BY <1>0, <2>2, <3>1 DEF AuthIsSessionActive
  <2>3. CASE AuthDone(q)
    BY <1>0, <2>3 DEF AuthDone, IdleAuth, AuthRecord, SessionRef, StatusSeen
  <2> QED
    BY <1>7, <2>1, <2>2, <2>3
<1>8. ASSUME NEW a \in AdminRequests, NEW u \in Users, NEW st \in AccountStatus,
             AdminRead(a, u, st)
      PROVE  TypeOK'
  <2>1. adminReq' \in [AdminRequests -> AdminRecord]
    BY <1>0, <1>8 DEF AdminRead, AdminRecord, Owner
  <2> QED
    BY <1>0, <1>8, <2>1 DEF AdminRead
<1>9. ASSUME NEW a \in AdminRequests,
             AdminUpdate(a) \/ AdminRevokeAll(a) \/ AdminCrash(a)
      PROVE  TypeOK'
  <2>1. CASE AdminUpdate(a)
    <3>1. adminReq[a].userId \in Users /\ adminReq[a].status \in AccountStatus
      BY <1>0, <2>1 DEF AdminUpdate, AdminOK, AdminRecord
    <3>2. users' \in [Users -> AccountStatus]
      BY <1>0, <2>1, <3>1 DEF AdminUpdate
    <3>3. adminReq' \in [AdminRequests -> AdminRecord]
      BY <1>0, <2>1, AdminMoves DEF AdminUpdate
    <3> QED
      BY <1>0, <2>1, <3>2, <3>3 DEF AdminUpdate
  <2>2. CASE AdminRevokeAll(a)
    <3>1. sessions' \in [SessionIds -> SessionRow]
      BY <1>0, <2>2, TableRevokeAll DEF AdminRevokeAll
    <3>2. adminReq' \in [AdminRequests -> AdminRecord]
      BY <1>0, <2>2, AdminMoves DEF AdminRevokeAll
    <3> QED
      BY <1>0, <2>2, <3>1, <3>2 DEF AdminRevokeAll
  <2>3. CASE AdminCrash(a)
    BY <1>0, <2>3 DEF AdminCrash, IdleAdmin, AdminRecord, AccountStatus, Owner
  <2> QED
    BY <1>9, <2>1, <2>2, <2>3
<1>10. ASSUME NEW u \in Users, NEW st \in {"ACTIVE", "LOCKED"},
              SignInStatusWrite(u, st)
       PROVE  TypeOK'
  BY <1>0, <1>10 DEF SignInStatusWrite, AccountStatus
<1>11. CASE UNCHANGED vars
  BY <1>0, <1>11 DEF vars
<1> QED
  BY <1>1, <1>2, <1>3, <1>4, <1>5, <1>6, <1>7, <1>8, <1>9, <1>10, <1>11 DEF Next

(***************************************************************************)
(* The table only evolves: no step changes the owner or the expiry of an   *)
(* existing row, or reopens a closed one.  A rotation writes the expiry it *)
(* read earlier, which by RefreshOK is still the row's.                    *)
(***************************************************************************)
LEMMA StepEvolves == Inv /\ [Next]_vars => Evolves
<1> SUFFICES ASSUME Inv, [Next]_vars PROVE Evolves
  OBVIOUS
<1>0. TypeOK /\ RefreshOK
  BY DEF Inv
<1>a. now \in Int /\ sessions \in [SessionIds -> SessionRow]
  BY <1>0, SessionConstants DEF TypeOK
<1>1. CASE UNCHANGED sessions /\ now' \in {now, now + 1}
  BY <1>1, <1>a DEF Evolves, Closed, Opened
<1>2. ASSUME NEW s \in SessionIds, NEW u \in Users, NEW b \in BOOLEAN,
             IssueTokens(s, u, b)
      PROVE  Evolves
  BY <1>2, <1>a DEF IssueTokens, CreateSession, Evolves, Opened, Closed
<1>3. ASSUME NEW s \in SessionIds, sessions' = Revoke(s) \/ sessions' = MarkExpired(s),
             now' = now
      PROVE  Evolves
  BY <1>3, <1>a DEF Revoke, MarkExpired, Evolves, Opened, Closed, SessionRow
<1>4. ASSUME NEW r \in RefreshRequests, RefreshRotate(r)
      PROVE  Evolves
  <2>1. /\ refreshReq[r].sid \in SessionIds
        /\ refreshReq[r].row.expiresAt = sessions[refreshReq[r].sid].expiresAt
        /\ now' = now
    BY <1>0, <1>4 DEF RefreshRotate, RefreshOK
  <2>2. sessions' = RotateToken(refreshReq[r].sid, Len(issued[refreshReq[r].sid]) + 1,
                                refreshReq[r].row.expiresAt)
    BY <1>4 DEF RefreshRotate
  <2>3. \A s \in SessionIds : /\ sessions'[s].status = sessions[s].status
                             /\ sessions'[s].userId = sessions[s].userId
                             /\ sessions'[s].expiresAt = sessions[s].expiresAt
    BY <2>1, <2>2, <1>a DEF RotateToken, SessionRow
  <2> QED
    BY <2>1, <2>3, <1>a DEF Evolves, Opened, Closed
<1>5. ASSUME NEW a \in AdminRequests, AdminRevokeAll(a)
      PROVE  Evolves
  BY <1>5, <1>a DEF AdminRevokeAll, RevokeAllForUser, Evolves, Opened, Closed, SessionRow
<1>6. ASSUME NEW r \in RefreshRequests, RefreshReuse(r) \/ RefreshExpired(r)
      PROVE  Evolves
  BY <1>0, <1>3, <1>6 DEF RefreshReuse, RefreshExpired, RefreshOK
<1>7. ASSUME NEW s \in SessionIds, Logout(s)
      PROVE  Evolves
  BY <1>3, <1>7 DEF Logout
<1>8. CASE Tick \/ UNCHANGED vars
  BY <1>1, <1>8 DEF Tick, vars
<1>9. ASSUME NEW r \in RefreshRequests,
             \/ RefreshAlert(r) \/ RefreshDisabled(r) \/ RefreshCrash(r)
             \/ \E s \in SessionIds : \E n \in DOMAIN issued[s] : RefreshRead(r, s, n)
      PROVE  Evolves
  BY <1>1, <1>9 DEF RefreshAlert, RefreshDisabled, RefreshCrash, RefreshRead
<1>10. ASSUME NEW q \in AuthRequests,
              \/ AuthFindUser(q) \/ AuthIsSessionActive(q) \/ AuthDone(q)
              \/ \E s \in SessionIds : AuthArrive(q, s)
       PROVE  Evolves
  BY <1>1, <1>10 DEF AuthFindUser, AuthIsSessionActive, AuthDone, AuthArrive
<1>11. ASSUME NEW a \in AdminRequests,
              \/ AdminUpdate(a) \/ AdminCrash(a)
              \/ \E u \in Users, st \in AccountStatus : AdminRead(a, u, st)
       PROVE  Evolves
  BY <1>1, <1>11 DEF AdminUpdate, AdminCrash, AdminRead
<1>12. ASSUME NEW u \in Users, NEW st \in {"ACTIVE", "LOCKED"}, SignInStatusWrite(u, st)
       PROVE  Evolves
  BY <1>1, <1>12 DEF SignInStatusWrite
<1> QED
  BY <1>2, <1>4, <1>5, <1>6, <1>7, <1>8, <1>9, <1>10, <1>11, <1>12
  DEF Next, RefreshStep

\* A token that verifies belongs to a session that exists.
LEMMA VerifiedOpened ==
  ASSUME TypeOK, RowsOK, NEW s \in SessionIds,
         \/ \E n \in DOMAIN issued[s] : JwtValid(issued[s][n])
         \/ JwtValid(access[s])
  PROVE  Opened(s)
<1>1. Seconds(now) \in Nat
  <2>1. now \in Nat
    BY SessionConstants DEF TypeOK
  <2> QED
    BY <2>1, SecondsType
<1>2. CASE JwtValid(access[s])
  BY <1>1, <1>2 DEF JwtValid, RowsOK
<1>3. CASE \E n \in DOMAIN issued[s] : JwtValid(issued[s][n])
  BY <1>3 DEF RowsOK
<1> QED
  BY <1>2, <1>3

\* Every step keeps the tokens issued in step with the rows: a row names
\* the newest token signed for it, and a missing row has none.
LEMMA RowsStep == Inv /\ [Next]_vars => RowsOK'
<1> SUFFICES ASSUME Inv, [Next]_vars PROVE RowsOK'
  OBVIOUS
<1>0. TypeOK /\ RowsOK /\ RefreshOK
  BY DEF Inv
<1>a. /\ now \in Int /\ sessions \in [SessionIds -> SessionRow]
      /\ issued \in [SessionIds -> Seq(Nat)] /\ access \in [SessionIds -> Nat]
  BY <1>0, SessionConstants DEF TypeOK
<1>1. CASE UNCHANGED <<sessions, issued, access>>
  BY <1>0, <1>1 DEF RowsOK, Opened
<1>2. ASSUME NEW s \in SessionIds, NEW u \in Users, NEW b \in BOOLEAN,
             IssueTokens(s, u, b)
      PROVE  RowsOK'
  <2> SUFFICES ASSUME NEW t \in SessionIds
               PROVE  IF Opened(t)'
                      THEN /\ sessions'[t].userId \in Users
                           /\ Len(issued'[t]) >= 1
                           /\ sessions'[t].refreshTokenHash = Len(issued'[t])
                      ELSE /\ sessions'[t] = NoRow
                           /\ issued'[t] = <<>>
                           /\ access'[t] = 0
    BY DEF RowsOK
  <2>1. CASE t = s
    BY <1>2, <1>a, <2>1 DEF IssueTokens, CreateSession, Opened
  <2>2. CASE t # s
    BY <1>0, <1>2, <1>a, <2>2 DEF IssueTokens, CreateSession, Opened, RowsOK
  <2> QED
    BY <2>1, <2>2
<1>3. ASSUME NEW s \in SessionIds, Opened(s),
             sessions' = Revoke(s) \/ sessions' = MarkExpired(s),
             UNCHANGED <<issued, access>>
      PROVE  RowsOK'
  <2>1. /\ sessions'[s].status # "NONE"
        /\ sessions'[s].userId = sessions[s].userId
        /\ sessions'[s].refreshTokenHash = sessions[s].refreshTokenHash
    BY <1>3, <1>a DEF Revoke, MarkExpired, SessionRow
  <2>2. \A t \in SessionIds \ {s} : sessions'[t] = sessions[t]
    BY <1>3, <1>a DEF Revoke, MarkExpired
  <2> QED
    BY <1>0, <1>3, <2>1, <2>2 DEF RowsOK, Opened
<1>4. ASSUME NEW r \in RefreshRequests, RefreshRotate(r)
      PROVE  RowsOK'
  <2> DEFINE s == refreshReq[r].sid
             exp == ExpirationTime(now, RemainingTtl(refreshReq[r].row.expiresAt, now))
  <2>1. s \in SessionIds /\ Opened(s)
    BY <1>0, <1>4 DEF RefreshRotate, RefreshOK
  <2>2. /\ sessions' = RotateToken(s, Len(issued[s]) + 1, refreshReq[r].row.expiresAt)
        /\ issued' = [issued EXCEPT ![s] = Append(issued[s], exp)]
        /\ access' = [access EXCEPT ![s] = access'[s]]
    BY <1>4, <1>a, <2>1 DEF RefreshRotate
  <2> HIDE DEF s, exp
  <2>3. Len(issued'[s]) = Len(issued[s]) + 1 /\ Len(issued[s]) \in Nat
    BY <1>a, <2>1, <2>2
  <2>4. /\ sessions'[s].refreshTokenHash = Len(issued[s]) + 1
        /\ sessions'[s].status = sessions[s].status
        /\ sessions'[s].userId = sessions[s].userId
    BY <1>a, <2>1, <2>2 DEF RotateToken, SessionRow
  <2>5. \A t \in SessionIds \ {s} :
          sessions'[t] = sessions[t] /\ issued'[t] = issued[t] /\ access'[t] = access[t]
    BY <1>a, <2>2 DEF RotateToken
  <2> QED
    BY <1>0, <2>1, <2>3, <2>4, <2>5 DEF RowsOK, Opened
<1>5. ASSUME NEW a \in AdminRequests, AdminRevokeAll(a)
      PROVE  RowsOK'
  BY <1>0, <1>5, <1>a DEF AdminRevokeAll, RevokeAllForUser, RowsOK, Opened, SessionRow
<1>6. ASSUME NEW r \in RefreshRequests, RefreshReuse(r) \/ RefreshExpired(r)
      PROVE  RowsOK'
  BY <1>0, <1>3, <1>6 DEF RefreshReuse, RefreshExpired, RefreshOK
<1>7. ASSUME NEW s \in SessionIds, Logout(s)
      PROVE  RowsOK'
  BY <1>0, <1>3, <1>7, VerifiedOpened DEF Logout
<1>8. CASE Tick \/ UNCHANGED vars
  BY <1>1, <1>8 DEF Tick, vars
<1>9. ASSUME NEW r \in RefreshRequests,
             \/ RefreshAlert(r) \/ RefreshDisabled(r) \/ RefreshCrash(r)
             \/ \E s \in SessionIds : \E n \in DOMAIN issued[s] : RefreshRead(r, s, n)
      PROVE  RowsOK'
  BY <1>1, <1>9 DEF RefreshAlert, RefreshDisabled, RefreshCrash, RefreshRead
<1>10. ASSUME NEW q \in AuthRequests,
              \/ AuthFindUser(q) \/ AuthIsSessionActive(q) \/ AuthDone(q)
              \/ \E s \in SessionIds : AuthArrive(q, s)
       PROVE  RowsOK'
  BY <1>1, <1>10 DEF AuthFindUser, AuthIsSessionActive, AuthDone, AuthArrive
<1>11. ASSUME NEW a \in AdminRequests,
              \/ AdminUpdate(a) \/ AdminCrash(a)
              \/ \E u \in Users, st \in AccountStatus : AdminRead(a, u, st)
       PROVE  RowsOK'
  BY <1>1, <1>11 DEF AdminUpdate, AdminCrash, AdminRead
<1>12. ASSUME NEW u \in Users, NEW st \in {"ACTIVE", "LOCKED"}, SignInStatusWrite(u, st)
       PROVE  RowsOK'
  BY <1>1, <1>12 DEF SignInStatusWrite
<1> QED
  BY <1>2, <1>4, <1>5, <1>6, <1>7, <1>8, <1>9, <1>10, <1>11, <1>12
  DEF Next, RefreshStep

(***************************************************************************)
(* Requests in flight.  A step changes the record of one request, or none; *)
(* what the other records say about their session survives because the     *)
(* table only evolves.                                                     *)
(***************************************************************************)
LEMMA RefreshStepOK == Inv /\ [Next]_vars => RefreshOK'
<1> SUFFICES ASSUME Inv, [Next]_vars PROVE RefreshOK'
  OBVIOUS
<1>0. TypeOK /\ RowsOK /\ RefreshOK /\ Evolves
  BY StepEvolves DEF Inv
<1>a. /\ refreshReq \in [RefreshRequests -> RefreshRecord]
      /\ sessions \in [SessionIds -> SessionRow]
  BY <1>0 DEF TypeOK
<1>1. CASE UNCHANGED refreshReq
  BY <1>0, <1>1 DEF RefreshOK, Evolves, Opened, Closed
<1>2. ASSUME NEW r \in RefreshRequests, NEW s \in SessionIds,
             NEW n \in DOMAIN issued[s], RefreshRead(r, s, n)
      PROVE  RefreshOK'
  BY <1>0, <1>2, <1>a
  DEF RefreshRead, FindActiveById, RefreshOK, Opened, Closed
<1>3. ASSUME NEW r \in RefreshRequests, RefreshReuse(r)
      PROVE  RefreshOK'
  <2>1. refreshReq[r].sid \in SessionIds /\ sessions'[refreshReq[r].sid].status = "REVOKED"
    BY <1>0, <1>3, <1>a DEF RefreshReuse, Revoke, RefreshOK, SessionRow
  <2>2. refreshReq' = [refreshReq EXCEPT ![r].pc = "alert"] /\ refreshReq[r].pc = "decide"
    BY <1>3 DEF RefreshReuse
  <2> QED
    BY <1>0, <1>a, <2>1, <2>2 DEF RefreshOK, Evolves, Opened, Closed, RefreshRecord
<1>4. ASSUME NEW r \in RefreshRequests,
             refreshReq'[r].pc \in {"idle", "crashed"},
             \A t \in RefreshRequests \ {r} : refreshReq'[t] = refreshReq[t]
      PROVE  RefreshOK'
  BY <1>0, <1>a, <1>4 DEF RefreshOK, Evolves, Opened, Closed
<1>5. ASSUME NEW r \in RefreshRequests,
             RefreshAlert(r) \/ RefreshExpired(r) \/ RefreshDisabled(r)
             \/ RefreshRotate(r) \/ RefreshCrash(r)
      PROVE  RefreshOK'
  <2>1. IdleRefresh.pc = "idle" /\ [IdleRefresh EXCEPT !.pc = "crashed"].pc = "crashed"
    BY DEF IdleRefresh
  <2>2. \/ refreshReq' = [refreshReq EXCEPT ![r] = IdleRefresh]
        \/ refreshReq' = [refreshReq EXCEPT ![r] = [IdleRefresh EXCEPT !.pc = "crashed"]]
    BY <1>5
    DEF RefreshAlert, RefreshExpired, RefreshDisabled, RefreshRotate, RefreshCrash
  <2>3. /\ refreshReq'[r].pc \in {"idle", "crashed"}
        /\ \A t \in RefreshRequests \ {r} : refreshReq'[t] = refreshReq[t]
    BY <1>a, <2>1, <2>2
  <2> QED
    BY <1>4, <2>3
<1>6. ASSUME NEW q \in AuthRequests,
             \/ AuthFindUser(q) \/ AuthIsSessionActive(q) \/ AuthDone(q)
             \/ \E s \in SessionIds : AuthArrive(q, s)
      PROVE  RefreshOK'
  BY <1>1, <1>6 DEF AuthFindUser, AuthIsSessionActive, AuthDone, AuthArrive
<1>7. ASSUME NEW a \in AdminRequests,
             \/ AdminUpdate(a) \/ AdminCrash(a) \/ AdminRevokeAll(a)
             \/ \E u \in Users, st \in AccountStatus : AdminRead(a, u, st)
      PROVE  RefreshOK'
  BY <1>1, <1>7 DEF AdminUpdate, AdminCrash, AdminRevokeAll, AdminRead
<1>8. CASE \/ Tick \/ UNCHANGED vars
           \/ \E s \in SessionIds : Logout(s)
           \/ \E s \in SessionIds, u \in Users, b \in BOOLEAN : IssueTokens(s, u, b)
           \/ \E u \in Users, st \in {"ACTIVE", "LOCKED"} : SignInStatusWrite(u, st)
  BY <1>1, <1>8 DEF Tick, vars, Logout, IssueTokens, SignInStatusWrite
<1> QED
  BY <1>2, <1>3, <1>5, <1>6, <1>7, <1>8 DEF Next, RefreshStep

\* Every step keeps AuthOK: a session unusable when a request arrived can
\* not become usable, so a later read of it never finds it active.
LEMMA AuthStepOK == Inv /\ [Next]_vars => AuthOK'
<1> SUFFICES ASSUME Inv, [Next]_vars PROVE AuthOK'
  OBVIOUS
<1>0. TypeOK /\ RowsOK /\ AuthOK /\ Evolves
  BY StepEvolves DEF Inv
<1>a. /\ authReq \in [AuthRequests -> AuthRecord]
      /\ sessions \in [SessionIds -> SessionRow]
      /\ now \in Int
      /\ \A s \in SessionIds : sessions[s].expiresAt \in Int
  BY <1>0, SessionConstants DEF TypeOK, SessionRow
<1>b. now' \in Int
  BY TypeStep, SessionConstants DEF TypeOK
\* A session that exists and is unusable stays unusable.
<1>c. \A s \in SessionIds : Opened(s) => Opened(s)' /\ (~Usable(s) => ~Usable(s)')
  <2> SUFFICES ASSUME NEW s \in SessionIds, Opened(s)
               PROVE  Opened(s)' /\ (~Usable(s) => ~Usable(s)')
    OBVIOUS
  <2>1. sessions[s].status \in SessionStatus /\ sessions[s].expiresAt \in Int
    BY <1>a DEF SessionRow
  <2> QED
    BY <1>0, <1>a, <1>b, <2>1 DEF Evolves, Opened, Usable, Closed, SessionStatus
<1>1. CASE UNCHANGED authReq
  BY <1>0, <1>1, <1>c DEF AuthOK
<1>2. ASSUME NEW q \in AuthRequests, NEW s \in SessionIds, AuthArrive(q, s)
      PROVE  AuthOK'
  <2>1. Opened(s)
    BY <1>0, <1>2, VerifiedOpened DEF AuthArrive
  <2>2. /\ authReq' = [authReq EXCEPT ![q] =
             [IdleAuth EXCEPT !.pc = "reading", !.sid = s, !.deadAtArrival = ~Usable(s)]]
        /\ UNCHANGED <<now, sessions>>
    BY <1>2 DEF AuthArrive
  <2>3. Opened(s)' /\ (Usable(s)' <=> Usable(s))
    BY <2>1, <2>2 DEF Opened, Usable
  <2>4. /\ authReq'[q].sid = s /\ authReq'[q].session # "active"
        /\ authReq'[q].deadAtArrival => ~Usable(s)'
    BY <1>a, <2>2, <2>3 DEF IdleAuth
  <2>5. \A p \in AuthRequests \ {q} : authReq'[p] = authReq[p]
    BY <1>a, <2>2
  <2> QED
    BY <1>0, <1>c, <2>3, <2>4, <2>5 DEF AuthOK
<1>3. ASSUME NEW q \in AuthRequests, AuthFindUser(q)
      PROVE  AuthOK'
  BY <1>0, <1>a, <1>c, <1>3 DEF AuthFindUser, AuthOK, AuthRecord
<1>4. ASSUME NEW q \in AuthRequests, AuthIsSessionActive(q)
      PROVE  AuthOK'
  <2>1. /\ authReq' = [authReq EXCEPT ![q].session =
                          IF Usable(authReq[q].sid) THEN "active" ELSE "inactive"]
        /\ authReq[q].pc = "reading"
    BY <1>4 DEF AuthIsSessionActive
  <2>2. /\ authReq'[q].pc = "reading"
        /\ authReq'[q].sid = authReq[q].sid
        /\ authReq'[q].deadAtArrival = authReq[q].deadAtArrival
        /\ ~Usable(authReq[q].sid) => authReq'[q].session = "inactive"
    BY <1>a, <2>1 DEF AuthRecord
  <2>3. \A p \in AuthRequests \ {q} : authReq'[p] = authReq[p]
    BY <1>a, <2>1
  <2> QED
    BY <1>0, <1>c, <2>1, <2>2, <2>3 DEF AuthOK
<1>5. ASSUME NEW q \in AuthRequests, AuthDone(q)
      PROVE  AuthOK'
  BY <1>0, <1>a, <1>c, <1>5 DEF AuthDone, AuthOK, IdleAuth
<1>6. CASE UNCHANGED vars
  BY <1>1, <1>6 DEF vars
<1>7. ASSUME NEW r \in RefreshRequests, RefreshStep(r) \/ RefreshCrash(r)
      PROVE  AuthOK'
  BY <1>1, <1>7
  DEF RefreshStep, RefreshReuse, RefreshAlert, RefreshExpired, RefreshDisabled,
      RefreshRotate, RefreshCrash
<1>8. ASSUME NEW a \in AdminRequests,
             \/ AdminUpdate(a) \/ AdminCrash(a) \/ AdminRevokeAll(a)
             \/ \E u \in Users, st \in AccountStatus : AdminRead(a, u, st)
      PROVE  AuthOK'
  BY <1>1, <1>8 DEF AdminUpdate, AdminCrash, AdminRevokeAll, AdminRead
<1>9. CASE \/ Tick
           \/ \E s \in SessionIds : Logout(s)
           \/ \E s \in SessionIds, u \in Users, b \in BOOLEAN : IssueTokens(s, u, b)
           \/ \E r \in RefreshRequests, s \in SessionIds :
                \E n \in DOMAIN issued[s] : RefreshRead(r, s, n)
           \/ \E u \in Users, st \in {"ACTIVE", "LOCKED"} : SignInStatusWrite(u, st)
  BY <1>1, <1>9 DEF Tick, Logout, IssueTokens, RefreshRead, SignInStatusWrite
<1> QED
  BY <1>2, <1>3, <1>4, <1>5, <1>6, <1>7, <1>8, <1>9 DEF Next

\* Every step keeps what a status change knows of its target; a finished
\* one has closed the sessions it found, which nothing reopens.
LEMMA AdminStepOK == Inv /\ [Next]_vars => AdminOK' /\ DeactivationClosesSessions'
<1> SUFFICES ASSUME Inv, [Next]_vars
             PROVE  AdminOK' /\ DeactivationClosesSessions'
  OBVIOUS
<1>0. /\ TypeOK /\ RowsOK /\ AdminOK /\ Evolves
      /\ DeactivationClosesSessions
  BY StepEvolves DEF Inv
<1>a. /\ adminReq \in [AdminRequests -> AdminRecord]
      /\ sessions \in [SessionIds -> SessionRow]
  BY <1>0 DEF TypeOK
\* The sessions a status change must close exist, and keep their owner.
<1>b. \A a \in AdminRequests : adminReq[a].pc # "idle" =>
        \A s \in adminReq[a].before :
          /\ s \in SessionIds /\ Opened(s)
          /\ sessions'[s].userId = sessions[s].userId
          /\ Closed(s) => Closed(s)'
  <2> SUFFICES ASSUME NEW a \in AdminRequests, adminReq[a].pc # "idle",
                      NEW s \in adminReq[a].before
               PROVE  /\ s \in SessionIds /\ Opened(s)
                      /\ sessions'[s].userId = sessions[s].userId
                      /\ Closed(s) => Closed(s)'
    OBVIOUS
  <2>1. s \in SessionIds
    BY <1>a DEF AdminRecord
  <2>2. sessions[s].userId \in Users
    BY <1>0 DEF AdminOK
  <2>3. Opened(s)
    BY <1>0, <2>1, <2>2, SessionConstants DEF RowsOK, NoRow
  <2> QED
    BY <1>0, <2>1, <2>3 DEF Evolves
<1>1. CASE UNCHANGED adminReq
  BY <1>0, <1>1, <1>b DEF AdminOK, DeactivationClosesSessions
<1>2. ASSUME NEW a \in AdminRequests,
             \A b \in AdminRequests \ {a} : adminReq'[b] = adminReq[b],
             adminReq'[a].pc # "idle" =>
               /\ adminReq'[a].userId \in Users
               /\ \A s \in adminReq'[a].before :
                    sessions'[s].userId = adminReq'[a].userId,
             (adminReq'[a].pc = "done" /\ Deactivates(adminReq'[a].status)) =>
               \A s \in adminReq'[a].before : Closed(s)'
      PROVE  AdminOK' /\ DeactivationClosesSessions'
  BY <1>0, <1>2, <1>b DEF AdminOK, DeactivationClosesSessions, Deactivates
<1>3. ASSUME NEW a \in AdminRequests, NEW u \in Users, NEW st \in AccountStatus,
             AdminRead(a, u, st)
      PROVE  AdminOK' /\ DeactivationClosesSessions'
  <2>1. /\ adminReq'[a].pc = "update" /\ adminReq'[a].userId = u
        /\ adminReq'[a].before = {s \in SessionIds : sessions[s].userId = u}
        /\ sessions' = sessions
        /\ \A b \in AdminRequests \ {a} : adminReq'[b] = adminReq[b]
    BY <1>a, <1>3 DEF AdminRead
  <2> QED
    BY <1>2, <2>1
<1>4. ASSUME NEW a \in AdminRequests, AdminUpdate(a)
      PROVE  AdminOK' /\ DeactivationClosesSessions'
  <2>1. /\ adminReq[a].pc = "update"
        /\ adminReq'[a].userId = adminReq[a].userId
        /\ adminReq'[a].before = adminReq[a].before
        /\ adminReq'[a].status = adminReq[a].status
        /\ adminReq'[a].pc = "done" => ~Deactivates(adminReq[a].status)
        /\ sessions' = sessions
        /\ \A b \in AdminRequests \ {a} : adminReq'[b] = adminReq[b]
    BY <1>a, <1>4 DEF AdminUpdate, AdminRecord
  <2> QED
    BY <1>0, <1>2, <2>1 DEF AdminOK
<1>5. ASSUME NEW a \in AdminRequests, AdminRevokeAll(a)
      PROVE  AdminOK' /\ DeactivationClosesSessions'
  <2>1. /\ adminReq[a].pc = "revokeAll"
        /\ adminReq'[a].userId = adminReq[a].userId
        /\ adminReq'[a].before = adminReq[a].before
        /\ sessions' = RevokeAllForUser(adminReq[a].userId)
        /\ \A b \in AdminRequests \ {a} : adminReq'[b] = adminReq[b]
    BY <1>a, <1>5 DEF AdminRevokeAll, AdminRecord
  <2>2. /\ adminReq[a].userId \in Users
        /\ \A s \in adminReq[a].before : /\ sessions[s].userId = adminReq[a].userId
                                         /\ s \in SessionIds /\ Opened(s)
                                         /\ sessions'[s].userId = sessions[s].userId
    BY <1>0, <1>b, <2>1 DEF AdminOK
  <2>3. \A s \in adminReq[a].before : Closed(s)'
    <3> SUFFICES ASSUME NEW s \in adminReq[a].before
                 PROVE  Closed(s)'
      OBVIOUS
    <3>1. /\ s \in SessionIds /\ Opened(s)
          /\ sessions[s].userId = adminReq[a].userId
          /\ sessions[s] \in SessionRow
      BY <1>a, <2>2
    <3>2. sessions'[s] = IF sessions[s].status = "ACTIVE"
                         THEN [sessions[s] EXCEPT !.status = "REVOKED"] ELSE sessions[s]
      BY <2>1, <3>1 DEF RevokeAllForUser
    <3> QED
      BY <3>1, <3>2 DEF Closed, Opened, SessionRow, SessionStatus
  <2> QED
    BY <1>2, <2>1, <2>2, <2>3
<1>6. ASSUME NEW a \in AdminRequests, AdminCrash(a)
      PROVE  AdminOK' /\ DeactivationClosesSessions'
  <2>1. /\ adminReq'[a].pc = "idle"
        /\ \A b \in AdminRequests \ {a} : adminReq'[b] = adminReq[b]
    BY <1>a, <1>6 DEF AdminCrash, IdleAdmin
  <2> QED
    BY <1>2, <2>1
<1>7. ASSUME NEW r \in RefreshRequests, RefreshStep(r) \/ RefreshCrash(r)
      PROVE  AdminOK' /\ DeactivationClosesSessions'
  BY <1>1, <1>7
  DEF RefreshStep, RefreshReuse, RefreshAlert, RefreshExpired, RefreshDisabled,
      RefreshRotate, RefreshCrash
<1>8. ASSUME NEW q \in AuthRequests,
             \/ AuthFindUser(q) \/ AuthIsSessionActive(q) \/ AuthDone(q)
             \/ \E s \in SessionIds : AuthArrive(q, s)
      PROVE  AdminOK' /\ DeactivationClosesSessions'
  BY <1>1, <1>8 DEF AuthFindUser, AuthIsSessionActive, AuthDone, AuthArrive
<1>9. CASE \/ Tick \/ UNCHANGED vars
           \/ \E s \in SessionIds : Logout(s)
           \/ \E s \in SessionIds, u \in Users, b \in BOOLEAN : IssueTokens(s, u, b)
           \/ \E r \in RefreshRequests, s \in SessionIds :
                \E n \in DOMAIN issued[s] : RefreshRead(r, s, n)
           \/ \E u \in Users, st \in {"ACTIVE", "LOCKED"} : SignInStatusWrite(u, st)
  BY <1>1, <1>9 DEF Tick, vars, Logout, IssueTokens, RefreshRead, SignInStatusWrite
<1> QED
  BY <1>3, <1>4, <1>5, <1>6, <1>7, <1>8, <1>9 DEF Next

\* Every step keeps alerts about closed sessions only.
LEMMA AlertStepOK == Inv /\ [Next]_vars => AlertMeansClosed'
<1> SUFFICES ASSUME Inv, [Next]_vars PROVE AlertMeansClosed'
  OBVIOUS
<1>0. TypeOK /\ RefreshOK /\ AlertMeansClosed /\ Evolves
  BY StepEvolves DEF Inv
<1>a. \A s \in SessionIds : Closed(s) => Closed(s)'
  BY <1>0 DEF Evolves, Closed, Opened
<1>b. alerts \subseteq SessionIds
  BY <1>0 DEF TypeOK
<1>1. CASE alerts' = alerts
  BY <1>0, <1>1, <1>a, <1>b DEF AlertMeansClosed
<1>2. ASSUME NEW r \in RefreshRequests, RefreshAlert(r)
      PROVE  AlertMeansClosed'
  BY <1>0, <1>2, <1>a, <1>b DEF RefreshAlert, RefreshOK, AlertMeansClosed
<1>3. ASSUME ~ \E r \in RefreshRequests : RefreshAlert(r)
      PROVE  alerts' = alerts
  BY <1>3
  DEF Next, vars, Tick, IssueTokens, RefreshRead, RefreshStep, RefreshReuse,
      RefreshExpired, RefreshDisabled, RefreshRotate, RefreshCrash, Logout,
      AuthArrive, AuthFindUser, AuthIsSessionActive, AuthDone, AdminRead,
      AdminUpdate, AdminRevokeAll, AdminCrash, SignInStatusWrite
<1> QED
  BY <1>1, <1>2, <1>3

\* The inductive invariant holds in every reachable state.
THEOREM InvHolds == Spec => []Inv
<1>1. Inv /\ [Next]_vars => Inv'
  BY TypeStep, RowsStep, RefreshStepOK, AuthStepOK, AdminStepOK, AlertStepOK DEF Inv
<1> QED
  BY InvInit, <1>1, PTL DEF Spec

\* Every variable of the session code keeps its type.
THEOREM TypeCorrect == Spec => []TypeOK
<1>1. Inv => TypeOK
  BY DEF Inv
<1> QED
  BY InvHolds, <1>1, PTL

\* The authenticate middleware never admits a request whose session was
\* closed or past its expiry when the request arrived.
THEOREM ClosedNeverAdmittedHolds == Spec => []ClosedNeverAdmitted
<1>1. Inv => ClosedNeverAdmitted
  BY DEF Inv, AuthOK, ClosedNeverAdmitted, Admitted
<1> QED
  BY InvHolds, <1>1, PTL

\* A status change to DISABLED or LOCKED that has returned has closed every
\* session its target had when it was requested.
THEOREM DeactivationHolds == Spec => []DeactivationClosesSessions
<1>1. Inv => DeactivationClosesSessions
  BY DEF Inv
<1> QED
  BY InvHolds, <1>1, PTL

\* A reuse alert is only ever about a closed session.
THEOREM AlertHolds == Spec => []AlertMeansClosed
<1>1. Inv => AlertMeansClosed
  BY DEF Inv
<1> QED
  BY InvHolds, <1>1, PTL

(***************************************************************************)
(* The lifetime of refresh tokens.                                         *)
(***************************************************************************)
\* Whole seconds: t \div P seconds are at most t ticks.
LEMMA SecondsBound ==
  ASSUME NEW t \in Nat
  PROVE  Seconds(t) * TicksPerSecond <= t
BY SessionConstants DEF Seconds

\* A token signed at or before the deadline e expires within a second of it.
LEMMA RotatedTokenBound ==
  ASSUME NEW e \in Nat, NEW t \in Nat, t <= e
  PROVE  ExpirationTime(t, RemainingTtl(e, t)) * TicksPerSecond <= e + TicksPerSecond
<1> DEFINE P == TicksPerSecond
           left == e - t + P - 1
           ceil == left \div P
<1>1. P \in Nat \ {0} /\ left \in Nat
  BY SessionConstants
<1>2. Seconds(t) \in Nat /\ Seconds(t) * P <= t
  BY SecondsType, SecondsBound
<1>3. ceil \in Nat /\ ceil * P <= left
  BY <1>1
<1>4. CASE ceil < 1
  <2>1. RemainingTtl(e, t) = 1
    BY <1>4 DEF RemainingTtl
  <2>2. (Seconds(t) + 1) * P = Seconds(t) * P + P
    BY <1>1, <1>2
  <2> QED
    BY <1>1, <1>2, <2>1, <2>2 DEF ExpirationTime
<1>5. CASE ~(ceil < 1)
  <2>1. RemainingTtl(e, t) = ceil
    BY <1>5 DEF RemainingTtl
  <2> HIDE DEF ceil
  <2>2. (Seconds(t) + ceil) * P = Seconds(t) * P + ceil * P
    BY <1>1, <1>2, <1>3
  <2> QED
    BY <1>1, <1>2, <1>3, <2>1, <2>2 DEF ExpirationTime
<1> QED
  BY <1>4, <1>5

\* Every step keeps the bound on the expiry of refresh tokens: a row keeps
\* its deadline, and a rotation signs for what remains until it.
LEMMA LifetimeStep == Inv /\ RefreshTokenLifetime /\ [Next]_vars => RefreshTokenLifetime'
<1> SUFFICES ASSUME Inv, RefreshTokenLifetime, [Next]_vars PROVE RefreshTokenLifetime'
  OBVIOUS
<1>0. TypeOK /\ RowsOK /\ RefreshOK /\ Evolves
  BY StepEvolves DEF Inv
<1>a. /\ now \in Nat /\ sessions \in [SessionIds -> SessionRow]
      /\ issued \in [SessionIds -> Seq(Nat)]
      /\ TicksPerSecond \in Nat \ {0}
  BY <1>0, SessionConstants DEF TypeOK
\* A row that does not exist has no token; one that exists keeps its expiry.
<1>1. CASE issued' = issued
  BY <1>0, <1>1 DEF RefreshTokenLifetime, Evolves, RowsOK
<1>2. ASSUME NEW s \in SessionIds, NEW u \in Users, NEW b \in BOOLEAN,
             IssueTokens(s, u, b)
      PROVE  RefreshTokenLifetime'
  <2> DEFINE ttl == RefreshTtl(b)
             exp == ExpirationTime(now, ttl)
  <2>1. ttl \in Nat
    BY SessionConstants DEF RefreshTtl
  <2>2. exp * TicksPerSecond <= now + ttl * TicksPerSecond
    <3>1. Seconds(now) \in Nat /\ Seconds(now) * TicksPerSecond <= now
      BY <1>a, SecondsType, SecondsBound
    <3> HIDE DEF ttl
    <3>2. (Seconds(now) + ttl) * TicksPerSecond
            = Seconds(now) * TicksPerSecond + ttl * TicksPerSecond
      BY <1>a, <2>1, <3>1
    <3>3. ttl * TicksPerSecond \in Nat
      BY <1>a, <2>1
    <3> QED
      BY <1>a, <3>1, <3>2, <3>3 DEF ExpirationTime
  <2>3. /\ issued'[s] = <<exp>>
        /\ sessions'[s].expiresAt = now + ttl * TicksPerSecond
        /\ sessions[s].status = "NONE"
        /\ \A t \in SessionIds \ {s} : issued'[t] = issued[t] /\ sessions'[t] = sessions[t]
    BY <1>2, <1>a DEF IssueTokens, CreateSession
  <2>4. now + ttl * TicksPerSecond \in Nat
    <3>1. ttl * TicksPerSecond \in Nat
      BY <1>a, <2>1
    <3> QED
      BY <1>a, <3>1
  <2> HIDE DEF exp, ttl
  <2>5. \A n \in DOMAIN issued'[s] :
          issued'[s][n] * TicksPerSecond <= sessions'[s].expiresAt + TicksPerSecond
    <3>1. \A n \in DOMAIN issued'[s] : issued'[s][n] = exp
      BY <2>3
    <3>2. exp * TicksPerSecond <= sessions'[s].expiresAt + TicksPerSecond
      <4>1. exp \in Nat
        BY <1>a, <2>1, ExpirationTimeType DEF exp
      <4>2. exp * TicksPerSecond \in Nat
        BY <1>a, <4>1
      <4> QED
        BY <1>a, <2>2, <2>3, <2>4, <4>2
    <3> QED
      BY <3>1, <3>2
  <2> QED
    BY <1>a, <2>3, <2>5 DEF RefreshTokenLifetime
<1>3. ASSUME NEW r \in RefreshRequests, RefreshRotate(r)
      PROVE  RefreshTokenLifetime'
  <2> DEFINE s == refreshReq[r].sid
             deadline == refreshReq[r].row.expiresAt
             exp == ExpirationTime(now, RemainingTtl(deadline, now))
  <2>1. s \in SessionIds /\ deadline = sessions[s].expiresAt /\ deadline \in Nat
    BY <1>0, <1>3, <1>a DEF RefreshRotate, RefreshOK, SessionRow
  <2>2. now <= deadline
    BY <1>3, <1>a, <2>1 DEF RefreshRotate, SnapshotExpired
  <2>3. exp * TicksPerSecond <= deadline + TicksPerSecond
    BY <1>a, <2>1, <2>2, RotatedTokenBound
  <2>4. issued' = [issued EXCEPT ![s] = Append(issued[s], exp)]
    BY <1>3 DEF RefreshRotate
  <2>5. sessions'[s].expiresAt = deadline
    BY <1>0, <1>3, <2>1 DEF RefreshRotate, RefreshOK, Evolves
  <2>6. \A t \in SessionIds : sessions'[t].expiresAt = sessions[t].expiresAt
    BY <1>3, <1>a, <2>1 DEF RefreshRotate, RotateToken, SessionRow
  <2> HIDE DEF s, exp, deadline
  <2>7. \A n \in DOMAIN issued'[s] :
          issued'[s][n] = exp \/ (n \in DOMAIN issued[s] /\ issued'[s][n] = issued[s][n])
    BY <1>a, <2>1, <2>4
  <2>8. \A t \in SessionIds \ {s} : issued'[t] = issued[t]
    BY <1>a, <2>4
  <2> QED
    BY <1>a, <2>1, <2>3, <2>5, <2>6, <2>7, <2>8 DEF RefreshTokenLifetime
<1>4. ASSUME ~ \E r \in RefreshRequests : RefreshRotate(r),
             ~ \E s \in SessionIds, u \in Users, b \in BOOLEAN : IssueTokens(s, u, b)
      PROVE  issued' = issued
  BY <1>4
  DEF Next, vars, Tick, RefreshRead, RefreshStep, RefreshReuse, RefreshAlert,
      RefreshExpired, RefreshDisabled, RefreshCrash, Logout, AuthArrive,
      AuthFindUser, AuthIsSessionActive, AuthDone, AdminRead, AdminUpdate,
      AdminRevokeAll, AdminCrash, SignInStatusWrite
<1> QED
  BY <1>1, <1>2, <1>3, <1>4

\* A refresh token never verifies for more than a second past the expiry of
\* its session, for every lifetime and every number of rotations.
THEOREM RefreshTokenLifetimeHolds == Spec => []RefreshTokenLifetime
<1>1. Init => RefreshTokenLifetime
  BY DEF Init, RefreshTokenLifetime
<1>2. Inv /\ RefreshTokenLifetime /\ [Next]_vars => RefreshTokenLifetime'
  BY LifetimeStep
<1> QED
  BY InvHolds, <1>1, <1>2, PTL DEF Spec

(***************************************************************************)
(* Refinement of SessionLifecycle.                                         *)
(***************************************************************************)
LEMMA RefinesInit == Init => Lifecycle!LifecycleInit
BY DEF Init, NoRow, IdleRefresh, Lifecycle!LifecycleInit, Lifecycle!NoExchange,
       phaseBar, ownerBar, deadlineBar, currentBar, exchangeBar

\* Rows that change only from live to closed, or not at all, and refreshes
\* that end without rotating, are a Close.
LEMMA RefinesClose ==
  ASSUME sessions \in [SessionIds -> SessionRow],
         sessions' \in [SessionIds -> SessionRow],
         \A s \in SessionIds :
           \/ sessions'[s] = sessions[s]
           \/ /\ sessions[s].status # "NONE"
              /\ sessions'[s].status \in {"EXPIRED", "REVOKED"}
              /\ sessions'[s].userId = sessions[s].userId
              /\ sessions'[s].expiresAt = sessions[s].expiresAt
              /\ sessions'[s].refreshTokenHash = sessions[s].refreshTokenHash,
         \A r \in RefreshRequests :
           refreshReq'[r] = refreshReq[r] \/ refreshReq'[r].pc # "decide"
  PROVE  Lifecycle!Close
<1> DEFINE closed == {s \in SessionIds : sessions[s].status = "ACTIVE"
                                         /\ sessions'[s].status # "ACTIVE"}
           ended == {r \in RefreshRequests : refreshReq'[r].pc # "decide"}
<1>1. \A s \in SessionIds : /\ sessions[s].status \in SessionStatus
                            /\ sessions'[s].status \in SessionStatus
  BY DEF SessionRow
<1>2. closed \in SUBSET {s \in SessionIds : phaseBar[s] = "live"}
  BY DEF phaseBar
<1>3. phaseBar' = [s \in SessionIds |-> IF s \in closed THEN "dead" ELSE phaseBar[s]]
  BY <1>1 DEF phaseBar, SessionStatus
<1>4. ended \in SUBSET RefreshRequests
  OBVIOUS
<1>5. exchangeBar' = [r \in RefreshRequests |->
                        IF r \in ended THEN Lifecycle!NoExchange ELSE exchangeBar[r]]
  BY DEF exchangeBar, HashMatches, Lifecycle!NoExchange
<1>6. ownerBar' = ownerBar /\ deadlineBar' = deadlineBar /\ currentBar' = currentBar
  BY DEF ownerBar, deadlineBar, currentBar
<1> HIDE DEF closed, ended
<1> QED
  BY <1>2, <1>3, <1>4, <1>5, <1>6 DEF Lifecycle!Close

\* A refresh that finds its token current begins an exchange; one that finds
\* another token current does not.
LEMMA RefinesBegin ==
  ASSUME Inv, NEW r \in RefreshRequests, NEW s \in SessionIds,
         NEW n \in DOMAIN issued[s], RefreshRead(r, s, n)
  PROVE  Lifecycle!Begin(r, s) \/ UNCHANGED Lifecycle!lifecycleVars
<1> DEFINE seen == [pc |-> "decide", sid |-> s, nonce |-> n, row |-> sessions[s],
                    status |-> users[sessions[s].userId]]
<1>1. /\ refreshReq[r].pc # "decide" /\ sessions[s].status = "ACTIVE"
      /\ refreshReq' = [refreshReq EXCEPT ![r] = seen]
      /\ UNCHANGED sessions
  BY DEF RefreshRead, FindActiveById
<1>2. refreshReq \in [RefreshRequests -> RefreshRecord]
  BY DEF Inv, TypeOK
<1>3. /\ refreshReq'[r] = seen
      /\ \A q \in RefreshRequests \ {r} : refreshReq'[q] = refreshReq[q]
  BY <1>1, <1>2
<1>4. phaseBar' = phaseBar /\ ownerBar' = ownerBar /\ deadlineBar' = deadlineBar
      /\ currentBar' = currentBar
  BY <1>1 DEF phaseBar, ownerBar, deadlineBar, currentBar
<1>5. \A q \in RefreshRequests \ {r} : exchangeBar'[q] = exchangeBar[q]
  BY <1>3 DEF exchangeBar, HashMatches
<1>6. exchangeBar[r] = Lifecycle!NoExchange
  BY <1>1 DEF exchangeBar, Lifecycle!NoExchange
<1>7. exchangeBar'[r] = IF sessions[s].refreshTokenHash = n
                        THEN [sid |-> s, token |-> n] ELSE Lifecycle!NoExchange
  BY <1>3 DEF exchangeBar, HashMatches, Lifecycle!NoExchange
<1>8. /\ exchangeBar = [q \in RefreshRequests |-> exchangeBar[q]]
      /\ exchangeBar' = [q \in RefreshRequests |-> exchangeBar'[q]]
  BY DEF exchangeBar
<1>9. phaseBar[s] = "live" /\ currentBar[s] = sessions[s].refreshTokenHash
  BY <1>1 DEF phaseBar, currentBar
<1> HIDE DEF seen
<1>10. CASE sessions[s].refreshTokenHash = n
  <2>1. exchangeBar' = [exchangeBar EXCEPT ![r] = [sid |-> s, token |-> currentBar[s]]]
    BY <1>5, <1>7, <1>8, <1>9, <1>10, Zenon
  <2> QED
    BY <1>4, <1>6, <1>9, <2>1 DEF Lifecycle!Begin
<1>11. CASE sessions[s].refreshTokenHash # n
  <2>1. exchangeBar' = exchangeBar
    BY <1>5, <1>6, <1>7, <1>8, <1>11, Zenon
  <2> QED
    BY <1>4, <2>1 DEF Lifecycle!lifecycleVars
<1> QED
  BY <1>10, <1>11

\* Every rotation completes an exchange, with a token that is newer than
\* the current one, whether or not it was the current one that was presented.
LEMMA RefinesComplete ==
  ASSUME Inv, TypeOK', NEW r \in RefreshRequests, RefreshRotate(r)
  PROVE  Lifecycle!Complete(r)
<1> DEFINE s == refreshReq[r].sid
           n == Len(issued[s]) + 1
           e == refreshReq[r].row.expiresAt
<1>a. /\ sessions \in [SessionIds -> SessionRow]
      /\ sessions' \in [SessionIds -> SessionRow]
      /\ issued \in [SessionIds -> Seq(Nat)]
      /\ refreshReq \in [RefreshRequests -> RefreshRecord]
  BY DEF Inv, TypeOK
<1>1. /\ s \in SessionIds /\ Opened(s) /\ e = sessions[s].expiresAt
      /\ sessions' = [sessions EXCEPT ![s].refreshTokenHash = n, ![s].expiresAt = e]
      /\ refreshReq' = [refreshReq EXCEPT ![r] = IdleRefresh]
      /\ refreshReq[r].pc = "decide" /\ HashMatches(r)
  BY DEF Inv, RefreshRotate, RefreshOK, RotateToken
<1>2. n \in Nat /\ n > sessions[s].refreshTokenHash
  BY <1>a, <1>1 DEF Inv, RowsOK
<1>3. exchangeBar[r] = [sid |-> s, token |-> refreshReq[r].nonce]
  BY <1>1 DEF exchangeBar
<1>4. exchangeBar' = [exchangeBar EXCEPT ![r] = Lifecycle!NoExchange]
  <2>1. /\ refreshReq'[r] = IdleRefresh
        /\ \A q \in RefreshRequests \ {r} : refreshReq'[q] = refreshReq[q]
    BY <1>a, <1>1
  <2>2. \A q \in RefreshRequests \ {r} : exchangeBar'[q] = exchangeBar[q]
    BY <2>1 DEF exchangeBar, HashMatches
  <2>3. exchangeBar'[r] = Lifecycle!NoExchange
    BY <2>1 DEF exchangeBar, IdleRefresh, Lifecycle!NoExchange
  <2>4. /\ exchangeBar = [q \in RefreshRequests |-> exchangeBar[q]]
        /\ exchangeBar' = [q \in RefreshRequests |-> exchangeBar'[q]]
    BY DEF exchangeBar
  <2> QED
    BY <2>2, <2>3, <2>4, Zenon
<1>5. exchangeBar[r] # Lifecycle!NoExchange
  BY <1>1, <1>3, SessionConstants DEF Lifecycle!NoExchange
<1> HIDE DEF s, n, e
<1>6. /\ sessions'[s].status = sessions[s].status
      /\ sessions'[s].userId = sessions[s].userId
      /\ sessions'[s].expiresAt = sessions[s].expiresAt
      /\ sessions'[s].refreshTokenHash = n
      /\ \A t \in SessionIds \ {s} : sessions'[t] = sessions[t]
  BY <1>a, <1>1 DEF SessionRow
<1>7. phaseBar' = phaseBar /\ ownerBar' = ownerBar /\ deadlineBar' = deadlineBar
  BY <1>6 DEF phaseBar, ownerBar, deadlineBar
<1>8. currentBar'[s] = n /\ currentBar[s] = sessions[s].refreshTokenHash
  BY <1>1, <1>6 DEF currentBar
<1>9. currentBar' = [currentBar EXCEPT ![s] = currentBar'[s]]
  <2>1. \A t \in SessionIds \ {s} : currentBar'[t] = currentBar[t]
    BY <1>6 DEF currentBar
  <2>2. /\ currentBar = [t \in SessionIds |-> currentBar[t]]
        /\ currentBar' = [t \in SessionIds |-> currentBar'[t]]
    BY DEF currentBar
  <2> QED
    BY <2>1, <2>2, <1>1, Zenon
<1>10. exchangeBar[r].sid = s
  BY <1>3
<1> QED
  BY <1>2, <1>4, <1>5, <1>7, <1>8, <1>9, <1>10 DEF Lifecycle!Complete

\* Every step of the code is a step of the abstract store or a stutter.
LEMMA RefinesNext ==
  Inv /\ [Next]_vars => [Lifecycle!LifecycleNext]_(Lifecycle!lifecycleVars)
<1> SUFFICES ASSUME Inv, [Next]_vars
             PROVE  [Lifecycle!LifecycleNext]_(Lifecycle!lifecycleVars)
  OBVIOUS
<1>0. TypeOK /\ RowsOK /\ RefreshOK /\ TypeOK'
  BY TypeStep DEF Inv
<1>a. /\ sessions \in [SessionIds -> SessionRow] /\ sessions' \in [SessionIds -> SessionRow]
      /\ refreshReq \in [RefreshRequests -> RefreshRecord]
  BY <1>0 DEF TypeOK
<1>1. CASE sessions' = sessions /\ refreshReq' = refreshReq
  BY <1>1 DEF Lifecycle!lifecycleVars, phaseBar, ownerBar, deadlineBar, currentBar,
              exchangeBar, HashMatches
<1>2. ASSUME NEW s \in SessionIds, NEW u \in Users, NEW b \in BOOLEAN,
             IssueTokens(s, u, b)
      PROVE  Lifecycle!Open(s)
  <2> DEFINE e == now + RefreshTtl(b) * TicksPerSecond
  <2>1. /\ sessions[s].status = "NONE"
        /\ sessions' = [sessions EXCEPT ![s] =
             [status |-> "ACTIVE", userId |-> u, refreshTokenHash |-> 1, expiresAt |-> e]]
        /\ UNCHANGED refreshReq
    BY <1>2 DEF IssueTokens, CreateSession
  <2>2. sessions'[s].expiresAt \in Nat
    BY <1>a DEF SessionRow
  <2> HIDE DEF e
  <2>3. phaseBar[s] = "absent" /\ phaseBar' = [phaseBar EXCEPT ![s] = "live"]
    BY <1>a, <2>1 DEF phaseBar
  <2>4. ownerBar'[s] \in Users /\ ownerBar' = [ownerBar EXCEPT ![s] = ownerBar'[s]]
    BY <1>a, <2>1 DEF ownerBar
  <2>5. deadlineBar'[s] \in Nat /\ deadlineBar' = [deadlineBar EXCEPT ![s] = deadlineBar'[s]]
    BY <1>a, <2>1, <2>2 DEF deadlineBar
  <2>6. currentBar' = [currentBar EXCEPT ![s] = 1]
    BY <1>a, <2>1 DEF currentBar
  <2>7. exchangeBar' = exchangeBar
    BY <2>1 DEF exchangeBar, HashMatches
  <2> QED
    BY <2>3, <2>4, <2>5, <2>6, <2>7 DEF Lifecycle!Open
<1>3. ASSUME NEW r \in RefreshRequests, RefreshRotate(r)
      PROVE  Lifecycle!Complete(r)
  BY <1>0, <1>3, RefinesComplete
<1>4. ASSUME NEW s \in SessionIds, Opened(s),
             sessions' = Revoke(s) \/ sessions' = MarkExpired(s),
             \A r \in RefreshRequests :
               refreshReq'[r] = refreshReq[r] \/ refreshReq'[r].pc # "decide"
      PROVE  Lifecycle!Close
  <2>1. /\ \A t \in SessionIds \ {s} : sessions'[t] = sessions[t]
        /\ sessions'[s].status \in {"EXPIRED", "REVOKED"}
        /\ sessions'[s].userId = sessions[s].userId
        /\ sessions'[s].expiresAt = sessions[s].expiresAt
        /\ sessions'[s].refreshTokenHash = sessions[s].refreshTokenHash
    BY <1>a, <1>4 DEF Revoke, MarkExpired, SessionRow
  <2> QED
    BY <1>a, <1>4, <2>1, RefinesClose DEF Opened
<1>5. ASSUME NEW r \in RefreshRequests, RefreshReuse(r) \/ RefreshExpired(r)
      PROVE  Lifecycle!Close
  <2>1. \A q \in RefreshRequests :
          refreshReq'[q] = refreshReq[q] \/ refreshReq'[q].pc # "decide"
    BY <1>a, <1>5 DEF RefreshReuse, RefreshExpired, IdleRefresh, RefreshRecord
  <2> QED
    BY <1>0, <1>4, <1>5, <2>1 DEF RefreshReuse, RefreshExpired, RefreshOK
<1>6. ASSUME NEW s \in SessionIds, Logout(s)
      PROVE  Lifecycle!Close
  <2>1. UNCHANGED refreshReq
    BY <1>6 DEF Logout
  <2> QED
    BY <1>0, <1>4, <1>6, <2>1, VerifiedOpened DEF Logout
<1>7. ASSUME NEW a \in AdminRequests, AdminRevokeAll(a)
      PROVE  Lifecycle!Close
  <2>1. \A s \in SessionIds :
          sessions'[s] = sessions[s]
          \/ /\ sessions[s].status # "NONE" /\ sessions'[s].status = "REVOKED"
             /\ sessions'[s].userId = sessions[s].userId
             /\ sessions'[s].expiresAt = sessions[s].expiresAt
             /\ sessions'[s].refreshTokenHash = sessions[s].refreshTokenHash
    BY <1>a, <1>7 DEF AdminRevokeAll, RevokeAllForUser, SessionRow
  <2>2. UNCHANGED refreshReq
    BY <1>7 DEF AdminRevokeAll
  <2> QED
    BY <1>a, <2>1, <2>2, RefinesClose
<1>8. ASSUME NEW r \in RefreshRequests,
             RefreshAlert(r) \/ RefreshDisabled(r) \/ RefreshCrash(r)
      PROVE  Lifecycle!Close
  <2>1. sessions' = sessions
    BY <1>8 DEF RefreshAlert, RefreshDisabled, RefreshCrash
  <2>2. \A q \in RefreshRequests :
          refreshReq'[q] = refreshReq[q] \/ refreshReq'[q].pc # "decide"
    BY <1>a, <1>8 DEF RefreshAlert, RefreshDisabled, RefreshCrash, IdleRefresh
  <2> QED
    BY <1>a, <2>1, <2>2, RefinesClose
<1>9. ASSUME NEW r \in RefreshRequests, NEW s \in SessionIds,
             NEW n \in DOMAIN issued[s], RefreshRead(r, s, n)
      PROVE  Lifecycle!Begin(r, s) \/ UNCHANGED Lifecycle!lifecycleVars
  BY <1>9, RefinesBegin
<1>10. ASSUME ~ \E s \in SessionIds, u \in Users, b \in BOOLEAN : IssueTokens(s, u, b),
              ~ \E r \in RefreshRequests :
                  \/ RefreshRotate(r) \/ RefreshReuse(r) \/ RefreshExpired(r)
                  \/ RefreshAlert(r) \/ RefreshDisabled(r) \/ RefreshCrash(r),
              ~ \E r \in RefreshRequests, s \in SessionIds :
                  \E n \in DOMAIN issued[s] : RefreshRead(r, s, n),
              ~ \E s \in SessionIds : Logout(s),
              ~ \E a \in AdminRequests : AdminRevokeAll(a)
       PROVE  sessions' = sessions /\ refreshReq' = refreshReq
  BY <1>10
  DEF Next, vars, Tick, RefreshStep, AuthArrive, AuthFindUser, AuthIsSessionActive,
      AuthDone, AdminRead, AdminUpdate, AdminCrash, SignInStatusWrite
<1>11. /\ (\E s \in SessionIds : Lifecycle!Open(s)) => Lifecycle!LifecycleNext
       /\ (\E r \in RefreshRequests : Lifecycle!Complete(r)) => Lifecycle!LifecycleNext
       /\ (\E s \in SessionIds : \E r \in RefreshRequests : Lifecycle!Begin(r, s))
            => Lifecycle!LifecycleNext
       /\ Lifecycle!Close => Lifecycle!LifecycleNext
  BY DEF Lifecycle!LifecycleNext
<1> QED
  BY <1>1, <1>2, <1>3, <1>5, <1>6, <1>7, <1>8, <1>9, <1>10, <1>11

\* The session code implements the abstract session store, also where two
\* refreshes with one token overlap.
THEOREM Refinement == Spec => ImplementsLifecycle
<1>1. Init => Lifecycle!LifecycleInit
  BY RefinesInit
<1>2. Inv /\ [Next]_vars => [Lifecycle!LifecycleNext]_(Lifecycle!lifecycleVars)
  BY RefinesNext
<1> QED
  BY InvHolds, <1>1, <1>2, PTL DEF Spec, ImplementsLifecycle, Lifecycle!LifecycleSpec

=============================================================================
