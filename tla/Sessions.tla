------------------------------ MODULE Sessions ------------------------------
(***************************************************************************)
(* The session store of the API and everything that reads or writes it:    *)
(* token issuance and refresh-token rotation (auth.service.ts), logout,    *)
(* the authenticate middleware (authenticate.ts, bound-auth.ts) and the    *)
(* revocation done by an administrator's status change (admin.service.ts). *)
(*                                                                         *)
(* The code uses no database transaction: every awaited repository call is *)
(* one statement, and any other request may run between two of them.  An   *)
(* action here is the code from one await to the effect of the next        *)
(* statement; what a request has read so far is kept in its record, stale  *)
(* or not.  Audit-log rows are not modelled (nothing reads them back).     *)
(*                                                                         *)
(* A refresh token is named by its session (the jti claim) and a serial    *)
(* number standing for its nonce; its SHA-256 hash is that number, since   *)
(* the nonce makes every token distinct.  Of the access tokens of a        *)
(* session only the latest expiry is kept: an older one is accepted only   *)
(* when the latest is.  Time is counted in ticks, TicksPerSecond to a      *)
(* second, because JWT claims are whole seconds and rows are not.          *)
(***************************************************************************)
EXTENDS Integers, Sequences, FiniteSets

CONSTANTS
  Users, Nobody,        \* users; the owner of a row that does not exist yet
  SessionIds,           \* the UUIDs issueTokens may draw
  NoSession,            \* the session of an idle request slot
  RefreshRequests,      \* slots for concurrent POST /auth/refresh
  AuthRequests,         \* slots for concurrent authenticated requests
  AdminRequests,        \* slots for concurrent status changes
  TicksPerSecond,
  JWT_REFRESH_TTL,      \* seconds, sessions with rememberMe
  SESSION_TIMEOUT,      \* seconds, SESSION_TIMEOUT_MINUTES * 60
  JWT_ACCESS_TTL,       \* seconds
  MaxClock,             \* bound on the clock
  MaxTokens             \* bound on the refresh tokens of one session

ASSUME SessionConstants ==
  /\ TicksPerSecond \in Nat \ {0}
  /\ JWT_REFRESH_TTL \in Nat \ {0}
  /\ SESSION_TIMEOUT \in Nat \ {0}
  /\ JWT_ACCESS_TTL \in Nat \ {0}
  /\ MaxClock \in Nat /\ MaxTokens \in Nat \ {0}
  /\ Nobody \notin Users /\ NoSession \notin SessionIds

VARIABLES
  now,         \* the clock, in ticks
  sessions,    \* the sessions table
  issued,      \* issued[s][n]: exp claim (seconds) of the nth refresh token
  access,      \* access[s]: latest exp claim of the access tokens of s
  users,       \* the status column of the users table
  alerts,      \* sessions a REFRESH_TOKEN_REUSE event was recorded for
  refreshReq, authReq, adminReq   \* requests in flight

vars == <<now, sessions, issued, access, users, alerts,
          refreshReq, authReq, adminReq>>

-----------------------------------------------------------------------------
(* Types *)

AccountStatus == {"ACTIVE", "LOCKED", "DISABLED", "PENDING_VERIFICATION"}

SessionStatus == {"NONE", "ACTIVE", "EXPIRED", "REVOKED"}  \* NONE: no row

Owner == Users \cup {Nobody}

SessionRow ==
  [status : SessionStatus, userId : Owner,
   refreshTokenHash : Nat, expiresAt : Nat]

NoRow == [status |-> "NONE", userId |-> Nobody,
          refreshTokenHash |-> 0, expiresAt |-> 0]

SessionRef == SessionIds \cup {NoSession}

\* A refresh request: the token presented (sid, nonce), the session row and
\* the owner's status as findActiveById returned them.
RefreshRecord ==
  [pc : {"idle", "decide", "alert", "crashed"}, sid : SessionRef,
   nonce : Nat, row : SessionRow, status : AccountStatus]

StatusSeen == AccountStatus \cup {"unread"}

\* An authenticated request: what the two parallel reads returned, and
\* (history) whether its session was already unusable when it arrived.
AuthRecord ==
  [pc : {"idle", "reading"}, sid : SessionRef,
   user : StatusSeen, session : {"unread", "active", "inactive"},
   deadAtArrival : BOOLEAN]

\* A status change: target, new status, and (history) the sessions of the
\* target that existed when it arrived.
AdminRecord ==
  [pc : {"idle", "update", "revokeAll", "done"}, userId : Owner,
   status : AccountStatus, before : SUBSET SessionIds]

-----------------------------------------------------------------------------
(* Clock and JWT arithmetic *)

Seconds(ticks) == ticks \div TicksPerSecond

\* exp claim of a token signed at t: jose floors the date to whole seconds.
ExpirationTime(t, ttl) == Seconds(t) + ttl

\* jose accepts a token while its exp is after the current whole second.
JwtValid(exp) == exp > Seconds(now)

RefreshTtl(rememberMe) == IF rememberMe THEN JWT_REFRESH_TTL ELSE SESSION_TIMEOUT

\* Mutation: a refreshed token is signed with the full refresh lifetime.
RemainingTtlFull(expiresAt, t) == JWT_REFRESH_TTL + SESSION_TIMEOUT

\* Mutation: the operands are swapped and the minimum is forgotten.
RemainingTtlSwapped(expiresAt, t) ==
  (t - expiresAt + TicksPerSecond - 1) \div TicksPerSecond

\* Math.max(1, Math.ceil((expiresAt - now) / 1000))
RemainingTtl(expiresAt, t) ==
  LET ceil == (expiresAt - t + TicksPerSecond - 1) \div TicksPerSecond
  IN  IF ceil < 1 THEN 1 ELSE ceil

Later(a, b) == IF a > b THEN a ELSE b

-----------------------------------------------------------------------------
(* SessionRepository: one operator per statement *)

CreateSession(s, u, exp) ==
  [sessions EXCEPT ![s] = [status |-> "ACTIVE", userId |-> u,
                           refreshTokenHash |-> 1, expiresAt |-> exp]]

FindActiveById(s) == sessions[s].status = "ACTIVE"

\* Mutation: the update also makes the row active (an upsert of the session).
RotateTokenReviving(s, hash, exp) ==
  [sessions EXCEPT ![s].refreshTokenHash = hash, ![s].expiresAt = exp,
                   ![s].status = "ACTIVE"]

\* Writes hash and expiry only: the status of the row is left as it is.
RotateToken(s, hash, exp) ==
  [sessions EXCEPT ![s].refreshTokenHash = hash, ![s].expiresAt = exp]

MarkExpired(s) == [sessions EXCEPT ![s].status = "EXPIRED"]

\* Mutation: the reuse branch throws without touching the row.
RevokeNothing(s) == sessions

\* Unconditional: a row already EXPIRED becomes REVOKED.
Revoke(s) == [sessions EXCEPT ![s].status = "REVOKED"]

\* Mutation: the filter misses sessions about to expire.
RevokeAllForUserUnexpired(u) ==
  [s \in SessionIds |->
     IF sessions[s].userId = u /\ sessions[s].status = "ACTIVE"
        /\ sessions[s].expiresAt > now + TicksPerSecond
     THEN [sessions[s] EXCEPT !.status = "REVOKED"] ELSE sessions[s]]

RevokeAllForUser(u) ==
  [s \in SessionIds |->
     IF sessions[s].userId = u /\ sessions[s].status = "ACTIVE"
     THEN [sessions[s] EXCEPT !.status = "REVOKED"] ELSE sessions[s]]

-----------------------------------------------------------------------------
(* Initial state: no session; accounts in any status *)

IdleRefresh == [pc |-> "idle", sid |-> NoSession, nonce |-> 0, row |-> NoRow,
                status |-> "ACTIVE"]

IdleAuth == [pc |-> "idle", sid |-> NoSession, user |-> "unread",
             session |-> "unread", deadAtArrival |-> FALSE]

IdleAdmin == [pc |-> "idle", userId |-> Nobody, status |-> "ACTIVE", before |-> {}]

Init ==
  /\ now = 0
  /\ sessions = [s \in SessionIds |-> NoRow]
  /\ issued = [s \in SessionIds |-> <<>>]
  /\ access = [s \in SessionIds |-> 0]
  /\ users \in [Users -> {"ACTIVE"}]
  /\ alerts = {}
  /\ refreshReq = [r \in RefreshRequests |-> IdleRefresh]
  /\ authReq = [q \in AuthRequests |-> IdleAuth]
  /\ adminReq = [a \in AdminRequests |-> IdleAdmin]

Tick ==
  /\ now < MaxClock
  /\ now' = now + 1
  /\ UNCHANGED <<sessions, issued, access, users, alerts,
                 refreshReq, authReq, adminReq>>

-----------------------------------------------------------------------------
(* issueTokens: the last statement of every successful sign-in.  Whether a *)
(* sign-in may succeed is decided by login (module Accounts), from a user  *)
(* row that may be stale by now: here it may happen at any time.           *)

IssueTokens(s, u, rememberMe) ==
  /\ sessions[s].status = "NONE"
  /\ LET ttl == RefreshTtl(rememberMe)
     IN  /\ sessions' = CreateSession(s, u, now + ttl * TicksPerSecond)
         /\ issued' = [issued EXCEPT ![s] = <<ExpirationTime(now, ttl)>>]
         /\ access' = [access EXCEPT ![s] = ExpirationTime(now, JWT_ACCESS_TTL)]
  /\ UNCHANGED <<now, users, alerts, refreshReq, authReq, adminReq>>

-----------------------------------------------------------------------------
(* refresh *)

\* verifyRefreshToken, then the findActiveById read.  A token that does not
\* verify and a session that is not active end the request with a 401 and
\* no effect.
RefreshRead(r, s, n) ==
  /\ refreshReq[r].pc \in {"idle", "crashed"}
  /\ n \in DOMAIN issued[s]
  /\ JwtValid(issued[s][n])
  /\ FindActiveById(s)
  /\ refreshReq' = [refreshReq EXCEPT ![r] =
       [pc |-> "decide", sid |-> s, nonce |-> n, row |-> sessions[s],
        status |-> users[sessions[s].userId]]]
  /\ UNCHANGED <<now, sessions, issued, access, users, alerts, authReq, adminReq>>

HashMatches(r) == refreshReq[r].row.refreshTokenHash = refreshReq[r].nonce

SnapshotExpired(r) == refreshReq[r].row.expiresAt < now

\* The session was presented with another token than the current one.
RefreshReuse(r) ==
  /\ refreshReq[r].pc = "decide"
  /\ ~HashMatches(r)
  /\ sessions' = Revoke(refreshReq[r].sid)
  /\ refreshReq' = [refreshReq EXCEPT ![r].pc = "alert"]
  /\ UNCHANGED <<now, issued, access, users, alerts, authReq, adminReq>>

\* The CRITICAL security event is a second statement.
RefreshAlert(r) ==
  /\ refreshReq[r].pc = "alert"
  /\ alerts' = alerts \cup {refreshReq[r].sid}
  /\ refreshReq' = [refreshReq EXCEPT ![r] = IdleRefresh]
  /\ UNCHANGED <<now, sessions, issued, access, users, authReq, adminReq>>

RefreshExpired(r) ==
  /\ refreshReq[r].pc = "decide"
  /\ HashMatches(r)
  /\ SnapshotExpired(r)
  /\ sessions' = MarkExpired(refreshReq[r].sid)
  /\ refreshReq' = [refreshReq EXCEPT ![r] = IdleRefresh]
  /\ UNCHANGED <<now, issued, access, users, alerts, authReq, adminReq>>

RefreshDisabled(r) ==
  /\ refreshReq[r].pc = "decide"
  /\ HashMatches(r)
  /\ ~SnapshotExpired(r)
  /\ refreshReq[r].status = "DISABLED"
  /\ refreshReq' = [refreshReq EXCEPT ![r] = IdleRefresh]
  /\ UNCHANGED <<now, sessions, issued, access, users, alerts, authReq, adminReq>>

\* A new token pair is signed and the row is updated by id, with the expiry
\* of the snapshot.
RefreshRotate(r) ==
  LET s == refreshReq[r].sid
      deadline == refreshReq[r].row.expiresAt
  IN  /\ refreshReq[r].pc = "decide"
      /\ HashMatches(r)
      /\ ~SnapshotExpired(r)
      /\ refreshReq[r].status # "DISABLED"
      /\ Len(issued[s]) < MaxTokens
      /\ issued' = [issued EXCEPT ![s] =
           Append(issued[s], ExpirationTime(now, RemainingTtl(deadline, now)))]
      /\ access' = [access EXCEPT ![s] =
           Later(access[s], ExpirationTime(now, JWT_ACCESS_TTL))]
      /\ sessions' = RotateToken(s, Len(issued[s]) + 1, deadline)
      /\ refreshReq' = [refreshReq EXCEPT ![r] = IdleRefresh]
      /\ UNCHANGED <<now, users, alerts, authReq, adminReq>>

\* The server process, or a statement, fails between two statements: what
\* was written stays written, what was not is never written.
RefreshCrash(r) ==
  /\ refreshReq[r].pc \in {"decide", "alert"}
  /\ refreshReq' = [refreshReq EXCEPT ![r] = [IdleRefresh EXCEPT !.pc = "crashed"]]
  /\ UNCHANGED <<now, sessions, issued, access, users, alerts, authReq, adminReq>>

-----------------------------------------------------------------------------
(* logout: the session of a refresh token that verifies, or failing that   *)
(* of an access token that verifies, is revoked by id.                     *)

Logout(s) ==
  /\ \/ \E n \in DOMAIN issued[s] : JwtValid(issued[s][n])
     \/ JwtValid(access[s])
  /\ sessions' = Revoke(s)
  /\ UNCHANGED <<now, issued, access, users, alerts, refreshReq, authReq, adminReq>>

-----------------------------------------------------------------------------
(* authenticate *)

Usable(s) == sessions[s].status = "ACTIVE" /\ sessions[s].expiresAt > now

AuthArrive(q, s) ==
  /\ authReq[q].pc = "idle"
  /\ JwtValid(access[s])
  /\ authReq' = [authReq EXCEPT ![q] =
       [IdleAuth EXCEPT !.pc = "reading", !.sid = s, !.deadAtArrival = ~Usable(s)]]
  /\ UNCHANGED <<now, sessions, issued, access, users, alerts, refreshReq, adminReq>>

\* findUser and isSessionActive run in parallel: either read may come first.
AuthFindUser(q) ==
  /\ authReq[q].pc = "reading" /\ authReq[q].user = "unread"
  /\ authReq' = [authReq EXCEPT ![q].user = users[sessions[authReq[q].sid].userId]]
  /\ UNCHANGED <<now, sessions, issued, access, users, alerts, refreshReq, adminReq>>

AuthIsSessionActive(q) ==
  /\ authReq[q].pc = "reading" /\ authReq[q].session = "unread"
  /\ authReq' = [authReq EXCEPT ![q].session =
       IF Usable(authReq[q].sid) THEN "active" ELSE "inactive"]
  /\ UNCHANGED <<now, sessions, issued, access, users, alerts, refreshReq, adminReq>>

\* Both reads are in and the request goes on to its handler.
Admitted(q) ==
  /\ authReq[q].pc = "reading"
  /\ authReq[q].session = "active"
  /\ authReq[q].user \notin {"unread", "DISABLED"}

\* The handler runs, or the request is refused (403, 401).
AuthDone(q) ==
  /\ authReq[q].session # "unread" /\ authReq[q].user # "unread"
  /\ authReq' = [authReq EXCEPT ![q] = IdleAuth]
  /\ UNCHANGED <<now, sessions, issued, access, users, alerts, refreshReq, adminReq>>

-----------------------------------------------------------------------------
(* setUserStatus (admin.service.ts), and the status writes of sign-in      *)

ALLOWED_TRANSITIONS ==
  [ACTIVE |-> {"LOCKED", "DISABLED", "PENDING_VERIFICATION"},
   LOCKED |-> {"ACTIVE", "DISABLED"},
   DISABLED |-> {"ACTIVE"},
   PENDING_VERIFICATION |-> {"ACTIVE", "DISABLED"}]

\* findById and the transition check on what it returned.
AdminRead(a, u, st) ==
  /\ adminReq[a].pc \in {"idle", "done"}
  /\ st = users[u] \/ st \in ALLOWED_TRANSITIONS[users[u]]
  /\ adminReq' = [adminReq EXCEPT ![a] =
       [pc |-> "update", userId |-> u, status |-> st,
        before |-> {s \in SessionIds : sessions[s].userId = u}]]
  /\ UNCHANGED <<now, sessions, issued, access, users, alerts, refreshReq, authReq>>

Deactivates(st) == st \in {"DISABLED", "LOCKED"}

AdminUpdate(a) ==
  /\ adminReq[a].pc = "update"
  /\ users' = [users EXCEPT ![adminReq[a].userId] = adminReq[a].status]
  /\ adminReq' = [adminReq EXCEPT ![a].pc =
       IF Deactivates(adminReq[a].status) THEN "revokeAll" ELSE "done"]
  /\ UNCHANGED <<now, sessions, issued, access, alerts, refreshReq, authReq>>

AdminRevokeAll(a) ==
  /\ adminReq[a].pc = "revokeAll"
  /\ sessions' = RevokeAllForUser(adminReq[a].userId)
  /\ adminReq' = [adminReq EXCEPT ![a].pc = "done"]
  /\ UNCHANGED <<now, issued, access, users, alerts, refreshReq, authReq>>

AdminCrash(a) ==
  /\ adminReq[a].pc \in {"update", "revokeAll"}
  /\ adminReq' = [adminReq EXCEPT ![a] = IdleAdmin]
  /\ UNCHANGED <<now, sessions, issued, access, users, alerts, refreshReq, authReq>>

\* recordFailedLogin, unlock and markEmailVerified write the status column
\* by id whatever it holds (module Accounts has them in detail).
SignInStatusWrite(u, st) ==
  /\ users[u] # st
  /\ users' = [users EXCEPT ![u] = st]
  /\ UNCHANGED <<now, sessions, issued, access, alerts, refreshReq, authReq, adminReq>>

-----------------------------------------------------------------------------
RefreshStep(r) ==
  RefreshReuse(r) \/ RefreshAlert(r) \/ RefreshExpired(r)
  \/ RefreshDisabled(r) \/ RefreshRotate(r)

Next ==
  \/ Tick
  \/ \E s \in SessionIds, u \in Users, b \in BOOLEAN : IssueTokens(s, u, b)
  \/ \E r \in RefreshRequests, s \in SessionIds :
       \E n \in DOMAIN issued[s] : RefreshRead(r, s, n)
  \/ \E r \in RefreshRequests : RefreshStep(r) \/ RefreshCrash(r)
  \/ \E s \in SessionIds : Logout(s)
  \/ \E q \in AuthRequests, s \in SessionIds : AuthArrive(q, s)
  \/ \E q \in AuthRequests : AuthFindUser(q) \/ AuthIsSessionActive(q) \/ AuthDone(q)
  \/ \E a \in AdminRequests, u \in Users, st \in AccountStatus : AdminRead(a, u, st)
  \/ \E a \in AdminRequests : AdminUpdate(a) \/ AdminRevokeAll(a) \/ AdminCrash(a)
  \/ \E u \in Users, st \in {"ACTIVE", "LOCKED"} : SignInStatusWrite(u, st)

Spec == Init /\ [][Next]_vars

\* A request the server has started runs to its end unless it crashes.
Fairness == \A r \in RefreshRequests : WF_vars(RefreshStep(r))

FairSpec == Spec /\ Fairness
-----------------------------------------------------------------------------
(* Properties *)

\* Every variable has its type: no rounding makes a date or a claim negative.
TypeOK ==
  /\ now \in 0..MaxClock
  /\ sessions \in [SessionIds -> SessionRow]
  /\ issued \in [SessionIds -> Seq(Nat)]
  /\ access \in [SessionIds -> Nat]
  /\ users \in [Users -> AccountStatus]
  /\ alerts \in SUBSET SessionIds
  /\ refreshReq \in [RefreshRequests -> RefreshRecord]
  /\ authReq \in [AuthRequests -> AuthRecord]
  /\ adminReq \in [AdminRequests -> AdminRecord]

Closed(s) == sessions[s].status \in {"EXPIRED", "REVOKED"}

\* The authenticate middleware admits no request that arrived after its
\* session was revoked, marked expired or past its expiry, whatever refreshes,
\* logouts and status changes run during its two reads: a refresh that read
\* the row before the revocation and rotates after it does not revive it.
ClosedNeverAdmitted ==
  \A q \in AuthRequests : Admitted(q) => ~authReq[q].deadAtArrival

\* When a status change to DISABLED or LOCKED has returned, every session
\* the account had when the change was requested is closed for good, also if
\* a refresh of one of them was under way (admin.service.ts, "invalidates
\* their active sessions").
DeactivationClosesSessions ==
  \A a \in AdminRequests :
    (adminReq[a].pc = "done" /\ Deactivates(adminReq[a].status))
      => \A s \in adminReq[a].before : Closed(s)

\* The session lifetime is absolute: the ceil and max(1, ...) of refresh let
\* a refresh token verify for at most one second past the expiry of its
\* session, however often it is rotated.
RefreshTokenLifetime ==
  \A s \in SessionIds : \A n \in DOMAIN issued[s] :
    issued[s][n] * TicksPerSecond <= sessions[s].expiresAt + TicksPerSecond

\* A token-reuse event is recorded only for a session that is closed and
\* stays closed: the alert never precedes the revocation.
AlertMeansClosed == \A s \in alerts : Closed(s)

\* A refresh that read its session and found another token current closes
\* the session and records the event, unless the server dies first.
ReuseClosesSession ==
  \A r \in RefreshRequests, s \in SessionIds :
    (refreshReq[r].pc = "decide" /\ refreshReq[r].sid = s /\ ~HashMatches(r))
      ~> (Closed(s) /\ s \in alerts) \/ refreshReq[r].pc = "crashed"

\* "Presenting an already-rotated refresh token revokes the whole session":
\* whenever a token is exchanged for a new pair, it is still the current one.
\* The code does not keep this (README, Departures): no run checks it.
RotatedTokenNeverExchanged ==
  [][\A r \in RefreshRequests : RefreshRotate(r) =>
       sessions[refreshReq[r].sid].refreshTokenHash = refreshReq[r].nonce]_vars

\* The refinement mapping: the abstract state read off the table.
phaseBar ==
  [s \in SessionIds |-> CASE sessions[s].status = "NONE" -> "absent"
                          [] sessions[s].status = "ACTIVE" -> "live"
                          [] OTHER -> "dead"]
ownerBar == [s \in SessionIds |-> sessions[s].userId]
deadlineBar == [s \in SessionIds |-> sessions[s].expiresAt]
currentBar == [s \in SessionIds |-> sessions[s].refreshTokenHash]
exchangeBar ==
  [r \in RefreshRequests |->
     IF refreshReq[r].pc = "decide" /\ HashMatches(r)
     THEN [sid |-> refreshReq[r].sid, token |-> refreshReq[r].nonce]
     ELSE [sid |-> NoSession, token |-> 0]]

Lifecycle == INSTANCE SessionLifecycle WITH
  Exchanges <- RefreshRequests, phase <- phaseBar, owner <- ownerBar,
  deadline <- deadlineBar, current <- currentBar, exchange <- exchangeBar

\* The session code implements SessionLifecycle: one owner and one deadline
\* per session, no exchange begun with a superseded token (though one begun
\* before may complete), closed stays closed, under every interleaving of
\* refreshes, logouts and status changes.
ImplementsLifecycle == Lifecycle!LifecycleSpec
=============================================================================
