------------------------------ MODULE Accounts ------------------------------
(***************************************************************************)
(* The account lifecycle: sign-in with its lockout (AuthService.login), a  *)
(* second factor that may follow, e-mail verification, and the status      *)
(* changes an administrator makes (AdminService.setUserStatus).            *)
(*                                                                         *)
(* login reads the user row once, and every later decision and write of    *)
(* the request uses that copy: the failure count it stores, the lock it    *)
(* lifts, the second factor it asks for.  Statements are not grouped in    *)
(* transactions, so an action here is the code between two statements, as  *)
(* in module Sessions.  A session is only the fact that the user has one;  *)
(* module Sessions has their tokens and expiry.  Passwords are a Boolean,  *)
(* whether the one supplied is right; audit rows are left out.             *)
(***************************************************************************)
EXTENDS Integers, FiniteSets

CONSTANTS
  Users, Nobody,
  LoginRequests,        \* slots for concurrent POST /auth/login
  AdminRequests,        \* slots for concurrent status changes
  VerifyRequests,       \* slots for concurrent e-mail verifications
  LOGIN_MAX_ATTEMPTS,
  LOGIN_LOCKOUT,        \* ticks, LOGIN_LOCKOUT_MINUTES
  MFA_CHALLENGE_TTL,    \* ticks
  FarFuture,            \* the instant 2999-12-31 of an administrator's lock
  MaxClock,             \* bound on the clock
  MaxFailures           \* bound on the failure counter

ASSUME AccountConstants ==
  /\ LOGIN_MAX_ATTEMPTS \in Nat \ {0}
  /\ LOGIN_LOCKOUT \in Nat \ {0}
  /\ MFA_CHALLENGE_TTL \in Nat \ {0}
  /\ MaxClock \in Nat /\ MaxFailures \in Nat
  /\ FarFuture \in Nat /\ FarFuture > MaxClock + LOGIN_LOCKOUT
  /\ Nobody \notin Users

VARIABLES
  now,        \* the clock
  users,      \* the users table
  signedIn,   \* signedIn[u]: u has an active session
  loginReq, adminReq, verifyReq,   \* requests in flight
  hold,       \* history: what an administrator last imposed on the account
  misses,     \* history: wrong passwords checked since the count restarted
  lockedAt,   \* history: when failed sign-ins last locked the account
  raced       \* history: accounts that were written on an outdated reading

vars == <<now, users, signedIn, loginReq, adminReq, verifyReq,
          hold, misses, lockedAt, raced>>

tables == <<users, signedIn>>
history == <<hold, misses, lockedAt, raced>>

-----------------------------------------------------------------------------
(* Types *)

AccountStatus == {"ACTIVE", "LOCKED", "DISABLED", "PENDING_VERIFICATION"}

\* lockedUntil is 0 for NULL: no lock ends before the clock starts.
UserRow ==
  [status : AccountStatus, emailVerified : BOOLEAN, mfaEnabled : BOOLEAN,
   failedLoginAttempts : Nat, lockedUntil : Nat]

Owner == Users \cup {Nobody}

\* A sign-in: the row it read, whether the password is right, and the expiry
\* of its second-factor challenge.
LoginRecord ==
  [pc : {"idle", "read", "unlocked", "challenge", "issue"}, userId : Owner,
   row : UserRow, correct : BOOLEAN, until : Nat]

AdminRecord ==
  [pc : {"idle", "update", "revokeAll"}, userId : Owner, status : AccountStatus]

VerifyRecord == [pc : {"idle", "mark"}, userId : Owner]

-----------------------------------------------------------------------------
(* UserRepository: one operator per statement *)

MarkEmailVerified(row) == [row EXCEPT !.emailVerified = TRUE, !.status = "ACTIVE"]

\* Leaves the status column as it is.
MarkLoginSuccess(row) ==
  [row EXCEPT !.failedLoginAttempts = 0, !.lockedUntil = 0]

\* Mutation: a lock is added to the one already there.
RecordFailedLoginStacking(row, attempts, lockUntil) ==
  [row EXCEPT !.failedLoginAttempts = attempts,
              !.lockedUntil = IF lockUntil = 0 THEN 0 ELSE lockUntil + attempts,
              !.status = IF lockUntil = 0 THEN row.status ELSE "LOCKED"]

\* lockUntil 0 clears the lock date and leaves the status.
RecordFailedLogin(row, attempts, lockUntil) ==
  [row EXCEPT !.failedLoginAttempts = attempts,
              !.lockedUntil = lockUntil,
              !.status = IF lockUntil = 0 THEN row.status ELSE "LOCKED"]

Unlock(row) ==
  [row EXCEPT !.status = "ACTIVE", !.lockedUntil = 0, !.failedLoginAttempts = 0]

UpdateStatus(row, st) ==
  [row EXCEPT !.status = st, !.lockedUntil = IF st = "LOCKED" THEN FarFuture ELSE 0]

-----------------------------------------------------------------------------
(* Initial state: accounts as registered (register) or as seeded (seed.ts) *)

Registered == [status |-> "PENDING_VERIFICATION", emailVerified |-> FALSE,
               mfaEnabled |-> FALSE, failedLoginAttempts |-> 0, lockedUntil |-> 0]

SignedUp(mfa) == [status |-> "ACTIVE", emailVerified |-> TRUE,
                  mfaEnabled |-> mfa, failedLoginAttempts |-> 0, lockedUntil |-> 0]

IdleLogin == [pc |-> "idle", userId |-> Nobody, row |-> Registered,
              correct |-> FALSE, until |-> 0]
IdleAdmin == [pc |-> "idle", userId |-> Nobody, status |-> "ACTIVE"]
IdleVerify == [pc |-> "idle", userId |-> Nobody]

Init ==
  /\ now = 0
  /\ users \in [Users -> {Registered, SignedUp(FALSE), SignedUp(TRUE)}]
  /\ signedIn = [u \in Users |-> FALSE]
  /\ loginReq = [r \in LoginRequests |-> IdleLogin]
  /\ adminReq = [a \in AdminRequests |-> IdleAdmin]
  /\ verifyReq = [v \in VerifyRequests |-> IdleVerify]
  /\ hold = [u \in Users |-> "none"]
  /\ misses = [u \in Users |-> 0]
  /\ lockedAt = [u \in Users |-> 0]
  /\ raced = {}

Tick ==
  /\ now < MaxClock
  /\ now' = now + 1
  /\ UNCHANGED <<tables, loginReq, adminReq, verifyReq, history>>

-----------------------------------------------------------------------------
(* login *)

\* findByEmail.  An unknown address ends the request at once.
LoginRead(r, u, correct) ==
  /\ loginReq[r].pc = "idle"
  /\ loginReq' = [loginReq EXCEPT ![r] =
       [pc |-> "read", userId |-> u, row |-> users[u], correct |-> correct, until |-> 0]]
  /\ UNCHANGED <<now, tables, adminReq, verifyReq, history>>

LockRunning(row) == row.status = "LOCKED" /\ row.lockedUntil > now

\* Mutation: only the status is looked at.
AwaitingStatusOnly(row) == row.status = "PENDING_VERIFICATION"

AwaitingVerification(row) ==
  ~row.emailVerified \/ row.status = "PENDING_VERIFICATION"

\* 403 ACCOUNT_DISABLED, 423 ACCOUNT_LOCKED or 403 EMAIL_NOT_VERIFIED.
LoginRefused(r) ==
  LET row == loginReq[r].row
  IN  /\ \/ /\ loginReq[r].pc = "read"
            /\ \/ row.status = "DISABLED"
               \/ LockRunning(row)
               \/ row.status # "LOCKED" /\ AwaitingVerification(row)
         \/ loginReq[r].pc = "unlocked" /\ AwaitingVerification(row)
      /\ loginReq' = [loginReq EXCEPT ![r] = IdleLogin]
      /\ UNCHANGED <<now, tables, adminReq, verifyReq, history>>

\* Mutation: the lock is lifted a tick early.
LockElapsedEarly(row) == row.status = "LOCKED" /\ row.lockedUntil <= now + 1

LockElapsed(row) == row.status = "LOCKED" /\ ~LockRunning(row)

\* What a sign-in has read of its account, or made of it, is not what the
\* table has by now.
Outdated(r) ==
  LET q == loginReq[r]
  IN  users[q.userId] # IF q.pc = "unlocked" THEN Unlock(q.row) ELSE q.row

MarkRaced(u, so) == raced' = IF so THEN raced \cup {u} ELSE raced

\* The lock window is over: unlock by id, whatever the row is by now.  The
\* request keeps its own copy, still LOCKED and with the old count.
LoginUnlock(r) ==
  /\ loginReq[r].pc = "read"
  /\ LockElapsed(loginReq[r].row)
  /\ users' = [users EXCEPT ![loginReq[r].userId] = Unlock(@)]
  /\ misses' = [misses EXCEPT ![loginReq[r].userId] = 0]
  /\ MarkRaced(loginReq[r].userId, Outdated(r))
  /\ loginReq' = [loginReq EXCEPT ![r].pc = "unlocked"]
  /\ UNCHANGED <<now, signedIn, adminReq, verifyReq, hold, lockedAt>>

\* The gates before the password check have been passed.
MayCheckPassword(r) ==
  LET row == loginReq[r].row
  IN  /\ \/ loginReq[r].pc = "read" /\ row.status \notin {"DISABLED", "LOCKED"}
         \/ loginReq[r].pc = "unlocked"
      /\ ~AwaitingVerification(row)

\* Mutation: one failure too many is allowed.
ShouldLockLate(attempts) == attempts > LOGIN_MAX_ATTEMPTS

ShouldLock(attempts) == attempts >= LOGIN_MAX_ATTEMPTS

\* Wrong password: the count read plus one is stored, with a lock or with
\* no lock date.
LoginFail(r) ==
  LET u == loginReq[r].userId
      attempts == loginReq[r].row.failedLoginAttempts + 1
      lockUntil == IF ShouldLock(attempts) THEN now + LOGIN_LOCKOUT ELSE 0
  IN  /\ MayCheckPassword(r)
      /\ ~loginReq[r].correct
      /\ attempts <= MaxFailures /\ misses[u] < MaxFailures
      /\ users' = [users EXCEPT ![u] = RecordFailedLogin(@, attempts, lockUntil)]
      /\ misses' = [misses EXCEPT ![u] = @ + 1]
      /\ lockedAt' = [lockedAt EXCEPT ![u] = IF lockUntil = 0 THEN @ ELSE now]
      /\ MarkRaced(u, Outdated(r))
      /\ loginReq' = [loginReq EXCEPT ![r] = IdleLogin]
      /\ UNCHANGED <<now, signedIn, adminReq, verifyReq, hold>>

\* Right password: then the session (no second factor, or a trusted device)
\* or a challenge in the cache.
LoginSucceed(r) ==
  LET u == loginReq[r].userId
  IN  /\ MayCheckPassword(r)
      /\ loginReq[r].correct
      /\ users' = [users EXCEPT ![u] = MarkLoginSuccess(@)]
      /\ misses' = [misses EXCEPT ![u] = 0]
      /\ MarkRaced(u, Outdated(r))
      /\ \E trusted \in BOOLEAN :
           loginReq' = [loginReq EXCEPT
             ![r].pc = IF loginReq[r].row.mfaEnabled /\ ~trusted
                       THEN "challenge" ELSE "issue",
             ![r].until = now + MFA_CHALLENGE_TTL]
      /\ UNCHANGED <<now, signedIn, adminReq, verifyReq, hold, lockedAt>>

\* The second factor is proved while the challenge is in the cache
\* (finishMfaLogin looks the user up again, for existence only).
LoginFinishMfa(r) ==
  /\ loginReq[r].pc = "challenge"
  /\ loginReq[r].until >= now
  /\ loginReq' = [loginReq EXCEPT ![r].pc = "issue"]
  /\ UNCHANGED <<now, tables, adminReq, verifyReq, history>>

LoginChallengeLapses(r) ==
  /\ loginReq[r].pc = "challenge"
  /\ loginReq[r].until < now
  /\ loginReq' = [loginReq EXCEPT ![r] = IdleLogin]
  /\ UNCHANGED <<now, tables, adminReq, verifyReq, history>>

\* issueTokens: sessions.create.
LoginIssue(r) ==
  /\ loginReq[r].pc = "issue"
  /\ signedIn' = [signedIn EXCEPT ![loginReq[r].userId] = TRUE]
  /\ loginReq' = [loginReq EXCEPT ![r] = IdleLogin]
  /\ UNCHANGED <<now, users, adminReq, verifyReq, history>>

-----------------------------------------------------------------------------
(* verifyEmail, with a link that is neither used nor expired *)

VerifyRead(v, u) ==
  /\ verifyReq[v].pc = "idle"
  /\ ~users[u].emailVerified
  /\ verifyReq' = [verifyReq EXCEPT ![v] = [pc |-> "mark", userId |-> u]]
  /\ UNCHANGED <<now, tables, loginReq, adminReq, history>>

VerifyMark(v) ==
  /\ verifyReq[v].pc = "mark"
  /\ users' = [users EXCEPT ![verifyReq[v].userId] = MarkEmailVerified(@)]
  /\ MarkRaced(verifyReq[v].userId, users[verifyReq[v].userId].emailVerified)
  /\ verifyReq' = [verifyReq EXCEPT ![v] = IdleVerify]
  /\ UNCHANGED <<now, signedIn, loginReq, adminReq, hold, misses, lockedAt>>

-----------------------------------------------------------------------------
(* setUserStatus *)

ALLOWED_TRANSITIONS ==
  [ACTIVE |-> {"LOCKED", "DISABLED", "PENDING_VERIFICATION"},
   LOCKED |-> {"ACTIVE", "DISABLED"},
   DISABLED |-> {"ACTIVE"},
   PENDING_VERIFICATION |-> {"ACTIVE", "DISABLED"}]

AdminRead(a, u, st) ==
  /\ adminReq[a].pc = "idle"
  /\ st = users[u].status \/ st \in ALLOWED_TRANSITIONS[users[u].status]
  /\ adminReq' = [adminReq EXCEPT ![a] = [pc |-> "update", userId |-> u, status |-> st]]
  /\ UNCHANGED <<now, tables, loginReq, verifyReq, history>>

Deactivates(st) == st \in {"DISABLED", "LOCKED"}

\* The failure counter is left alone.
AdminUpdate(a) ==
  LET u == adminReq[a].userId
      st == adminReq[a].status
  IN  /\ adminReq[a].pc = "update"
      /\ users' = [users EXCEPT ![u] = UpdateStatus(@, st)]
      /\ hold' = [hold EXCEPT ![u] = IF Deactivates(st) THEN st ELSE "none"]
      /\ misses' = [misses EXCEPT ![u] = 0]
      /\ adminReq' = [adminReq EXCEPT ![a] =
           IF Deactivates(st) THEN [@ EXCEPT !.pc = "revokeAll"] ELSE IdleAdmin]
      /\ UNCHANGED <<now, signedIn, loginReq, verifyReq, lockedAt, raced>>

AdminRevokeAll(a) ==
  /\ adminReq[a].pc = "revokeAll"
  /\ signedIn' = [signedIn EXCEPT ![adminReq[a].userId] = FALSE]
  /\ adminReq' = [adminReq EXCEPT ![a] = IdleAdmin]
  /\ UNCHANGED <<now, users, loginReq, verifyReq, history>>

-----------------------------------------------------------------------------
LoginStep(r) ==
  LoginRefused(r) \/ LoginUnlock(r) \/ LoginFail(r) \/ LoginSucceed(r)
  \/ LoginFinishMfa(r) \/ LoginChallengeLapses(r) \/ LoginIssue(r)

Next ==
  \/ Tick
  \/ \E r \in LoginRequests, u \in Users, b \in BOOLEAN : LoginRead(r, u, b)
  \/ \E r \in LoginRequests : LoginStep(r)
  \/ \E v \in VerifyRequests, u \in Users : VerifyRead(v, u)
  \/ \E v \in VerifyRequests : VerifyMark(v)
  \/ \E a \in AdminRequests, u \in Users, st \in AccountStatus : AdminRead(a, u, st)
  \/ \E a \in AdminRequests : AdminUpdate(a) \/ AdminRevokeAll(a)

Spec == Init /\ [][Next]_vars
-----------------------------------------------------------------------------
(* Properties *)

\* Every variable has its type: what concurrent requests write to a row is
\* what its columns hold.
TypeOK ==
  /\ now \in 0..MaxClock
  /\ users \in [Users -> UserRow]
  /\ signedIn \in [Users -> BOOLEAN]
  /\ loginReq \in [LoginRequests -> LoginRecord]
  /\ adminReq \in [AdminRequests -> AdminRecord]
  /\ verifyReq \in [VerifyRequests -> VerifyRecord]
  /\ hold \in [Users -> {"none", "LOCKED", "DISABLED"}]
  /\ misses \in [Users -> Nat]
  /\ lockedAt \in [Users -> Nat]
  /\ raced \in SUBSET Users

\* Nobody has a session without a verified address, although an administrator
\* can make an unverified account ACTIVE, a lock that lapses makes it ACTIVE
\* too, and a sign-in works on an old copy of the row.
SignedInVerified == \A u \in Users : signedIn[u] => users[u].emailVerified

\* Failed sign-ins never lock an account for longer than LOGIN_LOCKOUT: a
\* later lock date is always the doing of an administrator, whatever writes
\* of failed and successful sign-ins overwrite each other.
SelfLockIsTransient ==
  \A u \in Users :
    hold[u] # "LOCKED" => users[u].lockedUntil <= now + LOGIN_LOCKOUT

\* "Per-account failed-login counter that locks the account": once
\* LOGIN_MAX_ATTEMPTS wrong passwords have been checked since the count last
\* restarted, the account is not ACTIVE, whatever sign-ins, verifications and
\* status changes overlapped, unless one of them wrote on an outdated reading.
FailuresCounted ==
  \A u \in Users \ raced : misses[u] >= LOGIN_MAX_ATTEMPTS => users[u].status # "ACTIVE"

\* "Locks the account for" the lockout window: a sign-in lifts a lock only
\* when the window of the last lock is over, with the same exception.
LockWindowHonoured ==
  [][\A r \in LoginRequests :
       LoginUnlock(r) => \/ now >= lockedAt[loginReq[r].userId] + LOGIN_LOCKOUT
                         \/ loginReq[r].userId \in raced']_vars

-----------------------------------------------------------------------------
(* What docs/security-model.md says and the code does not keep (README,     *)
(* Departures): no run checks these.                                        *)

\* "DISABLED blocks sign-in [...]; admins can re-enable": an account an
\* administrator disabled stays DISABLED until an administrator acts on it.
DisabledSticks ==
  \A u \in Users : hold[u] = "DISABLED" => users[u].status = "DISABLED"

\* "Admin LOCKED is a permanent state [...] cleared only by an explicit
\* unlock": an account an administrator locked stays LOCKED.
AdminLockSticks ==
  \A u \in Users : hold[u] = "LOCKED" => users[u].status = "LOCKED"

\* "LOCKED blocks sign-in; sessions are revoked": when no request is under
\* way, a LOCKED account has no session.
LockedHasNoSession ==
  \A u \in Users :
    (/\ users[u].status = "LOCKED"
     /\ \A r \in LoginRequests : loginReq[r].userId # u
     /\ \A a \in AdminRequests : adminReq[a].userId # u)
      => ~signedIn[u]

\* "DISABLED blocks sign-in": a sign-in that is still waiting for its second
\* factor when the account is disabled cannot be completed.
DisabledBlocksSecondFactor ==
  [][\A r \in LoginRequests :
       LoginFinishMfa(r) => users[loginReq[r].userId].status # "DISABLED"]_vars
=============================================================================
