--------------------------- MODULE AccountsProofs ---------------------------
(***************************************************************************)
(* For every set of users, any number of concurrent sign-ins, status       *)
(* changes and verifications and every lockout setting: the types of       *)
(* module Accounts are kept, nobody has a session without a verified       *)
(* address, and failed sign-ins never lock an account beyond the window.   *)
(*                                                                         *)
(* SignedInVerified is not inductive: a sign-in about to create a session  *)
(* read the address as verified some time ago.  What carries it is that a  *)
(* verified address stays verified, so the copy a sign-in holds is never   *)
(* ahead of the table (CopiesOK).                                          *)
(*                                                                         *)
(* The failure counter and the lock window hold of every account that no   *)
(* sign-in or verification wrote on an outdated reading (`raced`): then    *)
(* the count, the status and the lock date of its row agree with what was  *)
(* checked (RowsAccount), and a sign-in up to date works on that row.      *)
(***************************************************************************)
EXTENDS Accounts, TLAPS

\* A request under way is about a user.
RequestsOK ==
  /\ \A r \in LoginRequests : loginReq[r].pc # "idle" => loginReq[r].userId \in Users
  /\ \A a \in AdminRequests : adminReq[a].pc # "idle" => adminReq[a].userId \in Users
  /\ \A v \in VerifyRequests : verifyReq[v].pc # "idle" => verifyReq[v].userId \in Users

TypeInv == TypeOK /\ RequestsOK

\* A sign-in that saw a verified address, or is past the gate that asks for
\* one, concerns an account whose address is verified.
CopiesOK ==
  \A r \in LoginRequests :
    (/\ loginReq[r].pc # "idle"
     /\ loginReq[r].row.emailVerified \/ loginReq[r].pc \in {"challenge", "issue"})
      => users[loginReq[r].userId].emailVerified

VerifiedInv == CopiesOK /\ SignedInVerified

-----------------------------------------------------------------------------
\* The statements of the user repository keep the type of the row, none of
\* them takes a verified address back, and all but a lock clear or keep the
\* lock date.
LEMMA RowWrites ==
  ASSUME NEW row \in UserRow
  PROVE  /\ MarkEmailVerified(row) \in UserRow
         /\ MarkEmailVerified(row).emailVerified
         /\ MarkEmailVerified(row).lockedUntil = row.lockedUntil
         /\ MarkLoginSuccess(row) \in UserRow
         /\ MarkLoginSuccess(row).emailVerified = row.emailVerified
         /\ MarkLoginSuccess(row).lockedUntil = 0
         /\ Unlock(row) \in UserRow
         /\ Unlock(row).emailVerified = row.emailVerified
         /\ Unlock(row).lockedUntil = 0
  BY DEF MarkEmailVerified, MarkLoginSuccess, Unlock, UserRow, AccountStatus

\* The same of a failed sign-in, which writes the lock date it is given.
LEMMA FailureWrite ==
  ASSUME NEW row \in UserRow, NEW n \in Nat, NEW d \in Nat
  PROVE  /\ RecordFailedLogin(row, n, d) \in UserRow
         /\ RecordFailedLogin(row, n, d).emailVerified = row.emailVerified
         /\ RecordFailedLogin(row, n, d).lockedUntil = d
  BY DEF RecordFailedLogin, UserRow, AccountStatus

\* The same of a status change, which clears the date unless it locks.
LEMMA StatusChange ==
  ASSUME NEW row \in UserRow, NEW st \in AccountStatus
  PROVE  /\ UpdateStatus(row, st) \in UserRow
         /\ UpdateStatus(row, st).emailVerified = row.emailVerified
         /\ st # "LOCKED" => UpdateStatus(row, st).lockedUntil = 0
  BY AccountConstants DEF UpdateStatus, UserRow

\* An idle request has the type of a request.
LEMMA IdleTypes ==
  /\ IdleLogin \in LoginRecord /\ IdleAdmin \in AdminRecord /\ IdleVerify \in VerifyRecord
  BY DEF IdleLogin, IdleAdmin, IdleVerify, LoginRecord, AdminRecord, VerifyRecord,
         Registered, UserRow, AccountStatus, Owner

\* A change of one account keeps the type of the table.
LEMMA OneRow ==
  ASSUME TypeOK, NEW u \in Users, NEW row \in UserRow,
         users' = [users EXCEPT ![u] = row]
  PROVE  users' \in [Users -> UserRow]
  BY DEF TypeOK

\* A change of one sign-in that keeps its type keeps the type of them all.
LEMMA OneLogin ==
  ASSUME TypeInv, NEW r \in LoginRequests, NEW rec \in LoginRecord,
         rec.pc # "idle" => rec.userId \in Users,
         loginReq' = [loginReq EXCEPT ![r] = rec]
  PROVE  /\ loginReq' \in [LoginRequests -> LoginRecord]
         /\ \A p \in LoginRequests : loginReq'[p].pc # "idle" => loginReq'[p].userId \in Users
  BY DEF TypeInv, TypeOK, RequestsOK

\* The types hold at first.
LEMMA InitTypes == Init => TypeInv
<1>. SUFFICES ASSUME Init  PROVE TypeInv
  OBVIOUS
<1>1. Registered \in UserRow /\ SignedUp(TRUE) \in UserRow /\ SignedUp(FALSE) \in UserRow
  BY DEF Registered, SignedUp, UserRow, AccountStatus
<1>2. users \in [Users -> UserRow]
  BY <1>1 DEF Init
<1>3. 0 \in 0..MaxClock
  BY AccountConstants
<1>4. RequestsOK
  BY DEF Init, RequestsOK, IdleLogin, IdleAdmin, IdleVerify
<1>. QED  BY <1>2, <1>3, <1>4, IdleTypes DEF Init, TypeInv, TypeOK

-----------------------------------------------------------------------------
\* Reading the row, and the steps of a sign-in that write no account, keep
\* the types.
LEMMA LoginQuietTypes ==
  ASSUME TypeInv, NEW r \in LoginRequests,
         \/ LoginRefused(r) \/ LoginFinishMfa(r) \/ LoginChallengeLapses(r) \/ LoginIssue(r)
         \/ \E u \in Users, b \in BOOLEAN : LoginRead(r, u, b)
  PROVE  TypeInv'
<1>0. loginReq[r] \in LoginRecord
  BY DEF TypeInv, TypeOK
<1>1. CASE LoginRefused(r) \/ LoginChallengeLapses(r)
  <2>1. /\ loginReq' = [loginReq EXCEPT ![r] = IdleLogin]
        /\ UNCHANGED <<now, tables, adminReq, verifyReq, history>>
    BY <1>1 DEF LoginRefused, LoginChallengeLapses
  <2>2. IdleLogin.pc = "idle"
    BY DEF IdleLogin
  <2>. QED  BY <2>1, <2>2, IdleTypes, OneLogin
            DEF TypeInv, TypeOK, RequestsOK, tables, history
<1>2. CASE LoginFinishMfa(r)
  <2>. DEFINE rec == [loginReq[r] EXCEPT !.pc = "issue"]
  <2>1. rec \in LoginRecord /\ rec.userId = loginReq[r].userId
    BY <1>0 DEF LoginRecord
  <2>2. loginReq' = [loginReq EXCEPT ![r] = rec] /\ loginReq[r].userId \in Users
    BY <1>2 DEF LoginFinishMfa, TypeInv, TypeOK, RequestsOK
  <2>. HIDE DEF rec
  <2>3. /\ loginReq' \in [LoginRequests -> LoginRecord]
        /\ \A p \in LoginRequests : loginReq'[p].pc # "idle" => loginReq'[p].userId \in Users
    BY <2>1, <2>2, OneLogin
  <2>. QED  BY <1>2, <2>3 DEF LoginFinishMfa, TypeInv, TypeOK, RequestsOK, tables, history
<1>3. CASE LoginIssue(r)
  <2>1. loginReq' = [loginReq EXCEPT ![r] = IdleLogin]
    BY <1>3 DEF LoginIssue
  <2>2. IdleLogin.pc = "idle"
    BY DEF IdleLogin
  <2>3. signedIn' \in [Users -> BOOLEAN]
    BY <1>3 DEF LoginIssue, TypeInv, TypeOK
  <2>. QED  BY <1>3, <2>1, <2>2, <2>3, IdleTypes, OneLogin
            DEF LoginIssue, TypeInv, TypeOK, RequestsOK, history
<1>4. ASSUME NEW u \in Users, NEW b \in BOOLEAN, LoginRead(r, u, b)  PROVE TypeInv'
  <2>. DEFINE rec == [pc |-> "read", userId |-> u, row |-> users[u],
                      correct |-> b, until |-> 0]
  <2>1. rec \in LoginRecord /\ rec.userId \in Users
    BY DEF LoginRecord, Owner, TypeInv, TypeOK
  <2>2. loginReq' = [loginReq EXCEPT ![r] = rec]
    BY <1>4 DEF LoginRead
  <2>. HIDE DEF rec
  <2>3. /\ loginReq' \in [LoginRequests -> LoginRecord]
        /\ \A p \in LoginRequests : loginReq'[p].pc # "idle" => loginReq'[p].userId \in Users
    BY <2>1, <2>2, OneLogin
  <2>. QED  BY <1>4, <2>3 DEF LoginRead, TypeInv, TypeOK, RequestsOK, tables, history
<1>. QED  BY <1>1, <1>2, <1>3, <1>4

\* The steps of a sign-in that write the account keep the types.
LEMMA LoginWriteTypes ==
  ASSUME TypeInv, NEW r \in LoginRequests,
         LoginUnlock(r) \/ LoginFail(r) \/ LoginSucceed(r)
  PROVE  TypeInv'
<1>. DEFINE u == loginReq[r].userId
<1>0. loginReq[r] \in LoginRecord /\ u \in Users /\ users[u] \in UserRow
  BY DEF LoginUnlock, LoginFail, LoginSucceed, MayCheckPassword, TypeInv, TypeOK, RequestsOK
<1>a. now \in Nat /\ LOGIN_LOCKOUT \in Nat /\ MFA_CHALLENGE_TTL \in Nat
  BY AccountConstants DEF TypeInv, TypeOK
<1>b. raced' \in SUBSET Users
  BY <1>0 DEF LoginUnlock, LoginFail, LoginSucceed, MarkRaced, TypeInv, TypeOK
<1>1. CASE LoginUnlock(r)
  <2>. DEFINE rec == [loginReq[r] EXCEPT !.pc = "unlocked"]
  <2>1. rec \in LoginRecord /\ rec.userId \in Users
    BY <1>0 DEF LoginRecord
  <2>2. loginReq' = [loginReq EXCEPT ![r] = rec]
    BY <1>1 DEF LoginUnlock
  <2>. HIDE DEF rec
  <2>3. /\ loginReq' \in [LoginRequests -> LoginRecord]
        /\ \A p \in LoginRequests : loginReq'[p].pc # "idle" => loginReq'[p].userId \in Users
    BY <2>1, <2>2, OneLogin
  <2>4. users' = [users EXCEPT ![u] = Unlock(users[u])]
    BY <1>1 DEF LoginUnlock
  <2>5. users' \in [Users -> UserRow]
    BY <1>0, <2>4, RowWrites DEF TypeInv, TypeOK
  <2>6. misses' \in [Users -> Nat]
    BY <1>1, <1>0 DEF LoginUnlock, TypeInv, TypeOK
  <2>. QED  BY <1>1, <1>b, <2>3, <2>5, <2>6 DEF LoginUnlock, TypeInv, TypeOK, RequestsOK
<1>2. CASE LoginFail(r)
  <2>. DEFINE attempts == loginReq[r].row.failedLoginAttempts + 1
              until == IF ShouldLock(attempts) THEN now + LOGIN_LOCKOUT ELSE 0
  <2>1. attempts \in Nat
    BY <1>0 DEF LoginRecord, UserRow
  <2>2. until \in Nat
    BY <1>a
  <2>3. /\ users' = [users EXCEPT ![u] = RecordFailedLogin(users[u], attempts, until)]
        /\ lockedAt' = [lockedAt EXCEPT ![u] = IF until = 0 THEN lockedAt[u] ELSE now]
        /\ misses' = [misses EXCEPT ![u] = misses[u] + 1]
        /\ loginReq' = [loginReq EXCEPT ![r] = IdleLogin]
    BY <1>2 DEF LoginFail
  <2>. HIDE DEF attempts, until
  <2>4. users' \in [Users -> UserRow]
    <3>1. RecordFailedLogin(users[u], attempts, until) \in UserRow
      BY <1>0, <2>1, <2>2, FailureWrite
    <3>. QED  BY <1>0, <2>3, <3>1 DEF TypeInv, TypeOK
  <2>5. misses' \in [Users -> Nat] /\ lockedAt' \in [Users -> Nat]
    BY <1>0, <1>a, <2>3 DEF TypeInv, TypeOK
  <2>6. IdleLogin.pc = "idle"
    BY DEF IdleLogin
  <2>7. /\ loginReq' \in [LoginRequests -> LoginRecord]
        /\ \A p \in LoginRequests : loginReq'[p].pc # "idle" => loginReq'[p].userId \in Users
    BY <2>3, <2>6, IdleTypes, OneLogin
  <2>. QED  BY <1>2, <1>b, <2>4, <2>5, <2>7 DEF LoginFail, TypeInv, TypeOK, RequestsOK
<1>3. CASE LoginSucceed(r)
  <2>1. PICK pc0 \in {"challenge", "issue"} :
          loginReq' = [loginReq EXCEPT ![r].pc = pc0, ![r].until = now + MFA_CHALLENGE_TTL]
    BY <1>3 DEF LoginSucceed
  <2>. DEFINE rec == [loginReq[r] EXCEPT !.pc = pc0, !.until = now + MFA_CHALLENGE_TTL]
  <2>2. rec \in LoginRecord /\ rec.userId \in Users
    <3>1. now + MFA_CHALLENGE_TTL \in Nat
      BY <1>a
    <3>. HIDE DEF u
    <3>. QED  BY <1>0, <3>1 DEF LoginRecord, u
  <2>3. loginReq' = [loginReq EXCEPT ![r] = rec]
    BY <2>1
  <2>. HIDE DEF rec
  <2>4. /\ loginReq' \in [LoginRequests -> LoginRecord]
        /\ \A p \in LoginRequests : loginReq'[p].pc # "idle" => loginReq'[p].userId \in Users
    BY <2>2, <2>3, OneLogin
  <2>5. users' = [users EXCEPT ![u] = MarkLoginSuccess(users[u])]
    BY <1>3 DEF LoginSucceed
  <2>6. users' \in [Users -> UserRow]
    BY <1>0, <2>5, RowWrites DEF TypeInv, TypeOK
  <2>7. misses' \in [Users -> Nat]
    BY <1>3, <1>0 DEF LoginSucceed, TypeInv, TypeOK
  <2>. QED  BY <1>3, <1>b, <2>4, <2>6, <2>7 DEF LoginSucceed, TypeInv, TypeOK, RequestsOK
<1>. QED  BY <1>1, <1>2, <1>3

\* Verifications and status changes keep the types.
LEMMA OtherTypes ==
  ASSUME TypeInv,
         \/ \E v \in VerifyRequests, u \in Users : VerifyRead(v, u)
         \/ \E v \in VerifyRequests : VerifyMark(v)
         \/ \E a \in AdminRequests, u \in Users, st \in AccountStatus : AdminRead(a, u, st)
         \/ \E a \in AdminRequests : AdminUpdate(a) \/ AdminRevokeAll(a)
  PROVE  TypeInv'
<1>1. ASSUME NEW v \in VerifyRequests, NEW u \in Users, VerifyRead(v, u)  PROVE TypeInv'
  <2>1. verifyReq' \in [VerifyRequests -> VerifyRecord]
    BY <1>1 DEF VerifyRead, TypeInv, TypeOK, VerifyRecord, Owner
  <2>2. \A w \in VerifyRequests : verifyReq'[w].pc # "idle" => verifyReq'[w].userId \in Users
    BY <1>1 DEF VerifyRead, TypeInv, TypeOK, RequestsOK
  <2>. QED  BY <1>1, <2>1, <2>2 DEF VerifyRead, TypeInv, TypeOK, RequestsOK, tables, history
<1>2. ASSUME NEW v \in VerifyRequests, VerifyMark(v)  PROVE TypeInv'
  <2>. DEFINE u == verifyReq[v].userId
  <2>1. u \in Users /\ users[u] \in UserRow
    BY <1>2 DEF VerifyMark, TypeInv, TypeOK, RequestsOK
  <2>2. users' = [users EXCEPT ![u] = MarkEmailVerified(users[u])]
    BY <1>2 DEF VerifyMark
  <2>3. users' \in [Users -> UserRow]
    BY <2>1, <2>2, RowWrites DEF TypeInv, TypeOK
  <2>4. IdleVerify.pc = "idle"
    BY DEF IdleVerify
  <2>5. raced' \in SUBSET Users
    BY <1>2, <2>1 DEF VerifyMark, MarkRaced, TypeInv, TypeOK
  <2>. QED  BY <1>2, <2>3, <2>4, <2>5, IdleTypes
            DEF VerifyMark, TypeInv, TypeOK, RequestsOK
<1>3. ASSUME NEW a \in AdminRequests, NEW u \in Users, NEW st \in AccountStatus,
             AdminRead(a, u, st)
      PROVE  TypeInv'
  <2>1. adminReq' \in [AdminRequests -> AdminRecord]
    BY <1>3 DEF AdminRead, TypeInv, TypeOK, AdminRecord, Owner
  <2>2. \A b \in AdminRequests : adminReq'[b].pc # "idle" => adminReq'[b].userId \in Users
    BY <1>3 DEF AdminRead, TypeInv, TypeOK, RequestsOK
  <2>. QED  BY <1>3, <2>1, <2>2 DEF AdminRead, TypeInv, TypeOK, RequestsOK, tables, history
<1>4. ASSUME NEW a \in AdminRequests, AdminUpdate(a)  PROVE TypeInv'
  <2>. DEFINE u == adminReq[a].userId
              st == adminReq[a].status
  <2>1. /\ u \in Users /\ users[u] \in UserRow
        /\ adminReq[a] \in AdminRecord /\ st \in AccountStatus
    BY <1>4 DEF AdminUpdate, TypeInv, TypeOK, RequestsOK, AdminRecord
  <2>2. /\ users' = [users EXCEPT ![u] = UpdateStatus(users[u], st)]
        /\ hold' = [hold EXCEPT ![u] = IF Deactivates(st) THEN st ELSE "none"]
        /\ misses' = [misses EXCEPT ![u] = 0]
    BY <1>4 DEF AdminUpdate
  <2>3. users' \in [Users -> UserRow]
    BY <2>1, <2>2, StatusChange DEF TypeInv, TypeOK
  <2>4. hold' \in [Users -> {"none", "LOCKED", "DISABLED"}] /\ misses' \in [Users -> Nat]
    BY <2>1, <2>2 DEF TypeInv, TypeOK, Deactivates
  <2>5. [adminReq[a] EXCEPT !.pc = "revokeAll"] \in AdminRecord
    BY <2>1 DEF AdminRecord
  <2>6. adminReq' \in [AdminRequests -> AdminRecord]
    BY <1>4, <2>5, IdleTypes DEF AdminUpdate, TypeInv, TypeOK
  <2>7. \A b \in AdminRequests : adminReq'[b].pc # "idle" => adminReq'[b].userId \in Users
    BY <1>4, <2>1 DEF AdminUpdate, TypeInv, TypeOK, RequestsOK, IdleAdmin, AdminRecord
  <2>. QED  BY <1>4, <2>3, <2>4, <2>6, <2>7 DEF AdminUpdate, TypeInv, TypeOK, RequestsOK
<1>5. ASSUME NEW a \in AdminRequests, AdminRevokeAll(a)  PROVE TypeInv'
  <2>1. IdleAdmin.pc = "idle"
    BY DEF IdleAdmin
  <2>. QED  BY <1>5, <2>1, IdleTypes
            DEF AdminRevokeAll, TypeInv, TypeOK, RequestsOK, history
<1>. QED  BY <1>1, <1>2, <1>3, <1>4, <1>5

\* Every step keeps the types.
LEMMA NextTypes == TypeInv /\ [Next]_vars => TypeInv'
<1>. SUFFICES ASSUME TypeInv, [Next]_vars  PROVE TypeInv'
  OBVIOUS
<1>1. CASE Tick
  <2>1. now' \in 0..MaxClock
    BY <1>1, AccountConstants DEF Tick, TypeInv, TypeOK
  <2>. QED  BY <1>1, <2>1 DEF Tick, TypeInv, TypeOK, RequestsOK, tables, history
<1>2. CASE UNCHANGED vars
  BY <1>2 DEF vars, TypeInv, TypeOK, RequestsOK
<1>. QED  BY <1>1, <1>2, LoginQuietTypes, LoginWriteTypes, OtherTypes DEF Next, LoginStep

\* The users table and the requests under way always have their types.
THEOREM TypeCorrect == Spec => []TypeOK
<1>1. TypeInv => TypeOK
  BY DEF TypeInv
<1>. QED  BY InitTypes, NextTypes, <1>1, PTL DEF Spec

-----------------------------------------------------------------------------
\* What a step may do to a row: a verified address stays verified, and the
\* lock date stays, is cleared, is set to the lockout window, or is set by an
\* administrator who locks the account.
RowEvolved(w) ==
  /\ users[w].emailVerified => users'[w].emailVerified
  /\ \/ users'[w].lockedUntil = users[w].lockedUntil /\ hold'[w] = hold[w]
     \/ users'[w].lockedUntil \in {0, now + LOGIN_LOCKOUT}
     \/ hold'[w] = "LOCKED"

\* Every step does one of these to a row.
LEMMA RowEvolves ==
  ASSUME TypeInv, [Next]_vars, NEW w \in Users
  PROVE  RowEvolved(w)
<1>0. users \in [Users -> UserRow] /\ users[w] \in UserRow
  BY DEF TypeInv, TypeOK
<1>1. CASE UNCHANGED <<users, hold>>
  BY <1>1 DEF RowEvolved
<1>2. ASSUME NEW r \in LoginRequests, LoginUnlock(r) \/ LoginSucceed(r)  PROVE RowEvolved(w)
  <2>. DEFINE u == loginReq[r].userId
  <2>1. /\ hold' = hold
        /\ \/ users' = [users EXCEPT ![u] = Unlock(users[u])]
           \/ users' = [users EXCEPT ![u] = MarkLoginSuccess(users[u])]
    BY <1>2 DEF LoginUnlock, LoginSucceed
  <2>. HIDE DEF u
  <2>2. \/ users'[w] = users[w]
        \/ users'[w] = Unlock(users[w]) \/ users'[w] = MarkLoginSuccess(users[w])
    BY <1>0, <2>1
  <2>3. /\ MarkLoginSuccess(users[w]).emailVerified = users[w].emailVerified
        /\ MarkLoginSuccess(users[w]).lockedUntil = 0
        /\ Unlock(users[w]).emailVerified = users[w].emailVerified
        /\ Unlock(users[w]).lockedUntil = 0
    BY <1>0, RowWrites
  <2>4. CASE users'[w] = users[w]
    BY <2>1, <2>4 DEF RowEvolved
  <2>5. CASE users'[w] = Unlock(users[w]) \/ users'[w] = MarkLoginSuccess(users[w])
    BY <2>3, <2>5 DEF RowEvolved
  <2>. QED  BY <2>2, <2>4, <2>5
<1>3. ASSUME NEW r \in LoginRequests, LoginFail(r)  PROVE RowEvolved(w)
  <2>. DEFINE u == loginReq[r].userId
              attempts == loginReq[r].row.failedLoginAttempts + 1
              until == IF ShouldLock(attempts) THEN now + LOGIN_LOCKOUT ELSE 0
  <2>1. /\ users' = [users EXCEPT ![u] = RecordFailedLogin(users[u], attempts, until)]
        /\ until \in {0, now + LOGIN_LOCKOUT}
    BY <1>3 DEF LoginFail
  <2>2. loginReq[r] \in LoginRecord
    BY DEF TypeInv, TypeOK
  <2>3. attempts \in Nat /\ until \in Nat
    BY <2>1, <2>2, AccountConstants DEF LoginRecord, UserRow, TypeInv, TypeOK
  <2>. HIDE DEF attempts, until
  <2>4. /\ RecordFailedLogin(users[w], attempts, until).lockedUntil = until
        /\ RecordFailedLogin(users[w], attempts, until).emailVerified = users[w].emailVerified
    BY <1>0, <2>3, FailureWrite
  <2>5. users'[w] = users[w] \/ users'[w] = RecordFailedLogin(users[w], attempts, until)
    BY <1>0, <2>1
  <2>6. hold' = hold
    BY <1>3 DEF LoginFail
  <2>. QED  BY <2>1, <2>4, <2>5, <2>6 DEF RowEvolved
<1>4. ASSUME NEW v \in VerifyRequests, VerifyMark(v)  PROVE RowEvolved(w)
  <2>. DEFINE u == verifyReq[v].userId
  <2>1. hold' = hold /\ users' = [users EXCEPT ![u] = MarkEmailVerified(users[u])]
    BY <1>4 DEF VerifyMark, history
  <2>. QED  BY <1>0, <2>1, RowWrites DEF RowEvolved
<1>5. ASSUME NEW a \in AdminRequests, AdminUpdate(a)  PROVE RowEvolved(w)
  <2>. DEFINE u == adminReq[a].userId
              st == adminReq[a].status
  <2>1. /\ users' = [users EXCEPT ![u] = UpdateStatus(users[u], st)]
        /\ hold' = [hold EXCEPT ![u] = IF Deactivates(st) THEN st ELSE "none"]
    BY <1>5 DEF AdminUpdate
  <2>2. st \in AccountStatus
    BY <1>5 DEF TypeInv, TypeOK, AdminRecord
  <2>3. hold \in [Users -> {"none", "LOCKED", "DISABLED"}]
    BY DEF TypeInv, TypeOK
  <2>. HIDE DEF u, st
  <2>4. CASE w # u
    BY <1>0, <2>1, <2>3, <2>4 DEF RowEvolved
  <2>5. CASE w = u
    <3>1. users'[w] = UpdateStatus(users[w], st)
      BY <1>0, <2>1, <2>5
    <3>2. st = "LOCKED" => hold'[w] = "LOCKED"
      BY <2>1, <2>3, <2>5 DEF Deactivates
    <3>3. /\ UpdateStatus(users[w], st).emailVerified = users[w].emailVerified
          /\ st # "LOCKED" => UpdateStatus(users[w], st).lockedUntil = 0
      BY <1>0, <2>2, StatusChange
    <3>. QED  BY <3>1, <3>2, <3>3 DEF RowEvolved
  <2>. QED  BY <2>4, <2>5
<1>6. ASSUME NEW r \in LoginRequests,
             LoginRefused(r) \/ LoginFinishMfa(r) \/ LoginChallengeLapses(r) \/ LoginIssue(r)
      PROVE  RowEvolved(w)
  BY <1>1, <1>6 DEF LoginRefused, LoginFinishMfa, LoginChallengeLapses, LoginIssue,
                    tables, history
<1>7. CASE \/ Tick
           \/ \E r \in LoginRequests, u \in Users, b \in BOOLEAN : LoginRead(r, u, b)
           \/ \E v \in VerifyRequests, u \in Users : VerifyRead(v, u)
           \/ \E a \in AdminRequests, u \in Users, st \in AccountStatus : AdminRead(a, u, st)
           \/ \E a \in AdminRequests : AdminRevokeAll(a)
  BY <1>1, <1>7 DEF Tick, LoginRead, VerifyRead, AdminRead, AdminRevokeAll, tables, history
<1>8. CASE UNCHANGED vars
  BY <1>1, <1>8 DEF vars
<1>9. CASE \E r \in LoginRequests : LoginStep(r)
  BY <1>2, <1>3, <1>6, <1>9 DEF LoginStep
<1>10. CASE \E a \in AdminRequests : AdminUpdate(a) \/ AdminRevokeAll(a)
  BY <1>5, <1>7, <1>10
<1>11. CASE \E v \in VerifyRequests : VerifyMark(v)
  BY <1>4, <1>11
<1>. QED  BY <1>7, <1>8, <1>9, <1>10, <1>11 DEF Next

\* Failed sign-ins never lock an account beyond the lockout window, whatever
\* the number of sign-ins that overwrite each other's lock.
THEOREM SelfLockHolds == Spec => []SelfLockIsTransient
<1>1. Init => SelfLockIsTransient
  <2>. SUFFICES ASSUME Init, NEW u \in Users  PROVE users[u].lockedUntil <= now + LOGIN_LOCKOUT
    BY DEF SelfLockIsTransient
  <2>1. users[u].lockedUntil = 0 /\ now = 0
    BY DEF Init, Registered, SignedUp
  <2>. QED  BY <2>1, AccountConstants
<1>2. TypeInv /\ TypeInv' /\ SelfLockIsTransient /\ [Next]_vars => SelfLockIsTransient'
  <2>. SUFFICES ASSUME TypeInv, TypeInv', SelfLockIsTransient, [Next]_vars,
                       NEW w \in Users, hold'[w] # "LOCKED"
                PROVE  users'[w].lockedUntil <= now' + LOGIN_LOCKOUT
    BY DEF SelfLockIsTransient
  <2>1. now \in Nat /\ now' \in Nat /\ LOGIN_LOCKOUT \in Nat
    BY AccountConstants DEF TypeInv, TypeOK
  <2>2. now' >= now
    <3>1. CASE Tick
      BY <2>1, <3>1 DEF Tick
    <3>2. CASE ~Tick
      <4>1. now' = now
        BY <3>2, Zenon
           DEF Next, LoginStep, LoginRead, LoginRefused, LoginUnlock, LoginFail, LoginSucceed,
               LoginFinishMfa, LoginChallengeLapses, LoginIssue, VerifyRead, VerifyMark,
               AdminRead, AdminUpdate, AdminRevokeAll, vars
      <4>. QED  BY <2>1, <4>1
    <3>. QED  BY <3>1, <3>2
  <2>3. users[w].lockedUntil \in Nat
    BY DEF TypeInv, TypeOK, UserRow
  <2>4. CASE users'[w].lockedUntil = users[w].lockedUntil /\ hold'[w] = hold[w]
    BY <2>1, <2>2, <2>3, <2>4 DEF SelfLockIsTransient
  <2>5. CASE users'[w].lockedUntil \in {0, now + LOGIN_LOCKOUT}
    BY <2>1, <2>2, <2>5
  <2>. QED  BY <2>4, <2>5, RowEvolves DEF RowEvolved
<1>. QED  BY InitTypes, NextTypes, <1>1, <1>2, PTL DEF Spec

-----------------------------------------------------------------------------
\* A step of a sign-in leaves its copy no further ahead than the table.
LEMMA LoginCopies ==
  ASSUME TypeInv, VerifiedInv, NEW r \in LoginRequests,
         LoginStep(r) \/ \E u \in Users, b \in BOOLEAN : LoginRead(r, u, b)
  PROVE  /\ \A p \in LoginRequests \ {r} : loginReq'[p] = loginReq[p]
         /\ \/ loginReq'[r].pc = "idle"
            \/ /\ loginReq'[r].userId \in Users
               /\ \/ users[loginReq'[r].userId].emailVerified
                  \/ ~loginReq'[r].row.emailVerified
                     /\ loginReq'[r].pc \notin {"challenge", "issue"}
<1>0. /\ loginReq \in [LoginRequests -> LoginRecord] /\ loginReq[r] \in LoginRecord
      /\ loginReq[r].pc # "idle" => loginReq[r].userId \in Users
  BY DEF TypeInv, TypeOK, RequestsOK
<1>1. CASE \E u \in Users, b \in BOOLEAN : LoginRead(r, u, b)
  BY <1>0, <1>1 DEF LoginRead
<1>2. CASE LoginRefused(r) \/ LoginFail(r) \/ LoginChallengeLapses(r) \/ LoginIssue(r)
  BY <1>0, <1>2 DEF LoginRefused, LoginFail, LoginChallengeLapses, LoginIssue, IdleLogin
<1>3. CASE LoginUnlock(r)
  BY <1>0, <1>3 DEF LoginUnlock, VerifiedInv, CopiesOK, LoginRecord
<1>4. CASE LoginSucceed(r)
  <2>1. users[loginReq[r].userId].emailVerified /\ loginReq[r].userId \in Users
    BY <1>0, <1>4 DEF LoginSucceed, MayCheckPassword, AwaitingVerification, VerifiedInv, CopiesOK
  <2>2. PICK pc0 \in {"challenge", "issue"} :
          loginReq' = [loginReq EXCEPT ![r].pc = pc0, ![r].until = now + MFA_CHALLENGE_TTL]
    BY <1>4 DEF LoginSucceed
  <2>3. loginReq'[r].userId = loginReq[r].userId
    BY <1>0, <2>2 DEF LoginRecord
  <2>. QED  BY <1>0, <2>1, <2>2, <2>3
<1>5. CASE LoginFinishMfa(r)
  BY <1>0, <1>5 DEF LoginFinishMfa, VerifiedInv, CopiesOK, LoginRecord
<1>. QED  BY <1>1, <1>2, <1>3, <1>4, <1>5 DEF LoginStep

\* No step gives a session to an account whose address is not verified.
LEMMA NextVerified == TypeInv /\ VerifiedInv /\ [Next]_vars => VerifiedInv'
<1>. SUFFICES ASSUME TypeInv, VerifiedInv, [Next]_vars  PROVE VerifiedInv'
  OBVIOUS
<1>0. \A w \in Users : users[w].emailVerified => users'[w].emailVerified
  BY RowEvolves DEF RowEvolved
<1>1. ASSUME NEW r \in LoginRequests,
             LoginStep(r) \/ \E u \in Users, b \in BOOLEAN : LoginRead(r, u, b)
      PROVE  VerifiedInv'
  <2>1. CopiesOK'
    BY <1>0, <1>1, LoginCopies DEF VerifiedInv, CopiesOK, TypeInv, RequestsOK
  <2>2. \A u \in Users : signedIn'[u] => signedIn[u] \/ users[u].emailVerified
    <3>1. CASE LoginIssue(r)
      BY <3>1 DEF LoginIssue, VerifiedInv, CopiesOK, TypeInv, TypeOK, RequestsOK
    <3>2. CASE ~LoginIssue(r)
      <4>1. signedIn' = signedIn
        BY <1>1, <3>2 DEF LoginStep, LoginRead, LoginRefused, LoginUnlock, LoginFail,
                    LoginSucceed, LoginFinishMfa, LoginChallengeLapses, tables
      <4>. QED  BY <4>1
    <3>. QED  BY <3>1, <3>2
  <2>. QED  BY <1>0, <2>1, <2>2 DEF VerifiedInv, SignedInVerified
<1>2. CASE \/ Tick
           \/ \E v \in VerifyRequests, u \in Users : VerifyRead(v, u)
           \/ \E v \in VerifyRequests : VerifyMark(v)
           \/ \E a \in AdminRequests, u \in Users, st \in AccountStatus : AdminRead(a, u, st)
           \/ \E a \in AdminRequests : AdminUpdate(a) \/ AdminRevokeAll(a)
  <2>1. loginReq' = loginReq
    BY <1>2 DEF Tick, VerifyRead, VerifyMark, AdminRead, AdminUpdate, AdminRevokeAll
  <2>2. \A u \in Users : signedIn'[u] => signedIn[u]
    BY <1>2 DEF Tick, VerifyRead, VerifyMark, AdminRead, AdminUpdate, AdminRevokeAll,
                tables, TypeInv, TypeOK
  <2>. QED  BY <1>0, <2>1, <2>2
            DEF VerifiedInv, CopiesOK, SignedInVerified, TypeInv, RequestsOK
<1>3. CASE UNCHANGED vars
  BY <1>3 DEF vars, VerifiedInv, CopiesOK, SignedInVerified
<1>4. CASE \E r \in LoginRequests, u \in Users, b \in BOOLEAN : LoginRead(r, u, b)
  BY <1>1, <1>4
<1>5. CASE \E r \in LoginRequests : LoginStep(r)
  BY <1>1, <1>5
<1>. QED  BY <1>2, <1>3, <1>4, <1>5 DEF Next

\* Nobody has a session without a verified address, however many sign-ins,
\* verifications, lapsing locks and status changes interleave.
THEOREM SignedInVerifiedHolds == Spec => []SignedInVerified
<1>1. Init => VerifiedInv
  BY DEF Init, VerifiedInv, CopiesOK, SignedInVerified, IdleLogin
<1>2. VerifiedInv => SignedInVerified
  BY DEF VerifiedInv
<1>. QED  BY InitTypes, NextTypes, NextVerified, <1>1, <1>2, PTL DEF Spec

-----------------------------------------------------------------------------
(* The failure counter and the lock window *)

\* The row of an account accounts for its m wrong passwords, and if it is
\* LOCKED its lock date for the window that began at d.
Accounted(row, m, d) ==
  /\ m <= row.failedLoginAttempts
  /\ ~row.emailVerified => m = 0
  /\ m >= LOGIN_MAX_ATTEMPTS => row.status # "ACTIVE"
  /\ row.status = "LOCKED" => row.lockedUntil >= d + LOGIN_LOCKOUT

\* Every row does that nobody wrote on an outdated reading.
RowsAccount ==
  \A u \in Users :
    /\ lockedAt[u] <= MaxClock
    /\ u \notin raced => Accounted(users[u], misses[u], lockedAt[u])

\* What the statements of the user repository do to the count and the status.
LEMMA CountWrites ==
  ASSUME NEW row \in UserRow
  PROVE  /\ MarkEmailVerified(row).failedLoginAttempts = row.failedLoginAttempts
         /\ MarkEmailVerified(row).status = "ACTIVE"
         /\ MarkLoginSuccess(row).failedLoginAttempts = 0
         /\ MarkLoginSuccess(row).status = row.status
         /\ Unlock(row).failedLoginAttempts = 0
         /\ Unlock(row).status = "ACTIVE"
         /\ \A n, d \in Nat :
              /\ RecordFailedLogin(row, n, d).failedLoginAttempts = n
              /\ RecordFailedLogin(row, n, d).status =
                   IF d = 0 THEN row.status ELSE "LOCKED"
         /\ \A st \in AccountStatus :
              /\ UpdateStatus(row, st).failedLoginAttempts = row.failedLoginAttempts
              /\ st = "LOCKED" => UpdateStatus(row, st).lockedUntil = FarFuture
              /\ UpdateStatus(row, st).status = st
  BY DEF MarkEmailVerified, MarkLoginSuccess, Unlock, RecordFailedLogin, UpdateStatus, UserRow

\* A step that writes one account and, unless its reading was outdated,
\* leaves it accounted for.
LEMMA OneAccount ==
  ASSUME TypeInv, RowsAccount, NEW u \in Users, NEW row \in UserRow, NEW m \in Nat,
         NEW d \in Nat, d <= MaxClock,
         users' = [users EXCEPT ![u] = row], misses' = [misses EXCEPT ![u] = m],
         lockedAt' = [lockedAt EXCEPT ![u] = d], raced \subseteq raced',
         u \notin raced' => Accounted(row, m, d)
  PROVE  RowsAccount'
<1>1. /\ \A w \in Users : users'[w] = IF w = u THEN row ELSE users[w]
      /\ \A w \in Users : misses'[w] = IF w = u THEN m ELSE misses[w]
      /\ \A w \in Users : lockedAt'[w] = IF w = u THEN d ELSE lockedAt[w]
  BY DEF TypeInv, TypeOK
<1>. QED  BY <1>1 DEF RowsAccount

\* A password is checked on a copy with a verified address; a sign-in whose
\* copy is up to date then finds the account as its copy says, or unlocked.
LEMMA CheckedCopy ==
  ASSUME TypeInv, NEW r \in LoginRequests, MayCheckPassword(r), ~Outdated(r)
  PROVE  LET row == users[loginReq[r].userId]
         IN  /\ row.emailVerified
             /\ row.status # "LOCKED"
             /\ row.failedLoginAttempts <= loginReq[r].row.failedLoginAttempts
<1>. DEFINE old == loginReq[r].row
            row == users[loginReq[r].userId]
<1>1. old \in UserRow /\ old.emailVerified /\ old.failedLoginAttempts \in Nat
  BY DEF MayCheckPassword, AwaitingVerification, TypeInv, TypeOK, LoginRecord, UserRow
<1>2. CASE loginReq[r].pc = "unlocked"
  <2>1. row = Unlock(old)
    BY <1>2 DEF Outdated
  <2>. HIDE DEF old, row
  <2>2. row.emailVerified /\ row.status = "ACTIVE" /\ row.failedLoginAttempts = 0
    BY <1>1, <2>1, RowWrites, CountWrites
  <2>. QED  BY <1>1, <2>2 DEF old, row
<1>3. CASE loginReq[r].pc # "unlocked"
  <2>1. row = old /\ old.status # "LOCKED"
    BY <1>3 DEF Outdated, MayCheckPassword
  <2>. QED  BY <1>1, <2>1
<1>. QED  BY <1>2, <1>3

\* What the writes of a sign-in have in common: the account exists, an
\* outdated reading is remembered, and otherwise the account was accounted for.
LEMMA WrittenAccount ==
  ASSUME TypeInv, RowsAccount, NEW r \in LoginRequests,
         LoginUnlock(r) \/ LoginFail(r) \/ LoginSucceed(r)
  PROVE  LET u == loginReq[r].userId
         IN  /\ u \in Users /\ users[u] \in UserRow
             /\ misses[u] \in Nat /\ lockedAt[u] \in Nat /\ lockedAt[u] <= MaxClock
             /\ now \in Nat /\ now <= MaxClock
             /\ raced \subseteq raced'
             /\ u \notin raced' => /\ ~Outdated(r)
                                   /\ Accounted(users[u], misses[u], lockedAt[u])
<1>. DEFINE u == loginReq[r].userId
<1>1. u \in Users
  BY DEF LoginUnlock, LoginFail, LoginSucceed, MayCheckPassword, TypeInv, RequestsOK
<1>2. raced' = IF Outdated(r) THEN raced \cup {u} ELSE raced
  BY DEF LoginUnlock, LoginFail, LoginSucceed, MarkRaced
<1>3. now \in Nat /\ now <= MaxClock
  BY AccountConstants DEF TypeInv, TypeOK
<1>4. users[u] \in UserRow /\ misses[u] \in Nat /\ lockedAt[u] \in Nat
  BY <1>1 DEF TypeInv, TypeOK
<1>. HIDE DEF u
<1>5. lockedAt[u] <= MaxClock
  BY <1>1 DEF RowsAccount
<1>6. raced \subseteq raced' /\ (u \notin raced' => ~Outdated(r) /\ u \notin raced)
  BY <1>2
<1>7. u \notin raced' => Accounted(users[u], misses[u], lockedAt[u])
  BY <1>1, <1>6 DEF RowsAccount
<1>. QED  BY <1>1, <1>3, <1>4, <1>5, <1>6, <1>7 DEF u

\* The writes of a sign-in leave the account accounted for.
LEMMA LoginCounts ==
  ASSUME TypeInv, RowsAccount, NEW r \in LoginRequests,
         LoginUnlock(r) \/ LoginFail(r) \/ LoginSucceed(r)
  PROVE  RowsAccount'
<1>. DEFINE q == loginReq[r]
            u == q.userId
<1>0. /\ u \in Users /\ users[u] \in UserRow
      /\ misses[u] \in Nat /\ lockedAt[u] \in Nat /\ lockedAt[u] <= MaxClock
      /\ now \in Nat /\ now <= MaxClock
      /\ raced \subseteq raced'
      /\ u \notin raced' => ~Outdated(r) /\ Accounted(users[u], misses[u], lockedAt[u])
  BY WrittenAccount
<1>a. 0 \in Nat /\ ~(0 >= LOGIN_MAX_ATTEMPTS)
  BY AccountConstants
<1>f. misses = [misses EXCEPT ![u] = misses[u]] /\ lockedAt = [lockedAt EXCEPT ![u] = lockedAt[u]]
  BY DEF TypeInv, TypeOK
<1>3. CASE LoginUnlock(r)
  <2>. DEFINE row == Unlock(users[u])
  <2>1. /\ users' = [users EXCEPT ![u] = row] /\ misses' = [misses EXCEPT ![u] = 0]
        /\ lockedAt' = [lockedAt EXCEPT ![u] = lockedAt[u]]
    BY <1>3, <1>f DEF LoginUnlock
  <2>2. row \in UserRow /\ row.status = "ACTIVE" /\ row.failedLoginAttempts = 0
    BY <1>0, RowWrites, CountWrites
  <2>. HIDE DEF row, u
  <2>3. Accounted(row, 0, lockedAt[u])
    BY <1>a, <2>2 DEF Accounted
  <2>. QED  BY <1>0, <1>a, <2>1, <2>2, <2>3, OneAccount
<1>4. CASE LoginFail(r)
  <2>. DEFINE attempts == q.row.failedLoginAttempts + 1
              until == IF ShouldLock(attempts) THEN now + LOGIN_LOCKOUT ELSE 0
              old == users[u]
              row == RecordFailedLogin(old, attempts, until)
              m == misses[u] + 1
              d == IF until = 0 THEN lockedAt[u] ELSE now
  <2>1. /\ users' = [users EXCEPT ![u] = row] /\ misses' = [misses EXCEPT ![u] = m]
        /\ lockedAt' = [lockedAt EXCEPT ![u] = d] /\ MayCheckPassword(r)
    BY <1>4 DEF LoginFail
  <2>2. attempts \in Nat /\ m \in Nat
    BY <1>0 DEF TypeInv, TypeOK, LoginRecord, UserRow
  <2>3. /\ until \in Nat /\ until \in {0, now + LOGIN_LOCKOUT}
        /\ attempts >= LOGIN_MAX_ATTEMPTS => until # 0
    BY <1>0, <2>2, AccountConstants DEF ShouldLock
  <2>4. old \in UserRow
    BY <1>0
  <2>5. d \in Nat /\ d <= MaxClock
    BY <1>0
  <2>6. u \notin raced' => /\ old.emailVerified /\ old.status # "LOCKED"
                           /\ old.failedLoginAttempts + 1 <= attempts
    <3>1. old.failedLoginAttempts \in Nat /\ q.row.failedLoginAttempts \in Nat
      BY <2>4 DEF TypeInv, TypeOK, LoginRecord, UserRow
    <3>2. u \notin raced' => /\ old.emailVerified /\ old.status # "LOCKED"
                             /\ old.failedLoginAttempts <= q.row.failedLoginAttempts
      BY <1>0, <2>1, CheckedCopy
    <3>. QED  BY <3>1, <3>2
  <2>. HIDE DEF attempts, until, old
  <2>7. /\ row \in UserRow /\ row.emailVerified = old.emailVerified
        /\ row.failedLoginAttempts = attempts /\ row.lockedUntil = until
        /\ row.status = IF until = 0 THEN old.status ELSE "LOCKED"
    <3>1. row = RecordFailedLogin(old, attempts, until)
      OBVIOUS
    <3>. HIDE DEF row
    <3>2. /\ row \in UserRow /\ row.emailVerified = old.emailVerified
          /\ row.lockedUntil = until
      BY <2>2, <2>3, <2>4, <3>1, FailureWrite
    <3>3. /\ row.failedLoginAttempts = attempts
          /\ row.status = IF until = 0 THEN old.status ELSE "LOCKED"
      BY <2>2, <2>3, <2>4, <3>1, CountWrites
    <3>. QED  BY <3>2, <3>3
  <2>8. u \notin raced' => Accounted(row, m, d)
    <3>1. SUFFICES ASSUME u \notin raced'  PROVE Accounted(row, m, d)
      OBVIOUS
    <3>2. misses[u] <= old.failedLoginAttempts /\ old.failedLoginAttempts \in Nat
      BY <1>0, <2>4, <3>1 DEF Accounted, old, UserRow
    <3>3. m <= attempts
      BY <1>0, <2>2, <2>6, <3>1, <3>2
    <3>4. m >= LOGIN_MAX_ATTEMPTS => until # 0
      BY <2>2, <2>3, <3>3, AccountConstants
    <3>5. row.status = "LOCKED" => until = now + LOGIN_LOCKOUT /\ d = now
      BY <2>3, <2>6, <2>7, <3>1
    <3>6. now >= 0 /\ now + LOGIN_LOCKOUT >= now + LOGIN_LOCKOUT
      BY <1>0, AccountConstants
    <3>. HIDE DEF row, m, d, q, u
    <3>7. row.status = "LOCKED" => row.lockedUntil >= d + LOGIN_LOCKOUT
      BY <2>7, <3>5, <3>6
    <3>. QED  BY <2>6, <2>7, <3>1, <3>3, <3>4, <3>7 DEF Accounted
  <2>. HIDE DEF row, m, d, q, u
  <2>. QED  BY <1>0, <2>1, <2>2, <2>5, <2>7, <2>8, OneAccount
<1>5. CASE LoginSucceed(r)
  <2>. DEFINE row == MarkLoginSuccess(users[u])
  <2>1. /\ users' = [users EXCEPT ![u] = row] /\ misses' = [misses EXCEPT ![u] = 0]
        /\ lockedAt' = [lockedAt EXCEPT ![u] = lockedAt[u]] /\ MayCheckPassword(r)
    BY <1>5, <1>f DEF LoginSucceed
  <2>2. /\ row \in UserRow /\ row.status = users[u].status /\ row.failedLoginAttempts = 0
    BY <1>0, RowWrites, CountWrites
  <2>3. u \notin raced' => users[u].status # "LOCKED"
    BY <1>0, <2>1, CheckedCopy
  <2>. HIDE DEF row, u
  <2>4. u \notin raced' => Accounted(row, 0, lockedAt[u])
    BY <1>a, <2>2, <2>3 DEF Accounted
  <2>. QED  BY <1>0, <1>a, <2>1, <2>2, <2>4, OneAccount
<1>. QED  BY <1>3, <1>4, <1>5

\* So do a verification, which finds no wrong passwords to account for, and a
\* status change, which restarts the count and locks far beyond any window.
LEMMA NextCounts == TypeInv /\ RowsAccount /\ [Next]_vars => RowsAccount'
<1>. SUFFICES ASSUME TypeInv, RowsAccount, [Next]_vars  PROVE RowsAccount'
  OBVIOUS
<1>0. /\ misses \in [Users -> Nat] /\ lockedAt \in [Users -> Nat]
      /\ \A u \in Users : users[u] \in UserRow
  BY DEF TypeInv, TypeOK
<1>1. CASE UNCHANGED <<users, misses, lockedAt, raced>>
  BY <1>1 DEF RowsAccount
<1>2. ASSUME NEW v \in VerifyRequests, VerifyMark(v)  PROVE RowsAccount'
  <2>. DEFINE u == verifyReq[v].userId
              row == MarkEmailVerified(users[u])
  <2>1. /\ u \in Users /\ users' = [users EXCEPT ![u] = row]
        /\ UNCHANGED <<misses, lockedAt>>
        /\ raced' = IF users[u].emailVerified THEN raced \cup {u} ELSE raced
    BY <1>2 DEF VerifyMark, MarkRaced, TypeInv, RequestsOK
  <2>2. users[u] \in UserRow
    BY <1>0, <2>1
  <2>3. /\ row \in UserRow /\ row.failedLoginAttempts = users[u].failedLoginAttempts
        /\ row.emailVerified /\ row.status = "ACTIVE"
    BY <2>2, RowWrites, CountWrites
  <2>. HIDE DEF row, u
  <2>4. u \notin raced' => Accounted(row, misses[u], lockedAt[u])
    <3>1. SUFFICES ASSUME u \notin raced'  PROVE Accounted(row, misses[u], lockedAt[u])
      OBVIOUS
    <3>2. misses[u] = 0
      BY <2>1, <3>1 DEF RowsAccount, Accounted
    <3>3. row.failedLoginAttempts \in Nat
      BY <2>3 DEF UserRow
    <3>. QED  BY <2>3, <3>2, <3>3, AccountConstants DEF Accounted
  <2>5. /\ misses[u] \in Nat /\ lockedAt[u] \in Nat /\ lockedAt[u] <= MaxClock
        /\ misses' = [misses EXCEPT ![u] = misses[u]]
        /\ lockedAt' = [lockedAt EXCEPT ![u] = lockedAt[u]]
    BY <1>0, <2>1 DEF RowsAccount
  <2>6. raced \subseteq raced'
    BY <2>1
  <2>. QED  BY <2>1, <2>3, <2>4, <2>5, <2>6, OneAccount
<1>3. ASSUME NEW a \in AdminRequests, AdminUpdate(a)  PROVE RowsAccount'
  <2>. DEFINE u == adminReq[a].userId
              st == adminReq[a].status
              row == UpdateStatus(users[u], st)
  <2>1. /\ u \in Users /\ st \in AccountStatus
        /\ users' = [users EXCEPT ![u] = row] /\ misses' = [misses EXCEPT ![u] = 0]
        /\ UNCHANGED <<lockedAt, raced>>
    BY <1>3 DEF AdminUpdate, TypeInv, TypeOK, RequestsOK, AdminRecord
  <2>2. users[u] \in UserRow
    BY <1>0, <2>1
  <2>3. /\ row \in UserRow /\ row.failedLoginAttempts = users[u].failedLoginAttempts
        /\ row.status = st /\ (st = "LOCKED" => row.lockedUntil = FarFuture)
    BY <2>1, <2>2, StatusChange, CountWrites
  <2>. HIDE DEF row, u, st
  <2>4. /\ lockedAt[u] \in Nat /\ lockedAt[u] <= MaxClock
        /\ lockedAt' = [lockedAt EXCEPT ![u] = lockedAt[u]]
    BY <1>0, <2>1 DEF RowsAccount
  <2>5. FarFuture >= lockedAt[u] + LOGIN_LOCKOUT
    BY <2>4, AccountConstants
  <2>6. Accounted(row, 0, lockedAt[u])
    <3>1. row.failedLoginAttempts \in Nat
      BY <2>3 DEF UserRow
    <3>. QED  BY <2>3, <2>5, <3>1, AccountConstants DEF Accounted
  <2>7. raced \subseteq raced' /\ 0 \in Nat
    BY <2>1
  <2>. QED  BY <2>1, <2>3, <2>4, <2>6, <2>7, OneAccount
<1>4. ASSUME NEW r \in LoginRequests,
             LoginRefused(r) \/ LoginFinishMfa(r) \/ LoginChallengeLapses(r) \/ LoginIssue(r)
      PROVE  RowsAccount'
  BY <1>1, <1>4 DEF LoginRefused, LoginFinishMfa, LoginChallengeLapses, LoginIssue,
                    tables, history
<1>5. CASE \/ Tick
           \/ \E r \in LoginRequests, u \in Users, b \in BOOLEAN : LoginRead(r, u, b)
           \/ \E v \in VerifyRequests, u \in Users : VerifyRead(v, u)
           \/ \E a \in AdminRequests, u \in Users, st \in AccountStatus : AdminRead(a, u, st)
           \/ \E a \in AdminRequests : AdminRevokeAll(a)
           \/ UNCHANGED vars
  BY <1>1, <1>5
     DEF Tick, LoginRead, VerifyRead, AdminRead, AdminRevokeAll, tables, history, vars
<1>6. CASE \E r \in LoginRequests : LoginStep(r)
  BY <1>4, <1>6, LoginCounts DEF LoginStep
<1>. QED  BY <1>2, <1>3, <1>5, <1>6 DEF Next

\* No account has wrong passwords to account for at first.
LEMMA InitCounts == Init => RowsAccount
<1>. SUFFICES ASSUME Init, NEW u \in Users
              PROVE  lockedAt[u] <= MaxClock /\ Accounted(users[u], misses[u], lockedAt[u])
  BY DEF RowsAccount
<1>1. /\ lockedAt[u] = 0 /\ misses[u] = 0
      /\ users[u].failedLoginAttempts = 0 /\ users[u].status # "LOCKED"
  BY DEF Init, Registered, SignedUp
<1>. QED  BY <1>1, AccountConstants DEF Accounted

\* Once LOGIN_MAX_ATTEMPTS wrong passwords have been checked since the count
\* restarted the account is not ACTIVE, for any number of sign-ins,
\* verifications and status changes that overlap: the counter of login errs
\* only on an account that a sign-in or a second verification wrote on a
\* reading the table had moved on from.
THEOREM FailuresCountedHolds == Spec => []FailuresCounted
<1>1. RowsAccount => FailuresCounted
  BY DEF RowsAccount, Accounted, FailuresCounted
<1>. QED  BY InitTypes, NextTypes, InitCounts, NextCounts, <1>1, PTL DEF Spec

\* A sign-in lifts a lock only when the window of the last lock is over,
\* whoever locked the account and whatever overlaps, unless the account was
\* written on an outdated reading, this lifting included.
THEOREM LockWindowHolds == Spec => LockWindowHonoured
<1>1. TypeInv /\ RowsAccount /\ [Next]_vars
      => [\A r \in LoginRequests :
            LoginUnlock(r) => \/ now >= lockedAt[loginReq[r].userId] + LOGIN_LOCKOUT
                              \/ loginReq[r].userId \in raced']_vars
  <2>. SUFFICES ASSUME TypeInv, RowsAccount, NEW r \in LoginRequests, LoginUnlock(r),
                       loginReq[r].userId \notin raced'
                PROVE  now >= lockedAt[loginReq[r].userId] + LOGIN_LOCKOUT
    OBVIOUS
  <2>. DEFINE u == loginReq[r].userId
  <2>1. /\ loginReq[r].row.status = "LOCKED" /\ ~(loginReq[r].row.lockedUntil > now)
        /\ loginReq[r].pc = "read"
    BY DEF LoginUnlock, LockElapsed, LockRunning
  <2>2. ~Outdated(r) /\ Accounted(users[u], misses[u], lockedAt[u])
    BY WrittenAccount
  <2>3. users[u] = loginReq[r].row
    BY <2>1, <2>2 DEF Outdated
  <2>4. users[u].lockedUntil \in Nat /\ lockedAt[u] \in Nat /\ now \in Nat
    BY <2>1 DEF TypeInv, TypeOK, RequestsOK, UserRow
  <2>5. users[u].lockedUntil >= lockedAt[u] + LOGIN_LOCKOUT
    BY <2>1, <2>2, <2>3 DEF Accounted
  <2>6. ~(users[u].lockedUntil > now)
    BY <2>1, <2>3
  <2>. HIDE DEF u
  <2>. QED  BY <2>4, <2>5, <2>6, AccountConstants DEF u
<1>. QED  BY InitTypes, NextTypes, InitCounts, NextCounts, <1>1, PTL DEF Spec, LockWindowHonoured
=============================================================================
