------------------------------- MODULE Admins -------------------------------
(***************************************************************************)
(* Administrators acting on accounts, each other's and their own:          *)
(* authenticate and requireAdmin (the gate of every /admin route), then    *)
(* AdminService.setUserRole or setUserStatus.                              *)
(*                                                                         *)
(* The gate, the check of the target and the write are separate statements *)
(* of one request; what other requests do in between is not looked at      *)
(* again.  The sign-in side is coarse here: a user may get a session, and  *)
(* a sign-in may write the status column, at any time (module Accounts     *)
(* says when).  The gate's two reads are one step (module Sessions splits  *)
(* them).  Audit rows are left out.                                        *)
(***************************************************************************)
EXTENDS Integers, UserTable

CONSTANTS
  RoleRequests,      \* slots for concurrent PATCH /admin/users/:id/role
  StatusRequests     \* slots for concurrent PATCH /admin/users/:id/status

VARIABLES
  users,             \* role and status columns of the users table
  signedIn,          \* signedIn[u]: u has an active session
  roleReq, statusReq \* requests in flight

vars == <<users, signedIn, roleReq, statusReq>>

-----------------------------------------------------------------------------
(* Types *)

UserRow == [role : UserRole, status : AccountStatus]

Person == Users \cup {Nobody}

\* overtaken is history: another request has demoted the actor since he was
\* admitted.
RoleRecord ==
  [pc : {"idle", "admitted", "write"}, actor : Person, target : Person, role : UserRole,
   overtaken : BOOLEAN]

StatusRecord ==
  [pc : {"idle", "admitted", "write", "revokeAll"}, actor : Person,
   target : Person, status : AccountStatus]

IdleRole == [pc |-> "idle", actor |-> Nobody, target |-> Nobody, role |-> "USER",
             overtaken |-> FALSE]

IdleStatus == [pc |-> "idle", actor |-> Nobody, target |-> Nobody, status |-> "ACTIVE"]

-----------------------------------------------------------------------------
\* The seed creates an active administrator; other users register, and are
\* promoted or verified later on.
Init ==
  /\ users \in [Users -> [role : UserRole, status : {"ACTIVE"}]]
  /\ \E u \in Users : users[u].role = "ADMIN"
  /\ signedIn = [u \in Users |-> FALSE]
  /\ roleReq = [r \in RoleRequests |-> IdleRole]
  /\ statusReq = [r \in StatusRequests |-> IdleStatus]

\* issueTokens, for a sign-in that may have read the row long ago.
SignIn(u) ==
  /\ signedIn' = [signedIn EXCEPT ![u] = TRUE]
  /\ UNCHANGED <<users, roleReq, statusReq>>

\* recordFailedLogin, unlock and markEmailVerified write the status by id.
SignInStatusWrite(u, st) ==
  /\ users' = [users EXCEPT ![u].status = st]
  /\ UNCHANGED <<signedIn, roleReq, statusReq>>

\* authenticate: the account is not disabled, and it has an active session.
Authenticated(u) == users[u].status # "DISABLED" /\ signedIn[u]

\* requireAdmin
AdmittedAsAdmin(u) == Authenticated(u) /\ users[u].role = "ADMIN"

-----------------------------------------------------------------------------
(* setUserRole *)

RoleAdmit(r, u, target, role) ==
  /\ roleReq[r].pc = "idle"
  /\ AdmittedAsAdmin(u)
  /\ roleReq' = [roleReq EXCEPT ![r] =
       [pc |-> "admitted", actor |-> u, target |-> target, role |-> role,
        overtaken |-> FALSE]]
  /\ UNCHANGED <<users, signedIn, statusReq>>

\* Mutation: administrators may change their own role.
OwnRoleChangeNever(r) == FALSE

\* 403 "You cannot change your own role."
OwnRoleChange(r) ==
  /\ roleReq[r].target = roleReq[r].actor
  /\ roleReq[r].role # users[roleReq[r].target].role

\* findById and the check of the row it returned.
RoleCheck(r) ==
  /\ roleReq[r].pc = "admitted"
  /\ roleReq' = [roleReq EXCEPT ![r] =
       IF OwnRoleChange(r) THEN IdleRole ELSE [@ EXCEPT !.pc = "write"]]
  /\ UNCHANGED <<users, signedIn, statusReq>>

\* The write of r demotes the actor of q.
Demotes(r, q) == roleReq[q].actor = roleReq[r].target /\ roleReq[r].role # "ADMIN"

RoleWrite(r) ==
  /\ roleReq[r].pc = "write"
  /\ users' = [users EXCEPT ![roleReq[r].target].role = roleReq[r].role]
  /\ roleReq' = [q \in RoleRequests |->
       IF q = r THEN IdleRole
       ELSE [roleReq[q] EXCEPT !.overtaken = @ \/ Demotes(r, q)]]
  /\ UNCHANGED <<signedIn, statusReq>>

-----------------------------------------------------------------------------
(* setUserStatus *)

StatusAdmit(r, u, target, st) ==
  /\ statusReq[r].pc = "idle"
  /\ AdmittedAsAdmin(u)
  /\ statusReq' = [statusReq EXCEPT ![r] =
       [pc |-> "admitted", actor |-> u, target |-> target, status |-> st]]
  /\ UNCHANGED <<users, signedIn, roleReq>>

\* 403 "You cannot disable your own account."
OwnDisabling(r) ==
  statusReq[r].target = statusReq[r].actor /\ statusReq[r].status = "DISABLED"

StatusCheck(r) ==
  /\ statusReq[r].pc = "admitted"
  /\ statusReq' = [statusReq EXCEPT ![r] =
       IF OwnDisabling(r)
          \/ ~AllowedTransition(users[statusReq[r].target].status, statusReq[r].status)
       THEN IdleStatus ELSE [@ EXCEPT !.pc = "write"]]
  /\ UNCHANGED <<users, signedIn, roleReq>>

Deactivates(st) == st \in {"DISABLED", "LOCKED"}

StoreStatus(row, st) == [row EXCEPT !.status = st]

StatusWrite(r) ==
  /\ statusReq[r].pc = "write"
  /\ users' = [users EXCEPT ![statusReq[r].target] = StoreStatus(@, statusReq[r].status)]
  /\ statusReq' = [statusReq EXCEPT ![r] =
       IF Deactivates(@.status) THEN [@ EXCEPT !.pc = "revokeAll"] ELSE IdleStatus]
  /\ UNCHANGED <<signedIn, roleReq>>

StatusRevokeAll(r) ==
  /\ statusReq[r].pc = "revokeAll"
  /\ signedIn' = [signedIn EXCEPT ![statusReq[r].target] = FALSE]
  /\ statusReq' = [statusReq EXCEPT ![r] = IdleStatus]
  /\ UNCHANGED <<users, roleReq>>

-----------------------------------------------------------------------------
Next ==
  \/ \E u \in Users : SignIn(u)
  \/ \E u \in Users, st \in {"ACTIVE", "LOCKED"} : SignInStatusWrite(u, st)
  \/ \E r \in RoleRequests, u, t \in Users, role \in UserRole : RoleAdmit(r, u, t, role)
  \/ \E r \in RoleRequests : RoleCheck(r) \/ RoleWrite(r)
  \/ \E r \in StatusRequests, u, t \in Users, st \in AccountStatus :
       StatusAdmit(r, u, t, st)
  \/ \E r \in StatusRequests : StatusCheck(r) \/ StatusWrite(r) \/ StatusRevokeAll(r)

Spec == Init /\ [][Next]_vars
-----------------------------------------------------------------------------
(* Properties *)

\* Every variable has its type: a role change writes roles only, and a status
\* change statuses only.
TypeOK ==
  /\ users \in [Users -> UserRow]
  /\ signedIn \in [Users -> BOOLEAN]
  /\ roleReq \in [RoleRequests -> RoleRecord]
  /\ statusReq \in [StatusRequests -> StatusRecord]

\* "Prevent an admin from demoting the last admin": there is always an
\* account with the ADMIN role.  It does not hold when two administrators
\* demote each other.
AdminRemains == \E u \in Users : users[u].role = "ADMIN"

\* Only a role change whose administrator was himself demoted since he was
\* admitted can take the ADMIN role from the last who has it, however role
\* and status changes overlap.
LastAdminFallsToTheOvertaken ==
  [][AdminRemains
       => AdminRemains' \/ \E r \in RoleRequests : roleReq[r].overtaken /\ RoleWrite(r)]_vars
=============================================================================
