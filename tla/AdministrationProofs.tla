------------------------ MODULE AdministrationProofs ------------------------
(***************************************************************************)
(* The administration of accounts, on the server (module Admins) and at    *)
(* the dashboard (module AdminPage).                                       *)
(*                                                                         *)
(* The server: for every set of users and every number of concurrent       *)
(* changes the types are kept, and the last ADMIN role falls only to a     *)
(* change whose administrator was demoted since he was admitted.  What the *)
(* proof keeps of every other change is that its actor is still an         *)
(* administrator, and that once checked it either is for somebody else or  *)
(* keeps the role: it leaves its actor in office.                          *)
(*                                                                         *)
(* The dashboard: for every number of users, of versions of their table    *)
(* and of pages, DashboardInv is inductive, and the three properties       *)
(* follow from it.  CacheOK says of answers that are still on their way    *)
(* what OwnChangeShown says of those that have arrived; ActionsOK, that    *)
(* whatever the dialog or the mutation holds was offered by a row, and     *)
(* that the cards have data by then, so that an acknowledgement asks for   *)
(* them anew; PageFits compares the page with the first version of the     *)
(* table, as the page count shown may come from any.                       *)
(***************************************************************************)
EXTENDS Admins, AdminPage, FiniteSetTheorems, TLAPS

-----------------------------------------------------------------------------
(* The server *)

\* Requests under way know who makes them and whom they are about.
PeopleOK ==
  /\ \A r \in RoleRequests :
       roleReq[r].pc # "idle" => roleReq[r].actor \in Users /\ roleReq[r].target \in Users
  /\ \A r \in StatusRequests :
       statusReq[r].pc # "idle" => statusReq[r].target \in Users

\* The actor of a role change that was not overtaken is an administrator.
ActorIsAdmin ==
  \A r \in RoleRequests :
    roleReq[r].pc # "idle" /\ ~roleReq[r].overtaken
      => users[roleReq[r].actor].role = "ADMIN"

\* Once it has passed the check it does not demote its actor.
NotOwnDemotion ==
  \A r \in RoleRequests :
    (/\ roleReq[r].pc = "write" /\ roleReq[r].target = roleReq[r].actor
     /\ ~roleReq[r].overtaken)
      => roleReq[r].role = "ADMIN"

TypeInv == TypeOK /\ PeopleOK

AdminInv == ActorIsAdmin /\ NotOwnDemotion

-----------------------------------------------------------------------------
\* The types hold at first: the requests are idle.
LEMMA InitTypes == Init => TypeInv
  BY DEF Init, TypeInv, TypeOK, PeopleOK, UserRow, RoleRecord, StatusRecord,
         IdleRole, IdleStatus, Person, UserRole, AccountStatus

\* A step of a role change keeps the types.
LEMMA RoleTypes ==
  ASSUME TypeInv, NEW r \in RoleRequests,
         \/ RoleCheck(r) \/ RoleWrite(r)
         \/ \E u, t \in Users, role \in UserRole : RoleAdmit(r, u, t, role)
  PROVE  TypeInv'
<1>1. CASE \E u, t \in Users, role \in UserRole : RoleAdmit(r, u, t, role)
  BY <1>1 DEF RoleAdmit, TypeInv, TypeOK, PeopleOK, RoleRecord, Person
<1>2. CASE RoleCheck(r)
  <2>1. roleReq[r] \in RoleRecord
    BY DEF TypeInv, TypeOK
  <2>2. [roleReq[r] EXCEPT !.pc = "write"] \in RoleRecord
    BY <2>1 DEF RoleRecord
  <2>3. IdleRole \in RoleRecord
    BY DEF IdleRole, RoleRecord, Person, UserRole
  <2>4. roleReq' \in [RoleRequests -> RoleRecord]
    BY <1>2, <2>2, <2>3 DEF RoleCheck, TypeInv, TypeOK
  <2>5. TypeOK'
    BY <1>2, <2>4 DEF RoleCheck, TypeInv, TypeOK
  <2>6. PeopleOK'
    BY <1>2, <2>1 DEF RoleCheck, TypeInv, TypeOK, PeopleOK, IdleRole, RoleRecord
  <2>. QED  BY <2>5, <2>6 DEF TypeInv
<1>3. CASE RoleWrite(r)
  <2>1. roleReq[r] \in RoleRecord
    BY DEF TypeInv, TypeOK
  <2>2. IdleRole \in RoleRecord
    BY DEF IdleRole, RoleRecord, Person, UserRole
  <2>a. /\ users \in [Users -> UserRow]
        /\ roleReq[r].role \in UserRole
    BY <2>1 DEF TypeInv, TypeOK, RoleRecord
  <2>b. \A t \in Users : [users[t] EXCEPT !.role = roleReq[r].role] \in UserRow
    BY <2>a DEF UserRow
  <2>3. users' \in [Users -> UserRow]
    BY <1>3, <2>a, <2>b DEF RoleWrite
  <2>c. ASSUME NEW q \in RoleRequests
        PROVE  /\ roleReq'[q] \in RoleRecord
               /\ roleReq'[q].pc # "idle" =>
                    /\ roleReq[q].pc # "idle" /\ roleReq'[q].actor = roleReq[q].actor
                    /\ roleReq'[q].target = roleReq[q].target
    <3>. DEFINE was == roleReq[q].overtaken \/ Demotes(r, q)
    <3>1. roleReq[q] \in RoleRecord /\ was \in BOOLEAN
      BY DEF TypeInv, TypeOK, RoleRecord, Demotes
    <3>2. roleReq'[q] = IF q = r THEN IdleRole ELSE [roleReq[q] EXCEPT !.overtaken = was]
      BY <1>3 DEF RoleWrite
    <3>. HIDE DEF was
    <3>. QED  BY <2>2, <3>1, <3>2 DEF RoleRecord, IdleRole
  <2>d. roleReq' = [q \in RoleRequests |-> roleReq'[q]]
    BY <1>3 DEF RoleWrite
  <2>4. TypeOK'
    BY <1>3, <2>3, <2>c, <2>d DEF RoleWrite, TypeInv, TypeOK
  <2>5. PeopleOK'
    BY <1>3, <2>c DEF RoleWrite, TypeInv, PeopleOK
  <2>. QED  BY <2>4, <2>5 DEF TypeInv
<1>. QED  BY <1>1, <1>2, <1>3

\* A step of a status change keeps the types.
LEMMA StatusTypes ==
  ASSUME TypeInv, NEW r \in StatusRequests,
         \/ StatusCheck(r) \/ StatusWrite(r) \/ StatusRevokeAll(r)
         \/ \E u, t \in Users, st \in AccountStatus : StatusAdmit(r, u, t, st)
  PROVE  TypeInv'
<1>0. statusReq[r] \in StatusRecord
  BY DEF TypeInv, TypeOK
<1>a. IdleStatus \in StatusRecord
  BY DEF IdleStatus, StatusRecord, Person, AccountStatus
<1>b. /\ [statusReq[r] EXCEPT !.pc = "write"] \in StatusRecord
      /\ [statusReq[r] EXCEPT !.pc = "revokeAll"] \in StatusRecord
  BY <1>0 DEF StatusRecord
<1>1. CASE \E u, t \in Users, st \in AccountStatus : StatusAdmit(r, u, t, st)
  BY <1>1 DEF StatusAdmit, TypeInv, TypeOK, PeopleOK, StatusRecord, Person
<1>2. CASE StatusCheck(r)
  <2>1. statusReq' \in [StatusRequests -> StatusRecord]
    BY <1>2, <1>a, <1>b DEF StatusCheck, TypeInv, TypeOK
  <2>2. TypeOK'
    BY <1>2, <2>1 DEF StatusCheck, TypeInv, TypeOK
  <2>3. PeopleOK'
    BY <1>2, <1>0 DEF StatusCheck, TypeInv, TypeOK, PeopleOK, IdleStatus, StatusRecord
  <2>. QED  BY <2>2, <2>3 DEF TypeInv
<1>3. CASE StatusWrite(r)
  <2>1. statusReq' \in [StatusRequests -> StatusRecord]
    BY <1>3, <1>a, <1>b DEF StatusWrite, TypeInv, TypeOK
  <2>a. /\ users \in [Users -> UserRow]
        /\ statusReq[r].status \in AccountStatus
    BY <1>0 DEF TypeInv, TypeOK, StatusRecord
  <2>b. \A t \in Users : StoreStatus(users[t], statusReq[r].status) \in UserRow
    BY <2>a DEF StoreStatus, UserRow
  <2>2. users' \in [Users -> UserRow]
    BY <1>3, <2>a, <2>b DEF StatusWrite
  <2>3. TypeOK'
    BY <1>3, <2>1, <2>2 DEF StatusWrite, TypeInv, TypeOK
  <2>4. PeopleOK'
    BY <1>3, <1>0 DEF StatusWrite, TypeInv, TypeOK, PeopleOK, IdleStatus, StatusRecord
  <2>. QED  BY <2>3, <2>4 DEF TypeInv
<1>4. CASE StatusRevokeAll(r)
  BY <1>4, <1>a DEF StatusRevokeAll, TypeInv, TypeOK, PeopleOK, IdleStatus
<1>. QED  BY <1>1, <1>2, <1>3, <1>4

\* Every step keeps the types.
LEMMA NextTypes == TypeInv /\ [Next]_vars => TypeInv'
<1>. SUFFICES ASSUME TypeInv, [Next]_vars  PROVE TypeInv'
  OBVIOUS
<1>1. CASE \E u \in Users : SignIn(u)
  BY <1>1 DEF SignIn, TypeInv, TypeOK, PeopleOK
<1>2. CASE \E u \in Users, st \in {"ACTIVE", "LOCKED"} : SignInStatusWrite(u, st)
  BY <1>2 DEF SignInStatusWrite, TypeInv, TypeOK, PeopleOK, UserRow, AccountStatus
<1>3. CASE UNCHANGED vars
  BY <1>3 DEF vars, TypeInv, TypeOK, PeopleOK
<1>. QED  BY <1>1, <1>2, <1>3, RoleTypes, StatusTypes DEF Next

\* The columns and the requests always have their types (role and status of
\* a user, the fields of a role or status change under way).
THEOREM TypeCorrect == Spec => []TypeOK
<1>1. TypeInv => TypeOK
  BY DEF TypeInv
<1>. QED  BY InitTypes, NextTypes, <1>1, PTL DEF Spec

-----------------------------------------------------------------------------
\* A step that changes no role and no role request changes nothing about who
\* administers (sign-ins, and status changes of any number of administrators).
LEMMA RolesUntouched ==
  ASSUME TypeInv, AdminInv, roleReq' = roleReq,
         \A u \in Users : users'[u].role = users[u].role
  PROVE  /\ AdminInv'
         /\ AdminRemains => AdminRemains'
  BY DEF AdminInv, AdminRemains, ActorIsAdmin, NotOwnDemotion, TypeInv, PeopleOK

\* Writing the status column keeps everybody's role.
LEMMA StatusKeepsRole ==
  ASSUME TypeInv, NEW u \in Users, NEW st,
         users' = [users EXCEPT ![u].status = st]
  PROVE  \A v \in Users : users'[v].role = users[v].role
  BY DEF TypeInv, TypeOK, UserRow

\* What the write of a role change does to roles and to the other requests.
LEMMA RoleWritten ==
  ASSUME TypeInv, NEW r \in RoleRequests, RoleWrite(r)
  PROVE  /\ roleReq[r].target \in Users /\ roleReq[r].actor \in Users
         /\ \A u \in Users :
              users'[u].role =
                IF u = roleReq[r].target THEN roleReq[r].role ELSE users[u].role
         /\ roleReq'[r].pc = "idle"
         /\ \A q \in RoleRequests \ {r} :
              /\ roleReq'[q].pc = roleReq[q].pc /\ roleReq'[q].role = roleReq[q].role
              /\ roleReq'[q].actor = roleReq[q].actor /\ roleReq'[q].target = roleReq[q].target
              /\ roleReq'[q].overtaken <=> roleReq[q].overtaken \/ Demotes(r, q)
<1>1. /\ roleReq[r].target \in Users /\ roleReq[r].actor \in Users
  BY DEF RoleWrite, TypeInv, PeopleOK
<1>2. users \in [Users -> UserRow] /\ \A q \in RoleRequests : roleReq[q] \in RoleRecord
  BY DEF TypeInv, TypeOK
<1>3. \A u \in Users :
        users'[u].role = IF u = roleReq[r].target THEN roleReq[r].role ELSE users[u].role
  BY <1>1, <1>2 DEF RoleWrite, UserRow
<1>4. roleReq'[r].pc = "idle"
  BY DEF RoleWrite, IdleRole
<1>5. ASSUME NEW q \in RoleRequests \ {r}
      PROVE  /\ roleReq'[q].pc = roleReq[q].pc /\ roleReq'[q].role = roleReq[q].role
             /\ roleReq'[q].actor = roleReq[q].actor /\ roleReq'[q].target = roleReq[q].target
             /\ roleReq'[q].overtaken <=> roleReq[q].overtaken \/ Demotes(r, q)
  <2>1. roleReq'[q] = [roleReq[q] EXCEPT !.overtaken = roleReq[q].overtaken \/ Demotes(r, q)]
    BY DEF RoleWrite
  <2>2. roleReq[q] \in RoleRecord
    BY <1>2
  <2>. QED  BY <2>1, <2>2 DEF RoleRecord
<1>. QED  BY <1>1, <1>3, <1>4, <1>5

\* A step of a role change keeps what is known of the others.
LEMMA RoleStepKeeps ==
  ASSUME TypeInv, AdminInv, NEW r \in RoleRequests,
         \/ RoleCheck(r) \/ RoleWrite(r)
         \/ \E u, t \in Users, role \in UserRole : RoleAdmit(r, u, t, role)
  PROVE  AdminInv'
<1>1. CASE \E u, t \in Users, role \in UserRole : RoleAdmit(r, u, t, role)
  BY <1>1 DEF RoleAdmit, AdmittedAsAdmin, AdminInv, ActorIsAdmin,
              NotOwnDemotion, TypeInv, TypeOK
<1>2. CASE RoleCheck(r)
  <2>0. roleReq[r] \in RoleRecord /\ roleReq[r].actor \in Users
    BY <1>2 DEF RoleCheck, TypeInv, TypeOK, PeopleOK
  <2>1. users' = users
    BY <1>2 DEF RoleCheck
  <2>2. \A p \in RoleRequests :
          roleReq'[p].pc # "idle" =>
            /\ roleReq[p].pc # "idle" /\ roleReq'[p].actor = roleReq[p].actor
            /\ roleReq'[p].overtaken = roleReq[p].overtaken
            /\ p # r => roleReq'[p] = roleReq[p]
    BY <1>2, <2>0 DEF RoleCheck, IdleRole, TypeInv, TypeOK, RoleRecord
  <2>3. ActorIsAdmin'
    BY <2>1, <2>2 DEF AdminInv, ActorIsAdmin
  <2>4. (/\ roleReq'[r].pc = "write" /\ roleReq'[r].target = roleReq'[r].actor
         /\ ~roleReq'[r].overtaken)
          => roleReq'[r].role = "ADMIN"
    BY <1>2, <2>0 DEF RoleCheck, OwnRoleChange, IdleRole, AdminInv, ActorIsAdmin,
                      TypeInv, TypeOK, RoleRecord
  <2>5. NotOwnDemotion'
    BY <2>2, <2>4 DEF AdminInv, NotOwnDemotion
  <2>. QED  BY <2>3, <2>5 DEF AdminInv
<1>3. CASE RoleWrite(r)
  <2>1. ASSUME NEW q \in RoleRequests, roleReq'[q].pc # "idle", ~roleReq'[q].overtaken
        PROVE  users'[roleReq'[q].actor].role = "ADMIN"
    <3>1. q # r /\ roleReq[q].pc # "idle" /\ roleReq'[q].actor = roleReq[q].actor
      BY <1>3, <2>1, RoleWritten
    <3>2. ~roleReq[q].overtaken /\ ~Demotes(r, q)
      BY <1>3, <2>1, <3>1, RoleWritten
    <3>3. users[roleReq[q].actor].role = "ADMIN" /\ roleReq[q].actor \in Users
      BY <3>1, <3>2 DEF AdminInv, ActorIsAdmin, TypeInv, PeopleOK
    <3>. QED  BY <1>3, <3>1, <3>2, <3>3, RoleWritten DEF Demotes
  <2>2. NotOwnDemotion'
    BY <1>3, RoleWritten DEF AdminInv, NotOwnDemotion
  <2>. QED  BY <2>1, <2>2 DEF AdminInv, ActorIsAdmin
<1>. QED  BY <1>1, <1>2, <1>3

\* A change whose actor was not overtaken leaves him an administrator.
LEMMA RoleWriteLeavesActor ==
  ASSUME TypeInv, AdminInv, NEW r \in RoleRequests, RoleWrite(r), ~roleReq[r].overtaken
  PROVE  AdminRemains'
<1>1. users[roleReq[r].actor].role = "ADMIN" /\ roleReq[r].pc = "write"
  BY DEF RoleWrite, AdminInv, ActorIsAdmin
<1>2. roleReq[r].target = roleReq[r].actor => roleReq[r].role = "ADMIN"
  BY <1>1 DEF AdminInv, NotOwnDemotion
<1>3. roleReq[r].actor \in Users /\ users'[roleReq[r].actor].role = "ADMIN"
  BY <1>1, <1>2, RoleWritten
<1>. QED  BY <1>3 DEF AdminRemains

\* Every step keeps the invariant, and takes the last ADMIN role only by the
\* write of a change that was overtaken.
LEMMA NextKeeps ==
  TypeInv /\ AdminInv /\ [Next]_vars =>
    /\ AdminInv'
    /\ \/ AdminRemains => AdminRemains'
       \/ \E r \in RoleRequests : roleReq[r].overtaken /\ RoleWrite(r)
<1>. SUFFICES ASSUME TypeInv, AdminInv, [Next]_vars
              PROVE  /\ AdminInv'
                     /\ \/ AdminRemains => AdminRemains'
                        \/ \E r \in RoleRequests : roleReq[r].overtaken /\ RoleWrite(r)
  OBVIOUS
<1>1. CASE \E u \in Users : SignIn(u)
  BY <1>1, RolesUntouched DEF SignIn
<1>2. CASE \E u \in Users, st \in {"ACTIVE", "LOCKED"} : SignInStatusWrite(u, st)
  BY <1>2, RolesUntouched, StatusKeepsRole DEF SignInStatusWrite
<1>3. ASSUME NEW r \in RoleRequests,
             \/ RoleCheck(r)
             \/ \E u, t \in Users, role \in UserRole : RoleAdmit(r, u, t, role)
      PROVE  AdminInv' /\ (AdminRemains => AdminRemains')
  <2>1. users' = users
    BY <1>3 DEF RoleCheck, RoleAdmit
  <2>. QED  BY <1>3, <2>1, RoleStepKeeps DEF AdminRemains
<1>4. ASSUME NEW r \in StatusRequests, StatusWrite(r)
      PROVE  AdminInv' /\ (AdminRemains => AdminRemains')
  <2>1. statusReq[r].target \in Users
    BY <1>4 DEF StatusWrite, TypeInv, PeopleOK
  <2>2. roleReq' = roleReq
    BY <1>4 DEF StatusWrite
  <2>3. users' = [users EXCEPT ![statusReq[r].target].status = statusReq[r].status]
    BY <1>4, <2>1 DEF StatusWrite, StoreStatus
  <2>. QED  BY <2>1, <2>2, <2>3, RolesUntouched, StatusKeepsRole
<1>5. CASE \E r \in StatusRequests :
             \/ StatusCheck(r) \/ StatusRevokeAll(r)
             \/ \E u, t \in Users, st \in AccountStatus : StatusAdmit(r, u, t, st)
  BY <1>5, RolesUntouched DEF StatusCheck, StatusRevokeAll, StatusAdmit
<1>6. CASE UNCHANGED vars
  BY <1>6, RolesUntouched DEF vars
<1>7. CASE \E r \in RoleRequests : RoleWrite(r)
  BY <1>7, RoleStepKeeps, RoleWriteLeavesActor
<1>. QED  BY <1>1, <1>2, <1>3, <1>4, <1>5, <1>6, <1>7 DEF Next

\* Only a role change whose administrator was demoted since he was admitted
\* can take the ADMIN role from the last who has it, for any number of users
\* and of role and status changes that overlap.
THEOREM LastAdminHolds == Spec => LastAdminFallsToTheOvertaken
<1>1. Init => AdminInv
  BY DEF Init, AdminInv, ActorIsAdmin, NotOwnDemotion, IdleRole
<1>2. TypeInv /\ AdminInv /\ [Next]_vars => AdminInv'
  BY NextKeeps
<1>3. TypeInv /\ AdminInv /\ [Next]_vars =>
        [AdminRemains
          => AdminRemains' \/ \E r \in RoleRequests : roleReq[r].overtaken /\ RoleWrite(r)]_vars
  BY NextKeeps
<1>. QED  BY InitTypes, NextTypes, <1>1, <1>2, <1>3, PTL DEF Spec, LastAdminFallsToTheOvertaken

-----------------------------------------------------------------------------
(* The dashboard *)

\* The table has only been added to: what a version held it still holds.
TableKept ==
  /\ table' \in Seq([Users -> AdminUserRow]) /\ Len(table') \in Nat /\ Len(table') >= Len(table)
  /\ \A v \in 1 .. Len(table) : table'[v] = table[v]

\* The buttons of the row as version a.seen of t has it offer the action.
OfferedIn(t, a) ==
  /\ a.user \in Users /\ a.seen \in 1 .. Len(t)
  /\ \/ a.kind = "role" /\ a.value \in OfferedRoles(a.user, t[a.seen][a.user])
     \/ a.kind = "status" /\ a.value \in OfferedStatuses(a.user, t[a.seen][a.user])

\* What is known of a cached query while the table has n versions and the
\* last acknowledged change is of version b: its answers come from versions
\* there have been; one on its way is as new as b, or marked as kept; one that
\* is there is marked invalid, was kept, or is as new as b.
QueryOK(q, key, n, b) ==
  /\ \A d \in q.data : d.at \in 1 .. n
  /\ \A d \in q.data : (q.invalid \/ (d.kept /\ key # Overview)) \/ d.at >= b
  /\ \A f \in q.fetch : f.at \in 0 .. n
  /\ \A f \in q.fetch :
       IF f.at = 0 THEN ~f.kept ELSE f.at >= b \/ (f.kept /\ key # Overview)

CacheOK == \A key \in Keys : QueryOK(cache[key], key, Now, shownBy)

\* The list that stands in has data.
LastOK == last # NoKey => cache[last].data # {}

\* Only what was offered is asked for or under way, and the cards are there.
ActionsOK ==
  /\ confirm # NoAction => OfferedIn(table, confirm) /\ cache[Overview].data # {}
  /\ change.pc # "idle" => OfferedIn(table, change.action) /\ cache[Overview].data # {}
  /\ change.pc \in {"written", "refused"} => change.at \in 1 .. Now
  /\ shownBy \in 0 .. Now

\* A refused action was stale: RefusalMeansStale, of any table and change.
RefusalOK(t, c) ==
  c.pc = "refused" =>
    LET a == c.action
        seen == t[a.seen][a.user]
    IN  \/ ~c.admitted
        \/ seen # t[c.at][a.user]
        \/ a.value = "LOCKED" /\ seen.status = "PENDING_VERIFICATION"

\* Matching and PageCount, of any table.
MatchingIn(t, v, f) == {i \in DOMAIN Order : f = "ALL" \/ t[v][Order[i]].status = f}

Pages(n) == IF n = 0 THEN 1 ELSE (n + PageSize - 1) \div PageSize

\* The page asked for exists, as long as the users of the list stay the same.
FitsIn(t, p, f, s) ==
  \/ s
  \/ \E v \in DOMAIN t : MatchingIn(t, v, f) # MatchingIn(t, 1, f)
  \/ p <= Pages(Cardinality(MatchingIn(t, 1, f)))

PageFits == FitsIn(table, page, filter, strayed)

DashboardInv ==
  /\ DashboardTypeOK /\ Now >= 1
  /\ CacheOK /\ LastOK /\ ActionsOK /\ PageFits /\ RefusalOK(table, change)

-----------------------------------------------------------------------------
\* The order is a list of one user at least.
LEMMA OrderFacts ==
  /\ Order \in Seq(Users) /\ Len(Order) \in Nat \ {0} /\ DOMAIN Order = 1 .. Len(Order)
  /\ PageSize \in Nat \ {0} /\ Me \in Users /\ "ALL" \in Filters
<1>1. Order \in Seq(Users) /\ Me \in Users /\ PageSize \in Nat \ {0} /\ "ALL" \in Filters
  BY PageConstants
<1>2. Len(Order) \in Nat /\ DOMAIN Order = 1 .. Len(Order)
  BY <1>1
<1>3. PICK i \in DOMAIN Order : Order[i] = Me
  BY PageConstants
<1>4. Len(Order) # 0
  BY <1>2, <1>3
<1>. QED  BY <1>1, <1>2, <1>4

\* A filter lets no more users through than there are.
LEMMA MatchingBound ==
  ASSUME NEW t, NEW v, NEW f
  PROVE  Cardinality(MatchingIn(t, v, f)) \in 0 .. Len(Order)
<1>1. /\ 1 \in Int /\ Len(Order) \in Int
      /\ IsFiniteSet(1 .. Len(Order))
      /\ Cardinality(1 .. Len(Order)) = Len(Order)
  <2>1. 1 \in Int /\ Len(Order) \in Int /\ ~(1 > Len(Order))
    BY OrderFacts
  <2>2. Cardinality(1 .. Len(Order)) = Len(Order) - 1 + 1
    BY <2>1, FS_Interval, Zenon
  <2>3. IsFiniteSet(1 .. Len(Order))
    BY <2>1, FS_Interval
  <2>. QED  BY <2>1, <2>2, <2>3
<1>2. MatchingIn(t, v, f) \subseteq 1 .. Len(Order)
  BY OrderFacts DEF MatchingIn
<1>3. /\ IsFiniteSet(MatchingIn(t, v, f))
      /\ Cardinality(MatchingIn(t, v, f)) <= Cardinality(1 .. Len(Order))
  BY <1>1, <1>2, FS_Subset
<1>4. Cardinality(MatchingIn(t, v, f)) \in Nat
  BY <1>3, FS_CardinalityType
<1>. QED  BY <1>1, <1>3, <1>4

\* A list has a page at least, and no more pages than there are users.
LEMMA PagesBound ==
  ASSUME NEW t, NEW v, NEW f
  PROVE  Pages(Cardinality(MatchingIn(t, v, f))) \in 1 .. Len(Order)
<1> DEFINE n == Cardinality(MatchingIn(t, v, f))
           q == (n + PageSize - 1) \div PageSize
<1>1. n \in 0 .. Len(Order) /\ Len(Order) \in Nat \ {0} /\ PageSize \in Nat \ {0}
  BY MatchingBound, OrderFacts
<1>2. Pages(Cardinality(MatchingIn(t, v, f))) = IF n = 0 THEN 1 ELSE q
  BY DEF Pages
<1> HIDE DEF n
<1>3. ASSUME n # 0  PROVE q \in 1 .. n
  BY <1>1, <1>3, Z3
<1> HIDE DEF q
<1>. QED  BY <1>1, <1>2, <1>3

\* The page's own operators are those of its table.
LEMMA PageCountIs ==
  ASSUME NEW v, NEW f
  PROVE  /\ Matching(v, f) = MatchingIn(table, v, f)
         /\ PageCount(v, f) = Pages(Cardinality(MatchingIn(table, v, f)))
  BY DEF Matching, MatchingIn, PageCount, Pages

-----------------------------------------------------------------------------
(* The query cache *)

\* A record with the fields of a query is one.
LEMMA QueryRecord ==
  ASSUME NEW D \in SUBSET Answer, NEW i \in BOOLEAN, NEW x \in BOOLEAN, NEW F \in SUBSET Answer
  PROVE  [data |-> D, invalid |-> i, failed |-> x, fetch |-> F] \in Query
  BY Zenon DEF Query

\* The fields of a query have their types.
LEMMA QueryFields ==
  ASSUME NEW q \in Query
  PROVE  /\ q.data \in SUBSET Answer /\ q.fetch \in SUBSET Answer
         /\ q.invalid \in BOOLEAN /\ q.failed \in BOOLEAN
         /\ q = [data |-> q.data, invalid |-> q.invalid, failed |-> q.failed, fetch |-> q.fetch]
  BY Zenon DEF Query

\* A request that has not been read yet carries no version and no mark.
LEMMA UnreadFacts == Unread \in Answer /\ Unread.at = 0 /\ Unread.kept = FALSE
  BY DEF Unread, Answer

\* Asking for a query again keeps its data.
LEMMA FetchedFacts ==
  ASSUME NEW q \in Query
  PROVE  /\ Fetched(q) \in Query
         /\ Fetched(q).data = q.data /\ Fetched(q).invalid = q.invalid
         /\ Fetched(q).fetch = IF q.fetch # {} THEN q.fetch ELSE {Unread}
<1>1. {Unread} \in SUBSET Answer
  BY UnreadFacts
<1>2. CASE q.fetch # {}
  BY <1>2 DEF Fetched
<1>3. CASE q.fetch = {}
  <2> DEFINE asked == [q EXCEPT !.fetch = {Unread}, !.failed = FALSE]
  <2>1. Fetched(q) = asked
    BY <1>3 DEF Fetched
  <2>2. asked \in Query
    BY <1>1 DEF Query
  <2>3. asked.data = q.data
    BY DEF Query
  <2>4. asked.invalid = q.invalid
    BY DEF Query
  <2>5. asked.fetch = {Unread}
    BY DEF Query
  <2> HIDE DEF asked
  <2>. QED  BY <1>3, <2>1, <2>2, <2>3, <2>4, <2>5
<1>. QED  BY <1>2, <1>3

\* An answer on its way is marked as kept once it has been read.
LEMMA MarkedFacts ==
  ASSUME NEW f \in Answer
  PROVE  LET g == [f EXCEPT !.kept = (f.at # 0)]
         IN  g \in Answer /\ g.at = f.at /\ (f.at = 0 => ~g.kept) /\ (f.at # 0 => g.kept)
<1>1. CASE f.at = 0
  <2>1. (f.at # 0) = FALSE
    BY <1>1
  <2>2. [f EXCEPT !.kept = FALSE] \in Answer /\ [f EXCEPT !.kept = FALSE].at = f.at
         /\ ~[f EXCEPT !.kept = FALSE].kept
    BY DEF Answer
  <2>. QED  BY <1>1, <2>1, <2>2
<1>2. CASE f.at # 0
  <2>1. (f.at # 0) = TRUE
    BY <1>2
  <2>2. [f EXCEPT !.kept = TRUE] \in Answer /\ [f EXCEPT !.kept = TRUE].at = f.at
         /\ [f EXCEPT !.kept = TRUE].kept
    BY DEF Answer
  <2>. QED  BY <1>2, <2>1, <2>2
<1>. QED  BY <1>1, <1>2

\* What an acknowledged change makes of a query: its data stays and is marked
\* invalid; what is on its way is asked for anew, or marked as kept.
LEMMA InvalidatedFacts ==
  ASSUME NEW q \in Query, NEW active \in BOOLEAN
  PROVE  /\ Invalidated(q, active) \in Query
         /\ Invalidated(q, active).data = q.data
         /\ q.data # {} => Invalidated(q, active).invalid
         /\ \A f \in Invalidated(q, active).fetch :
              \/ f = Unread
              \/ \E g \in q.fetch : /\ f.at = g.at
                                    /\ (g.at = 0 => ~f.kept) /\ (g.at # 0 => f.kept)
         /\ active /\ q.data # {} => Invalidated(q, active).fetch = {Unread}
<1> DEFINE Marked == {[f EXCEPT !.kept = (f.at # 0)] : f \in q.fetch}
           kept == [q EXCEPT !.invalid = (q.data # {}), !.fetch = Marked]
<1>1. Marked \in SUBSET Answer
  <2>1. ASSUME NEW f \in q.fetch  PROVE [f EXCEPT !.kept = (f.at # 0)] \in Answer
    <3>1. f \in Answer
      BY QueryFields
    <3>. QED  BY <3>1, MarkedFacts
  <2>. QED  BY <2>1
<1>2. ASSUME NEW f \in Marked
      PROVE  \E g \in q.fetch : f.at = g.at /\ (g.at = 0 => ~f.kept) /\ (g.at # 0 => f.kept)
  <2>1. PICK g \in q.fetch : f = [g EXCEPT !.kept = (g.at # 0)]
    OBVIOUS
  <2>2. g \in Answer
    BY QueryFields
  <2>. QED  BY <2>1, <2>2, MarkedFacts
<1>3. kept \in Query /\ kept.data = q.data /\ (q.data # {} => kept.invalid) /\ kept.fetch = Marked
  <2> HIDE DEF Marked
  <2>1. kept \in Query
    BY <1>1 DEF Query
  <2>2. kept.data = q.data
    BY DEF Query
  <2>3. kept.fetch = Marked
    BY DEF Query
  <2>4. kept.invalid = (q.data # {})
    BY Zenon DEF Query
  <2> HIDE DEF kept
  <2>. QED  BY <2>1, <2>2, <2>3, <2>4
<1>4. CASE q = NoQuery
  <2>1. Invalidated(q, active) = q /\ q.data = {} /\ q.fetch = {}
    BY <1>4 DEF Invalidated, NoQuery
  <2>. QED  BY <2>1
<1>5. CASE q # NoQuery /\ ~active
  <2>1. Invalidated(q, active) = kept
    BY <1>5 DEF Invalidated
  <2> HIDE DEF kept, Marked
  <2>. QED  BY <1>2, <1>3, <1>5, <2>1
<1>6. CASE q # NoQuery /\ active /\ q.data # {}
  <2> DEFINE anew == [q EXCEPT !.invalid = TRUE, !.fetch = {Unread}]
  <2>1. Invalidated(q, active) = anew
    BY <1>6 DEF Invalidated
  <2>2. {Unread} \in SUBSET Answer
    BY UnreadFacts
  <2>3. anew \in Query
    BY <2>2 DEF Query
  <2>4. anew.data = q.data
    BY DEF Query
  <2>5. anew.invalid = TRUE
    BY DEF Query
  <2>6. anew.fetch = {Unread}
    BY DEF Query
  <2> HIDE DEF anew
  <2>. QED  BY <1>6, <2>1, <2>3, <2>4, <2>5, <2>6
<1>7. CASE q # NoQuery /\ active /\ q.data = {}
  <2>1. Invalidated(q, active) = Fetched(kept)
    BY <1>7 DEF Invalidated
  <2>2. /\ Fetched(kept) \in Query /\ Fetched(kept).data = kept.data
        /\ Fetched(kept).fetch = IF kept.fetch # {} THEN kept.fetch ELSE {Unread}
    <3> HIDE DEF kept
    <3>. QED  BY <1>3, FetchedFacts
  <2> HIDE DEF kept, Marked
  <2>3. /\ Invalidated(q, active) \in Query /\ Invalidated(q, active).data = q.data
        /\ Invalidated(q, active).fetch = IF Marked # {} THEN Marked ELSE {Unread}
    BY <1>3, <2>1, <2>2
  <2>4. ASSUME NEW f \in Invalidated(q, active).fetch  PROVE f = Unread \/ f \in Marked
    BY <2>3
  <2>5. \A f \in Invalidated(q, active).fetch :
          \/ f = Unread
          \/ \E g \in q.fetch : /\ f.at = g.at
                                /\ (g.at = 0 => ~f.kept) /\ (g.at # 0 => f.kept)
    BY <1>2, <2>4
  <2>. QED  BY <1>7, <2>3, <2>5
<1>. QED  BY <1>4, <1>5, <1>6, <1>7

\* The types of the variables, one by one.
LEMMA DashboardTypeFacts ==
  ASSUME DashboardInv
  PROVE  /\ table \in Seq([Users -> AdminUserRow]) /\ Now \in Nat \ {0}
         /\ DOMAIN table = 1 .. Now
         /\ cache \in [Keys -> Query] /\ Overview \in Keys /\ Current \in Lists
         /\ Lists \subseteq Keys /\ NoKey \notin Keys /\ Overview \notin Lists
         /\ shownBy \in 0 .. Now
<1>1. table \in Seq([Users -> AdminUserRow]) /\ Now >= 1 /\ shownBy \in 0 .. Now
  BY DEF DashboardInv, DashboardTypeOK, ActionsOK
<1>2. Now \in Nat \ {0} /\ DOMAIN table = 1 .. Now
  BY <1>1 DEF Now
<1>3. cache \in [Keys -> Query] /\ Overview \in Keys /\ Current \in Lists
  BY DEF DashboardInv, DashboardTypeOK, Keys, Current, QueryKey, Lists
<1>4. Lists \subseteq Keys
  BY DEF Keys
<1>5. NoKey \notin Keys /\ Overview \notin Lists
  BY OrderFacts DEF Keys, Lists, NoKey, Overview
<1>. QED  BY <1>1, <1>2, <1>3, <1>4, <1>5

\* What the page shows is a list with data, from a version there has been.
LEMMA ShownFacts ==
  ASSUME DashboardInv, Shown # NoKey
  PROVE  /\ Shown \in Lists /\ Data(Shown) \in cache[Shown].data
         /\ Data(Shown).at \in 1 .. Now
<1>1. Shown \in Lists /\ cache[Shown].data # {}
  <2>1. CASE cache[Current].data # {}
    BY <2>1, DashboardTypeFacts DEF Shown
  <2>2. CASE cache[Current].data = {}
    <3>1. Shown = last
      BY <2>2 DEF Shown
    <3>. QED  BY <3>1 DEF DashboardInv, DashboardTypeOK, LastOK
  <2>. QED  BY <2>1, <2>2
<1>2. Data(Shown) \in cache[Shown].data
  BY <1>1 DEF Data
<1>3. QueryOK(cache[Shown], Shown, Now, shownBy)
  BY <1>1, DashboardTypeFacts DEF DashboardInv, CacheOK
<1>. QED  BY <1>1, <1>2, <1>3 DEF QueryOK

\* A table that has only been added to lets the same users through as before.
LEMMA MatchingKept ==
  ASSUME DashboardInv, TableKept, NEW v \in 1 .. Now, NEW f
  PROVE  MatchingIn(table', v, f) = MatchingIn(table, v, f)
  BY DEF MatchingIn, TableKept, Now

\* The table as it is has been kept.
LEMMA SameTable ==
  ASSUME DashboardInv, table' = table
  PROVE  TableKept
  BY DashboardTypeFacts DEF TableKept, Now

\* A page that fits goes on to fit while the table is added to.
LEMMA PageStillFits ==
  ASSUME DashboardInv, TableKept, page' = page, filter' = filter, strayed' = strayed
  PROVE  PageFits'
<1>1. FitsIn(table, page, filter, strayed)
  BY DEF DashboardInv, PageFits
<1>2. 1 \in 1 .. Now /\ DOMAIN table = 1 .. Now
  BY DashboardTypeFacts
<1>3. DOMAIN table' = 1 .. Len(table') /\ 1 .. Now \subseteq 1 .. Len(table')
  BY DashboardTypeFacts DEF TableKept, Now
<1>4. \A v \in 1 .. Now : MatchingIn(table', v, filter) = MatchingIn(table, v, filter)
  BY MatchingKept
<1>5. FitsIn(table', page, filter, strayed)
  BY <1>1, <1>2, <1>3, <1>4 DEF FitsIn
<1>. QED  BY <1>5 DEF PageFits

\* An action that was offered stays so while the table is added to.
LEMMA OfferedStays ==
  ASSUME DashboardInv, TableKept, NEW a, OfferedIn(table, a)
  PROVE  OfferedIn(table', a)
<1>1. a.seen \in 1 .. Len(table) /\ a.seen \in 1 .. Len(table') /\ table'[a.seen] = table[a.seen]
  BY DashboardTypeFacts DEF TableKept, OfferedIn, Now
<1>. QED  BY <1>1 DEF OfferedIn
-----------------------------------------------------------------------------
(* The steps of the dashboard *)

\* What is known of a query stays known while the table is added to.
LEMMA QueryStays ==
  ASSUME NEW q, NEW key, NEW n \in Nat, NEW m \in Nat, n <= m, NEW b, QueryOK(q, key, n, b)
  PROVE  QueryOK(q, key, m, b)
  BY DEF QueryOK

\* Asking anew keeps what is known of a query.
LEMMA FetchedOK ==
  ASSUME NEW q \in Query, NEW key, NEW n \in Nat, NEW b, QueryOK(q, key, n, b)
  PROVE  QueryOK(Fetched(q), key, n, b)
<1>1. \A f \in Fetched(q).fetch : f \in q.fetch \/ f = Unread
  BY FetchedFacts
<1>2. Fetched(q).data = q.data /\ Fetched(q).invalid = q.invalid
  BY FetchedFacts
<1>. QED  BY <1>1, <1>2, UnreadFacts DEF QueryOK

\* A step that works on one query of the cache, and may turn the page.
LEMMA CacheStep ==
  ASSUME DashboardInv,
         NEW key \in Keys, NEW q \in Query, QueryOK(q, key, Now, shownBy),
         cache[key].data # {} => q.data # {},
         cache' = [cache EXCEPT ![key] = q],
         last' = last \/ (last' = key /\ key \in Lists /\ q.data # {}),
         page' \in 1 .. Len(Order), filter' \in Filters, strayed' \in BOOLEAN,
         turns' \in 0 .. MaxTurns, PageFits',
         UNCHANGED <<table, mySession, confirm, change, shownBy>>
  PROVE  DashboardInv'
<1>1. cache \in [Keys -> Query] /\ cache' \in [Keys -> Query]
  BY DashboardTypeFacts
<1>2. \A k \in Keys : cache'[k] = IF k = key THEN q ELSE cache[k]
  BY <1>1
<1>3. \A k \in Keys : cache[k].data # {} => cache'[k].data # {}
  BY <1>2
<1>4. DashboardTypeOK'
  BY <1>1 DEF DashboardInv, DashboardTypeOK
<1>5. CacheOK'
  BY <1>2 DEF DashboardInv, CacheOK, Now
<1>6. LastOK'
  <2>1. ASSUME last' # NoKey  PROVE cache'[last'].data # {}
    <3>1. CASE last' = last
      <4>1. last \in Keys /\ cache[last].data # {}
        BY <2>1, <3>1, DashboardTypeFacts DEF DashboardInv, LastOK, DashboardTypeOK
      <4>. QED  BY <1>3, <3>1, <4>1
    <3>2. CASE last' = key /\ q.data # {}
      BY <1>2, <3>2
    <3>. QED  BY <3>1, <3>2
  <2>. QED  BY <2>1 DEF LastOK
<1>7. ActionsOK'
  <2>1. cache[Overview].data # {} => cache'[Overview].data # {}
    BY <1>3, DashboardTypeFacts
  <2>. QED  BY <2>1 DEF DashboardInv, ActionsOK, Now, OfferedIn
<1>8. RefusalOK(table, change)' /\ (Now >= 1)'
  BY DEF DashboardInv, RefusalOK, Now
<1>. QED  BY <1>4, <1>5, <1>6, <1>7, <1>8 DEF DashboardInv

\* A step that works on the dialog and the mutation.
LEMMA DialogStep ==
  ASSUME DashboardInv,
         confirm' \in PendingAction, change' \in Mutation,
         ActionsOK', RefusalOK(table, change)',
         UNCHANGED <<table, mySession, page, filter, cache, last, shownBy, strayed, turns>>
  PROVE  DashboardInv'
<1>1. DashboardTypeOK' /\ (Now >= 1)'
  BY DEF DashboardInv, DashboardTypeOK, Now
<1>2. CacheOK' /\ LastOK'
  BY DEF DashboardInv, CacheOK, LastOK, Now
<1>3. PageFits'
  BY SameTable, PageStillFits
<1>. QED  BY <1>1, <1>2, <1>3 DEF DashboardInv

\* A step that adds a version to the table, for a change that is under way or
\* for others.
LEMMA TableStep ==
  ASSUME DashboardInv, TableKept, mySession' \in BOOLEAN,
         \/ change' = change
         \/ /\ change' \in Mutation /\ change'.pc = "written" /\ change.pc # "idle"
            /\ change'.action = change.action /\ change'.at \in 1 .. Len(table'),
         UNCHANGED <<page, filter, cache, last, confirm, shownBy, strayed, turns>>
  PROVE  DashboardInv'
<1>1. Now \in Nat /\ Len(table') \in Nat /\ Now <= Len(table') /\ 1 <= Len(table')
  BY DashboardTypeFacts DEF TableKept, Now
<1>2. DashboardTypeOK' /\ (Now >= 1)'
  BY <1>1 DEF DashboardInv, DashboardTypeOK, TableKept, Now
<1>3. CacheOK'
  <2>1. \A key \in Keys : QueryOK(cache[key], key, Now, shownBy)
    BY DEF DashboardInv, CacheOK
  <2>2. \A key \in Keys : QueryOK(cache[key], key, Len(table'), shownBy)
    BY <1>1, <2>1, QueryStays
  <2>. QED  BY <2>2 DEF CacheOK, Now
<1>4. LastOK'
  BY DEF DashboardInv, LastOK
<1>5. PageFits'
  BY PageStillFits
<1>6. ActionsOK'
  <2>1. confirm' # NoAction => OfferedIn(table', confirm') /\ cache'[Overview].data # {}
    BY OfferedStays DEF DashboardInv, ActionsOK
  <2>2. change'.pc # "idle" =>
          change.pc # "idle" /\ change'.action = change.action
    OBVIOUS
  <2>3. change'.pc # "idle" => OfferedIn(table', change'.action) /\ cache'[Overview].data # {}
    BY <2>2, OfferedStays DEF DashboardInv, ActionsOK
  <2>4. change'.pc \in {"written", "refused"} => change'.at \in 1 .. Len(table')
    BY <1>1 DEF DashboardInv, ActionsOK
  <2>5. shownBy' \in 0 .. Len(table')
    BY <1>1, DashboardTypeFacts
  <2>. QED  BY <2>1, <2>3, <2>4, <2>5 DEF ActionsOK, OfferedIn, Now
<1>7. RefusalOK(table, change)'
  <2>1. ASSUME change'.pc = "refused"  PROVE RefusalOK(table', change')
    <3>1. change' = change
      BY <2>1
    <3>2. change.action.seen \in 1 .. Len(table) /\ change.at \in 1 .. Len(table)
      BY <2>1, <3>1 DEF DashboardInv, ActionsOK, OfferedIn, Now
    <3>3. table'[change.action.seen] = table[change.action.seen]
          /\ table'[change.at] = table[change.at]
      BY <3>2 DEF TableKept
    <3>. QED  BY <3>1, <3>3 DEF DashboardInv, RefusalOK
  <2>. QED  BY <2>1 DEF RefusalOK
<1>. QED  BY <1>2, <1>3, <1>4, <1>5, <1>6, <1>7 DEF DashboardInv
\* The page fits after a step that leaves table, page and filter alone.
LEMMA PageKept ==
  ASSUME DashboardInv, UNCHANGED <<table, page, filter, strayed>>
  PROVE  /\ page' \in 1 .. Len(Order) /\ filter' \in Filters /\ strayed' \in BOOLEAN
         /\ PageFits'
<1>1. PageFits'
  BY SameTable, PageStillFits
<1>. QED  BY <1>1 DEF DashboardInv, DashboardTypeOK

\* The server reads what a query asks for.
LEMMA ReadStep ==
  ASSUME DashboardInv, NEW key \in Keys, Read(key)
  PROVE  DashboardInv'
<1>1. PICK f \in cache[key].fetch :
        /\ f.at = 0
        /\ cache' = [cache EXCEPT ![key].fetch = {[f EXCEPT !.at = Now]}]
  BY DEF Read
<1> DEFINE g == [f EXCEPT !.at = Now]
           q == [cache[key] EXCEPT !.fetch = {g}]
<1>2. UNCHANGED <<table, mySession, page, filter, last, confirm, change, shownBy, strayed, turns>>
  BY DEF Read
<1>3. cache[key] \in Query /\ Now \in Nat \ {0} /\ shownBy \in 0 .. Now
  BY DashboardTypeFacts
<1>4. f \in Answer
  BY <1>1, <1>3, QueryFields
<1>5. g \in Answer /\ g.at = Now
  BY <1>3, <1>4 DEF Answer
<1>6. cache' = [cache EXCEPT ![key] = q]
  BY <1>1
<1> HIDE DEF g
<1>7. q \in Query
  BY <1>3, <1>5 DEF Query
<1>8. q.data = cache[key].data
  BY <1>3 DEF Query
<1>9. q.invalid = cache[key].invalid
  BY <1>3 DEF Query
<1>10. q.fetch = {g}
  BY <1>3 DEF Query
<1>11. QueryOK(cache[key], key, Now, shownBy)
  BY DEF DashboardInv, CacheOK
<1> HIDE DEF q
<1>12. QueryOK(q, key, Now, shownBy)
  BY <1>3, <1>5, <1>8, <1>9, <1>10, <1>11 DEF QueryOK
<1>13. turns' \in 0 .. MaxTurns
  BY <1>2 DEF DashboardInv, DashboardTypeOK
<1>. QED  BY <1>2, <1>6, <1>7, <1>8, <1>12, <1>13, PageKept, CacheStep

\* An answer arrives.
LEMMA FetchArrivesStep ==
  ASSUME DashboardInv, NEW key \in Keys, FetchArrives(key)
  PROVE  DashboardInv'
<1>1. PICK f \in cache[key].fetch :
        /\ f.at # 0
        /\ cache' = [cache EXCEPT ![key] =
             [data |-> {f}, invalid |-> FALSE, failed |-> FALSE, fetch |-> {}]]
  BY DEF FetchArrives
<1> DEFINE q == [data |-> {f}, invalid |-> FALSE, failed |-> FALSE, fetch |-> {}]
<1>2. /\ last' = IF key = Current THEN key ELSE last
      /\ UNCHANGED <<table, mySession, page, filter, confirm, change, shownBy, strayed, turns>>
  BY DEF FetchArrives
<1>3. cache[key] \in Query /\ Now \in Nat \ {0} /\ shownBy \in 0 .. Now /\ Current \in Lists
  BY DashboardTypeFacts
<1>4. f \in Answer
  BY <1>1, <1>3, QueryFields
<1>5. q \in Query
  BY <1>4, QueryRecord
<1>6. q.data = {f} /\ q.invalid = FALSE /\ q.fetch = {}
  OBVIOUS
<1>7. cache' = [cache EXCEPT ![key] = q]
  BY <1>1
<1>8. QueryOK(cache[key], key, Now, shownBy)
  BY DEF DashboardInv, CacheOK
<1> HIDE DEF q
<1>9. QueryOK(q, key, Now, shownBy)
  <2>1. f.at \in 1 .. Now
    BY <1>1, <1>3, <1>8 DEF QueryOK
  <2>2. f.at >= shownBy \/ (f.kept /\ key # Overview)
    BY <1>1, <1>8 DEF QueryOK
  <2>. QED  BY <1>6, <2>1, <2>2 DEF QueryOK
<1>10. last' = last \/ (last' = key /\ key \in Lists /\ q.data # {})
  BY <1>2, <1>3, <1>6
<1>11. turns' \in 0 .. MaxTurns
  BY <1>2 DEF DashboardInv, DashboardTypeOK
<1>. QED  BY <1>2, <1>5, <1>6, <1>7, <1>9, <1>10, <1>11, PageKept, CacheStep

\* A request fails.
LEMMA FetchFailsStep ==
  ASSUME DashboardInv, NEW key \in Keys, FetchFails(key)
  PROVE  DashboardInv'
<1> DEFINE q == [cache[key] EXCEPT !.fetch = {}, !.invalid = (cache[key].data # {}),
                                   !.failed = (cache[key].data = {})]
<1>1. /\ cache' = [cache EXCEPT ![key] = q]
      /\ UNCHANGED <<table, mySession, page, filter, last, confirm, change, shownBy, strayed,
                     turns>>
  BY DashboardTypeFacts DEF FetchFails
<1>2. cache[key] \in Query /\ QueryOK(cache[key], key, Now, shownBy)
  BY DashboardTypeFacts DEF DashboardInv, CacheOK
<1>3. q \in Query
  BY <1>2 DEF Query
<1>4. q.data = cache[key].data
  BY <1>2 DEF Query
<1>5. q.fetch = {}
  BY <1>2 DEF Query
<1>6. q.invalid = (cache[key].data # {})
  BY <1>2, Zenon DEF Query
<1> HIDE DEF q
<1>7. QueryOK(q, key, Now, shownBy)
  BY <1>2, <1>4, <1>5, <1>6 DEF QueryOK
<1>8. turns' \in 0 .. MaxTurns
  BY <1>1 DEF DashboardInv, DashboardTypeOK
<1>. QED  BY <1>1, <1>3, <1>4, <1>7, <1>8, PageKept, CacheStep

\* The cards are asked for again.
LEMMA OverviewIntervalStep ==
  ASSUME DashboardInv, OverviewInterval
  PROVE  DashboardInv'
<1> DEFINE q == Fetched(cache[Overview])
<1>1. /\ cache' = [cache EXCEPT ![Overview] = q]
      /\ UNCHANGED <<table, mySession, page, filter, last, confirm, change, shownBy, strayed,
                     turns>>
  BY DEF OverviewInterval
<1>2. /\ Overview \in Keys /\ cache[Overview] \in Query /\ Now \in Nat
      /\ QueryOK(cache[Overview], Overview, Now, shownBy)
  BY DashboardTypeFacts DEF DashboardInv, CacheOK
<1>3. q \in Query /\ q.data = cache[Overview].data /\ QueryOK(q, Overview, Now, shownBy)
  BY <1>2, FetchedFacts, FetchedOK
<1> HIDE DEF q
<1>4. turns' \in 0 .. MaxTurns
  BY <1>1 DEF DashboardInv, DashboardTypeOK
<1>. QED  BY <1>1, <1>2, <1>3, <1>4, PageKept, CacheStep

\* Another page or filter is shown: one that exists.
LEMMA ShowStep ==
  ASSUME DashboardInv, NEW p \in 1 .. Len(Order), NEW f \in Filters, Show(p, f),
         strayed' \in BOOLEAN, FitsIn(table, p, f, strayed'),
         UNCHANGED <<table, mySession, confirm, change, shownBy>>
  PROVE  DashboardInv'
<1> DEFINE key == QueryKey(p, f)
           old == cache[key]
<1>1. key \in Lists /\ key \in Keys /\ old \in Query /\ Now \in Nat
  BY DashboardTypeFacts DEF QueryKey, Lists
<1>2. turns' \in 0 .. MaxTurns
  BY PageConstants DEF Show, DashboardInv, DashboardTypeOK
<1>3. /\ page' = p /\ filter' = f
      /\ cache' = [cache EXCEPT ![key] = Fetched(old)] \/ cache' = cache
      /\ last' = IF old.data # {} THEN key ELSE last
  BY Zenon DEF Show
<1>4. QueryOK(old, key, Now, shownBy)
  BY <1>1 DEF DashboardInv, CacheOK
<1>5. PageFits' /\ page' \in 1 .. Len(Order) /\ filter' \in Filters
  BY <1>3 DEF PageFits
<1>6. PICK q \in Query : /\ cache' = [cache EXCEPT ![key] = q]
                         /\ q.data = old.data /\ QueryOK(q, key, Now, shownBy)
  <2>1. CASE cache' = cache
    <3>1. cache = [cache EXCEPT ![key] = old]
      BY <1>1, DashboardTypeFacts
    <3>. QED  BY <1>1, <1>4, <2>1, <3>1
  <2>2. CASE cache' = [cache EXCEPT ![key] = Fetched(old)]
    BY <1>1, <1>4, <2>2, FetchedFacts, FetchedOK
  <2>. QED  BY <1>3, <2>1, <2>2
<1>. QED  BY <1>1, <1>2, <1>3, <1>5, <1>6, CacheStep
\* The other filter starts on its first page, which there always is.
LEMMA SetFilterStep ==
  ASSUME DashboardInv, NEW f \in Filters, SetFilter(f)
  PROVE  DashboardInv'
<1>1. Show(1, f) /\ strayed' = FALSE /\ UNCHANGED <<table, mySession, confirm, change, shownBy>>
  BY DEF SetFilter
<1>2. 1 \in 1 .. Len(Order)
  BY OrderFacts
<1>3. Pages(Cardinality(MatchingIn(table, 1, f))) \in 1 .. Len(Order)
  BY PagesBound
<1>4. FitsIn(table, 1, f, strayed')
  BY <1>3, OrderFacts DEF FitsIn
<1>. QED  BY <1>1, <1>2, <1>4, ShowStep

\* The page before one that exists, exists.
LEMMA PreviousPageStep ==
  ASSUME DashboardInv, PreviousPage
  PROVE  DashboardInv'
<1>1. /\ Show(page - 1, filter) /\ page > 1
      /\ UNCHANGED <<table, mySession, confirm, change, shownBy, strayed>>
  BY DEF PreviousPage
<1>2. page \in 1 .. Len(Order) /\ filter \in Filters /\ strayed \in BOOLEAN
  BY DEF DashboardInv, DashboardTypeOK
<1>3. page - 1 \in 1 .. Len(Order)
  BY <1>1, <1>2, OrderFacts
<1>4. Pages(Cardinality(MatchingIn(table, 1, filter))) \in 1 .. Len(Order)
  BY PagesBound
<1>5. FitsIn(table, page, filter, strayed)
  BY DEF DashboardInv, PageFits
<1>6. FitsIn(table, page - 1, filter, strayed)
  BY <1>2, <1>4, <1>5, OrderFacts DEF FitsIn
<1>. QED  BY <1>1, <1>2, <1>3, <1>6, ShowStep

\* Next goes by the page count of the rows shown: it is that of the list asked
\* for, as of some version, unless the rows are those of another filter.
LEMMA NextPageStep ==
  ASSUME DashboardInv, NextPage
  PROVE  DashboardInv'
<1>1. /\ Show(page + 1, filter) /\ page < TotalPages
      /\ strayed' = (strayed \/ Shown[2] # filter)
      /\ UNCHANGED <<table, mySession, confirm, change, shownBy>>
  BY DEF NextPage
<1>2. page \in 1 .. Len(Order) /\ filter \in Filters /\ strayed \in BOOLEAN
  BY DEF DashboardInv, DashboardTypeOK
<1>3. Shown # NoKey
  BY <1>1, <1>2, OrderFacts DEF TotalPages
<1> DEFINE v == Data(Shown).at
<1>4. v \in 1 .. Now
  BY <1>3, ShownFacts
<1> HIDE DEF v
<1>5. TotalPages = Pages(Cardinality(MatchingIn(table, v, Shown[2])))
  BY <1>3, PageCountIs DEF TotalPages, v
<1>6. page + 1 \in 1 .. Len(Order)
  <2>1. Pages(Cardinality(MatchingIn(table, v, Shown[2]))) \in 1 .. Len(Order)
    BY PagesBound
  <2>. QED  BY <1>1, <1>2, <1>5, <2>1, OrderFacts
<1>7. strayed' \in BOOLEAN
  BY <1>1, <1>2
<1>8. FitsIn(table, page + 1, filter, strayed')
  <2>1. CASE strayed'
    BY <2>1 DEF FitsIn
  <2>2. CASE ~strayed' /\ MatchingIn(table, v, filter) # MatchingIn(table, 1, filter)
    <3>1. v \in DOMAIN table
      BY <1>4, DashboardTypeFacts
    <3>. QED  BY <2>2, <3>1 DEF FitsIn
  <2>3. CASE ~strayed' /\ MatchingIn(table, v, filter) = MatchingIn(table, 1, filter)
    <3>1. Shown[2] = filter
      BY <1>1, <2>3
    <3>2. TotalPages = Pages(Cardinality(MatchingIn(table, 1, filter)))
      BY <1>5, <2>3, <3>1
    <3>3. Pages(Cardinality(MatchingIn(table, 1, filter))) \in 1 .. Len(Order)
      BY PagesBound
    <3>4. page + 1 <= Pages(Cardinality(MatchingIn(table, 1, filter)))
      BY <1>1, <1>2, <3>2, <3>3, OrderFacts
    <3>. QED  BY <3>4 DEF FitsIn
  <2>. QED  BY <2>1, <2>2, <2>3
<1>. QED  BY <1>1, <1>2, <1>6, <1>7, <1>8, ShowStep

\* A control of a shown row offers an action by the version of that row.
LEMMA OpenDialogStep ==
  ASSUME DashboardInv, NEW u \in Users, NEW kind \in {"role", "status"},
         NEW value \in UserRole \cup AccountStatus, OpenDialog(u, kind, value)
  PROVE  DashboardInv'
<1> DEFINE v == Data(Shown).at
           a == [user |-> u, kind |-> kind, value |-> value, seen |-> v]
<1>1. /\ \/ kind = "role" /\ value \in OfferedRoles(u, table[v][u])
         \/ kind = "status" /\ value \in OfferedStatuses(u, table[v][u])
      /\ confirm' = a
      /\ Usable /\ u \in ShownUsers
      /\ UNCHANGED <<table, mySession, page, filter, cache, last, change, shownBy, strayed, turns>>
  BY DEF OpenDialog
<1>2. v \in 1 .. Now
  <2>1. Shown # NoKey
    BY <1>1 DEF ShownUsers
  <2>. QED  BY <2>1, ShownFacts
<1> HIDE DEF v
<1>3. a.user = u /\ a.kind = kind /\ a.value = value /\ a.seen = v
  OBVIOUS
<1>4. a \in PendingAction
  BY <1>2, DashboardTypeFacts DEF PendingAction
<1> HIDE DEF a
<1>5. OfferedIn(table, confirm')
  BY <1>1, <1>2, <1>3 DEF OfferedIn, Now
<1>6. ActionsOK'
  BY <1>1, <1>5 DEF DashboardInv, ActionsOK, OfferedIn, Now, Usable
<1>7. RefusalOK(table, change)' /\ change' \in Mutation
  BY <1>1 DEF DashboardInv, DashboardTypeOK, RefusalOK
<1>. QED  BY <1>1, <1>4, <1>6, <1>7, DialogStep

\* What the dialog and the mutation start with has their types.
LEMMA NoActionFacts == NoAction \in PendingAction /\ IdleMutation \in Mutation
<1>1. NoAction \in PendingAction
  BY DEF NoAction, PendingAction, UserRole
<1>. QED  BY <1>1 DEF IdleMutation, Mutation

\* The dialog is closed.
LEMMA CancelStep ==
  ASSUME DashboardInv, Cancel
  PROVE  DashboardInv'
<1>1. ActionsOK'
  BY DEF DashboardInv, ActionsOK, Cancel, OfferedIn, Now
<1>2. RefusalOK(table, change)' /\ change' \in Mutation /\ confirm' \in PendingAction
  BY NoActionFacts DEF DashboardInv, DashboardTypeOK, RefusalOK, Cancel
<1>. QED  BY <1>1, <1>2, DialogStep DEF Cancel

\* The change asked about is sent.
LEMMA ConfirmStep ==
  ASSUME DashboardInv, Confirm
  PROVE  DashboardInv'
<1> DEFINE sent == [IdleMutation EXCEPT !.pc = "sent", !.action = confirm]
<1>1. confirm # NoAction /\ change' = sent
      /\ UNCHANGED <<table, mySession, page, filter, cache, last, confirm, shownBy, strayed, turns>>
  BY DEF Confirm
<1>2. confirm \in PendingAction
  BY DEF DashboardInv, DashboardTypeOK
<1>3. sent \in Mutation
  BY <1>2 DEF Mutation, IdleMutation
<1>4. sent.pc = "sent" /\ sent.action = confirm
  BY DEF IdleMutation
<1> HIDE DEF sent
<1>5. ActionsOK'
  BY <1>1, <1>4 DEF DashboardInv, ActionsOK, OfferedIn, Now
<1>6. RefusalOK(table, change)'
  BY <1>1, <1>4 DEF RefusalOK
<1>. QED  BY <1>1, <1>2, <1>3, <1>5, <1>6, DialogStep

\* A change fails, or its answer is lost.
LEMMA ChangeFailsStep ==
  ASSUME DashboardInv, ChangeFails
  PROVE  DashboardInv'
<1>1. confirm' = NoAction /\ change' = IdleMutation /\ IdleMutation.pc = "idle"
      /\ UNCHANGED <<table, mySession, page, filter, cache, last, shownBy, strayed, turns>>
  BY DEF ChangeFails, IdleMutation
<1>2. ActionsOK'
  BY <1>1 DEF DashboardInv, ActionsOK, Now
<1>3. RefusalOK(table, change)'
  BY <1>1 DEF RefusalOK
<1>. QED  BY <1>1, <1>2, <1>3, NoActionFacts, DialogStep

\* The server refuses a change: what was offered is refused when the row has
\* changed since, and a lock of an account awaiting verification in any case.
LEMMA RefuseChangeStep ==
  ASSUME DashboardInv, RefuseChange
  PROVE  DashboardInv'
<1> DEFINE c == [change EXCEPT !.pc = "refused", !.at = Now, !.admitted = Admitted]
           a == change.action
<1>1. /\ change.pc = "sent" /\ ~(Admitted /\ Accepted(a))
      /\ change' = c
      /\ UNCHANGED <<table, mySession, page, filter, cache, last, confirm, shownBy, strayed, turns>>
  BY DEF RefuseChange
<1>2. change \in Mutation /\ Now \in Nat \ {0} /\ mySession \in BOOLEAN
  BY DashboardTypeFacts DEF DashboardInv, DashboardTypeOK
<1>3. Admitted \in BOOLEAN
  BY DEF Admitted
<1>4. c \in Mutation
  <2> HIDE DEF a
  <2>. QED  BY <1>2, <1>3 DEF Mutation
<1>5. c.pc = "refused" /\ c.at = Now /\ c.action = a
  BY <1>2 DEF Mutation
<1>6. c.admitted = Admitted
  BY <1>2, Zenon DEF Mutation
<1> HIDE DEF c
<1>7. OfferedIn(table, a) /\ cache[Overview].data # {}
  BY <1>1 DEF DashboardInv, ActionsOK
<1>8. ActionsOK'
  BY <1>1, <1>2, <1>5, <1>7 DEF DashboardInv, ActionsOK, OfferedIn, Now
<1>9. ASSUME Admitted, table[a.seen][a.user] = Row(a.user)
      PROVE  a.value = "LOCKED" /\ table[a.seen][a.user].status = "PENDING_VERIFICATION"
  <2> DEFINE row == table[a.seen][a.user]
  <2>1. ~Accepted(a)
    BY <1>1, <1>9
  <2>2. CASE a.kind = "role" /\ a.value \in OfferedRoles(a.user, row)
    BY <2>1, <2>2 DEF OfferedRoles, isSelf, Accepted
  <2>3. CASE a.kind = "status" /\ a.value \in OfferedStatuses(a.user, row)
    <3>1. a.user # Me \/ a.value # "DISABLED"
      BY <2>3 DEF OfferedStatuses, canDisable, isSelf
    <3>2. ~AllowedTransition(row.status, a.value)
      BY <1>9, <2>1, <2>3, <3>1 DEF Accepted
    <3>3. row.status \in AccountStatus
      <4>1. a.seen \in 1 .. Now /\ a.user \in Users
        BY <1>7 DEF OfferedIn, Now
      <4>2. table[a.seen] \in [Users -> AdminUserRow]
        BY <4>1, DashboardTypeFacts DEF Now
      <4>. QED  BY <4>1, <4>2 DEF AdminUserRow
    <3> HIDE DEF row
    <3>4. \/ a.value = "LOCKED" /\ row.status \in {"ACTIVE", "PENDING_VERIFICATION"}
          \/ a.value = "ACTIVE" /\ row.status = "LOCKED"
          \/ a.value = "DISABLED" /\ row.status # "DISABLED"
      BY <2>3 DEF OfferedStatuses, canLock, canUnlock, canDisable
    <3>5. a.value = "LOCKED" /\ row.status = "PENDING_VERIFICATION"
      BY <3>2, <3>3, <3>4 DEF AllowedTransition, ALLOWED_TRANSITIONS, AccountStatus
    <3>. QED  BY <3>5 DEF row
  <2>. QED  BY <1>7, <2>2, <2>3 DEF OfferedIn
<1>10. RefusalOK(table', change')
  BY <1>1, <1>5, <1>6, <1>9 DEF RefusalOK, Row
<1>11. RefusalOK(table, change)' /\ confirm' \in PendingAction
  BY <1>1, <1>10 DEF RefusalOK, DashboardInv, DashboardTypeOK
<1>. QED  BY <1>1, <1>4, <1>8, <1>11, DialogStep
\* A write adds one version to the table.
LEMMA WrittenKeeps ==
  ASSUME DashboardInv, NEW u \in Users, NEW kind, NEW value,
         \/ kind = "role" /\ value \in UserRole
         \/ kind = "status" /\ value \in AccountStatus,
         table' = Written(u, kind, value)
  PROVE  TableKept /\ Len(table') = Now + 1
<1> DEFINE new == IF kind = "role" THEN [table[Now] EXCEPT ![u].role = value]
                  ELSE [table[Now] EXCEPT ![u].status = value]
<1>1. /\ table \in Seq([Users -> AdminUserRow]) /\ Now \in Nat \ {0} /\ Len(table) = Now
      /\ table[Now] \in [Users -> AdminUserRow]
  BY DashboardTypeFacts DEF Now
<1>2. new \in [Users -> AdminUserRow]
  <2>1. CASE kind = "role" /\ value \in UserRole
    BY <1>1, <2>1 DEF AdminUserRow
  <2>2. CASE kind = "status" /\ value \in AccountStatus
    BY <1>1, <2>2 DEF AdminUserRow
  <2>. QED  BY <2>1, <2>2
<1>3. table' = Append(table, new)
  BY DEF Written
<1> HIDE DEF new
<1>4. table' \in Seq([Users -> AdminUserRow]) /\ Len(table') = Now + 1
  BY <1>1, <1>2, <1>3
<1>5. \A v \in 1 .. Len(table) : table'[v] = table[v]
  BY <1>1, <1>3
<1>. QED  BY <1>1, <1>4, <1>5 DEF TableKept

\* The server applies a change.
LEMMA WriteChangeStep ==
  ASSUME DashboardInv, WriteChange
  PROVE  DashboardInv'
<1> DEFINE a == change.action
           c == [change EXCEPT !.pc = "written", !.at = Now + 1]
<1>1. /\ change.pc = "sent" /\ table' = Written(a.user, a.kind, a.value)
      /\ change' = c /\ mySession' \in BOOLEAN
      /\ UNCHANGED <<page, filter, cache, last, confirm, shownBy, strayed, turns>>
  BY DEF WriteChange
<1>2. change \in Mutation /\ Now \in Nat \ {0}
  BY DashboardTypeFacts DEF DashboardInv, DashboardTypeOK
<1>3. c \in Mutation
  <2>1. ASSUME NEW n \in Nat  PROVE [change EXCEPT !.pc = "written", !.at = n] \in Mutation
    BY <1>2 DEF Mutation
  <2>2. Now + 1 \in Nat
    BY <1>2
  <2>. QED  BY <2>1, <2>2, Zenon
<1>4. c.pc = "written" /\ c.at = Now + 1 /\ c.action = a
  BY <1>2 DEF Mutation
<1> HIDE DEF c
<1>5. /\ a.user \in Users
      /\ \/ a.kind = "role" /\ a.value \in UserRole
         \/ a.kind = "status" /\ a.value \in AccountStatus
  <2>1. OfferedIn(table, a)
    BY <1>1 DEF DashboardInv, ActionsOK
  <2>. QED  BY <2>1 DEF OfferedIn, OfferedRoles, OfferedStatuses
<1>6. TableKept /\ Len(table') = Now + 1
  BY <1>1, <1>5, WrittenKeeps
<1>7. change'.at \in 1 .. Len(table')
  BY <1>1, <1>2, <1>4, <1>6
<1>. QED  BY <1>1, <1>3, <1>4, <1>6, <1>7, TableStep

\* Others write the table.
LEMMA OthersWriteStep ==
  ASSUME DashboardInv, NEW u \in Users, NEW kind, NEW value,
         \/ kind = "role" /\ value \in UserRole
         \/ kind = "status" /\ value \in AccountStatus,
         OthersWrite(u, kind, value)
  PROVE  DashboardInv'
<1>1. /\ table' = Written(u, kind, value)
      /\ mySession' \in {mySession, mySession /\ u # Me}
      /\ UNCHANGED <<page, filter, cache, last, confirm, change, shownBy, strayed, turns>>
  BY DEF OthersWrite
<1>2. mySession' \in BOOLEAN
  BY <1>1 DEF DashboardInv, DashboardTypeOK
<1>3. TableKept
  BY <1>1, WrittenKeeps
<1>. QED  BY <1>1, <1>2, <1>3, TableStep

\* A query is told of a change: all it has is marked, and the cards ask anew.
LEMMA InvalidatedOK ==
  ASSUME NEW q \in Query, NEW key, NEW active \in BOOLEAN, NEW n \in Nat, NEW b, NEW b2,
         QueryOK(q, key, n, b), key = Overview => active /\ q.data # {}
  PROVE  QueryOK(Invalidated(q, active), key, n, b2)
<1> DEFINE r == Invalidated(q, active)
<1>1. r.data = q.data /\ (q.data # {} => r.invalid)
  BY InvalidatedFacts
<1>2. ASSUME NEW f \in r.fetch
      PROVE  /\ f.at \in 0 .. n
             /\ f.at = 0 => ~f.kept
             /\ f.at # 0 => f.kept /\ key # Overview
  <2>1. CASE f = Unread
    BY <2>1, UnreadFacts
  <2>2. CASE f # Unread
    <3>1. PICK g \in q.fetch : f.at = g.at /\ (g.at = 0 => ~f.kept) /\ (g.at # 0 => f.kept)
      BY <2>2, InvalidatedFacts
    <3>2. key # Overview
      BY <2>2, InvalidatedFacts
    <3>. QED  BY <3>1, <3>2 DEF QueryOK
  <2>. QED  BY <2>1, <2>2
<1> HIDE DEF r
<1>3. QueryOK(r, key, n, b2)
  BY <1>1, <1>2 DEF QueryOK
<1>. QED  BY <1>3 DEF r

\* A change is acknowledged.
LEMMA ChangeSucceedsStep ==
  ASSUME DashboardInv, ChangeSucceeds
  PROVE  DashboardInv'
<1>1. /\ change.pc = "written" /\ confirm' = NoAction /\ cache' = Refreshed
      /\ change' = IdleMutation /\ shownBy' = change.at
      /\ UNCHANGED <<table, mySession, page, filter, last, strayed, turns>>
  BY DEF ChangeSucceeds
<1>2. /\ cache \in [Keys -> Query] /\ Now \in Nat \ {0} /\ change.at \in 1 .. Now
      /\ cache[Overview].data # {} /\ IdleMutation.pc = "idle"
  BY <1>1, DashboardTypeFacts DEF DashboardInv, ActionsOK, IdleMutation
<1>3. ASSUME NEW key \in Keys
      PROVE  \/ cache'[key] = Invalidated(cache[key], TRUE)
             \/ key # Overview /\ cache'[key] = Invalidated(cache[key], FALSE)
  <2>1. cache'[key] = Invalidated(cache[key], key \in {Current, Overview})
    BY <1>1, Zenon DEF Refreshed
  <2>2. CASE key \in {Current, Overview}
    <3>1. (key \in {Current, Overview}) = TRUE
      BY <2>2
    <3>. QED  BY <2>1, <3>1, Zenon
  <2>3. CASE key \notin {Current, Overview}
    <3>1. (key \in {Current, Overview}) = FALSE /\ key # Overview
      BY <2>3
    <3>. QED  BY <2>1, <3>1, Zenon
  <2>. QED  BY <2>2, <2>3
<1>4. \A key \in Keys : cache'[key] \in Query /\ cache'[key].data = cache[key].data
  <2>1. ASSUME NEW key \in Keys
        PROVE  cache'[key] \in Query /\ cache'[key].data = cache[key].data
    <3>1. cache[key] \in Query
      BY <1>2
    <3>. QED  BY <1>3, <3>1, InvalidatedFacts
  <2>. QED  BY <2>1
<1>5. cache' \in [Keys -> Query]
  <2>1. cache' = [key \in Keys |-> cache'[key]]
    BY <1>1 DEF Refreshed
  <2>. QED  BY <1>4, <2>1
<1>6. DashboardTypeOK'
  <2>1. shownBy' \in Nat
    BY <1>1, <1>2
  <2>. QED  BY <1>1, <1>5, <2>1, NoActionFacts DEF DashboardInv, DashboardTypeOK
<1>7. CacheOK'
  <2>1. ASSUME NEW key \in Keys  PROVE QueryOK(cache'[key], key, Now, shownBy')
    <3>1. cache[key] \in Query /\ QueryOK(cache[key], key, Now, shownBy)
      BY <1>2 DEF DashboardInv, CacheOK
    <3>2. cache[Overview].data # {} /\ Now \in Nat
      BY <1>2
    <3>3. CASE cache'[key] = Invalidated(cache[key], TRUE)
      BY <3>1, <3>2, <3>3, InvalidatedOK, Zenon
    <3>4. CASE key # Overview /\ cache'[key] = Invalidated(cache[key], FALSE)
      BY <3>1, <3>2, <3>4, InvalidatedOK, Zenon
    <3>. QED  BY <1>3, <3>3, <3>4
  <2>. QED  BY <1>1, <2>1 DEF CacheOK, Now
<1>8. LastOK'
  BY <1>1, <1>4, DashboardTypeFacts DEF DashboardInv, LastOK, DashboardTypeOK
<1>9. ActionsOK'
  BY <1>1, <1>2 DEF ActionsOK, Now
<1>10. PageFits'
  BY <1>1, SameTable, PageStillFits
<1>11. RefusalOK(table, change)' /\ (Now >= 1)'
  BY <1>1, <1>2 DEF RefusalOK, Now
<1>. QED  BY <1>6, <1>7, <1>8, <1>9, <1>10, <1>11 DEF DashboardInv

-----------------------------------------------------------------------------
\* The page opens with nothing answered yet.
LEMMA DashboardInitInv ==
  ASSUME DashboardInit
  PROVE  DashboardInv
<1>1. PICK t \in [Users -> AdminUserRow] : table = <<t>>
  BY DEF DashboardInit
<1>2. table \in Seq([Users -> AdminUserRow]) /\ Len(table) = 1 /\ Now = 1 /\ DOMAIN table = 1 .. 1
  BY <1>1 DEF Now
<1>3. NoQuery \in Query /\ NoQuery.data = {} /\ NoQuery.fetch = {}
  <2>1. NoQuery \in Query
    BY QueryRecord DEF NoQuery
  <2>. QED  BY <2>1 DEF NoQuery
<1>4. /\ Fetched(NoQuery) \in Query /\ Fetched(NoQuery).data = {}
      /\ Fetched(NoQuery).fetch = {Unread}
  BY <1>3, FetchedFacts
<1>5. \A key \in Keys : cache[key] \in {NoQuery, Fetched(NoQuery)}
  BY DEF DashboardInit
<1>6. cache \in [Keys -> Query]
  BY <1>3, <1>4 DEF DashboardInit
<1>7. CacheOK
  <2>1. ASSUME NEW key \in Keys  PROVE QueryOK(cache[key], key, Now, shownBy)
    <3>1. cache[key].data = {} /\ (cache[key].fetch = {} \/ cache[key].fetch = {Unread})
      BY <1>3, <1>4, <1>5
    <3>. QED  BY <1>2, <3>1, UnreadFacts DEF QueryOK
  <2>. QED  BY <2>1 DEF CacheOK
<1>8. /\ mySession = TRUE /\ page = 1 /\ filter = "ALL" /\ last = NoKey
      /\ confirm = NoAction /\ change = IdleMutation
      /\ shownBy = 0 /\ strayed = FALSE /\ turns = 0
  BY DEF DashboardInit
<1>9. DashboardTypeOK
  <2>1. page \in 1 .. Len(Order) /\ filter \in Filters /\ turns \in 0 .. MaxTurns
    BY <1>8, OrderFacts, PageConstants
  <2>2. mySession \in BOOLEAN /\ strayed \in BOOLEAN /\ shownBy \in Nat
    BY <1>8
  <2>3. confirm \in PendingAction /\ change \in Mutation
    BY <1>8, NoActionFacts
  <2>. QED  BY <1>2, <1>6, <1>8, <2>1, <2>2, <2>3 DEF DashboardTypeOK
<1>10. ActionsOK /\ RefusalOK(table, change) /\ LastOK
  BY <1>2, <1>8 DEF ActionsOK, RefusalOK, LastOK, IdleMutation
<1>11. PageFits
  <2>1. Pages(Cardinality(MatchingIn(table, 1, filter))) \in 1 .. Len(Order)
    BY PagesBound
  <2>. QED  BY <1>8, <2>1, OrderFacts DEF PageFits, FitsIn
<1>. QED  BY <1>2, <1>7, <1>9, <1>10, <1>11 DEF DashboardInv

\* Every step of the dashboard, the server and the others keeps it.
LEMMA DashboardStep ==
  ASSUME DashboardInv, [DashboardNext]_dashboardVars
  PROVE  DashboardInv'
<1>1. CASE UNCHANGED dashboardVars
  <2>1. UNCHANGED <<table, mySession, page, filter, cache, last, confirm, change,
                    shownBy, strayed, turns>>
    BY <1>1 DEF dashboardVars
  <2>2. ActionsOK' /\ RefusalOK(table, change)'
    BY <2>1 DEF DashboardInv, ActionsOK, RefusalOK, OfferedIn, Now
  <2>3. confirm' \in PendingAction /\ change' \in Mutation
    BY <2>1 DEF DashboardInv, DashboardTypeOK
  <2>. QED  BY <2>1, <2>2, <2>3, DialogStep
<1>2. ASSUME NEW key \in Keys, ListUsers(key)  PROVE DashboardInv'
  BY <1>2, ReadStep DEF ListUsers
<1>3. ASSUME NEW key \in Keys, FetchArrives(key)  PROVE DashboardInv'
  BY <1>3, FetchArrivesStep
<1>4. ASSUME NEW key \in Keys, FetchFails(key)  PROVE DashboardInv'
  BY <1>4, FetchFailsStep
<1>5. CASE AnalyticsOverview
  BY <1>5, ReadStep, DashboardTypeFacts DEF AnalyticsOverview
<1>6. CASE OverviewInterval
  BY <1>6, OverviewIntervalStep
<1>7. CASE RefuseChange
  BY <1>7, RefuseChangeStep
<1>8. CASE WriteChange
  BY <1>8, WriteChangeStep
<1>9. CASE ChangeSucceeds
  BY <1>9, ChangeSucceedsStep
<1>10. CASE ChangeFails
  BY <1>10, ChangeFailsStep
<1>11. ASSUME NEW u \in Users, NEW r \in UserRole, OthersWrite(u, "role", r)  PROVE DashboardInv'
  BY <1>11, OthersWriteStep
<1>12. ASSUME NEW u \in Users, NEW st \in Others, OthersWrite(u, "status", st)
       PROVE  DashboardInv'
  BY <1>12, OthersWriteStep, PageConstants
<1>13. ASSUME NEW f \in Filters, SetFilter(f)  PROVE DashboardInv'
  BY <1>13, SetFilterStep
<1>14. CASE PreviousPage
  BY <1>14, PreviousPageStep
<1>15. CASE NextPage
  BY <1>15, NextPageStep
<1>16. ASSUME NEW u \in Users, NEW r \in UserRole, OpenDialog(u, "role", r)  PROVE DashboardInv'
  BY <1>16, OpenDialogStep
<1>17. ASSUME NEW u \in Users, NEW st \in AccountStatus, OpenDialog(u, "status", st)
       PROVE  DashboardInv'
  BY <1>17, OpenDialogStep
<1>18. CASE Cancel
  BY <1>18, CancelStep
<1>19. CASE Confirm
  BY <1>19, ConfirmStep
<1>. QED  BY <1>1, <1>2, <1>3, <1>4, <1>5, <1>6, <1>7, <1>8, <1>9, <1>10, <1>11, <1>12,
             <1>13, <1>14, <1>15, <1>16, <1>17, <1>18, <1>19 DEF DashboardNext

\* What the dashboard's properties rest on: cached answers and requests on
\* their way are as new as the last acknowledged change or known not to be,
\* and only what a row offered is asked of the server.
THEOREM DashboardInvariant == DashboardSpec => []DashboardInv
  BY DashboardInitInv, DashboardStep, PTL DEF DashboardSpec

\* The dashboard's variables keep their types: the users table is only added
\* to with rows, and the page asked for is one the users can fill.
THEOREM DashboardTypes == DashboardSpec => []DashboardTypeOK
<1>1. DashboardInv => DashboardTypeOK
  BY DEF DashboardInv
<1>. QED  BY <1>1, DashboardInvariant, PTL

\* refresh(): no cached list or overview that is taken for fresh is older than
\* the change that was acknowledged last, but for a list kept on its way.
THEOREM OwnChangesShown == DashboardSpec => []OwnChangeShown
<1>1. DashboardInv => OwnChangeShown
  BY DEF DashboardInv, CacheOK, QueryOK, OwnChangeShown
<1>. QED  BY <1>1, DashboardInvariant, PTL

\* setUserRole and setUserStatus refuse what a button of UsersTable offered
\* only if the row has changed since or the administrator is no longer
\* admitted, but for the lock of an account awaiting its verification.
THEOREM RefusalsMeanStale == DashboardSpec => []RefusalMeansStale
<1>1. DashboardInv => RefusalMeansStale
  BY DEF DashboardInv, RefusalOK, RefusalMeansStale
<1>. QED  BY <1>1, DashboardInvariant, PTL

\* The page that useQuery asks for exists while no write moves users in or out
\* of the list, unless Next was pressed over the rows of another filter.
THEOREM PagesExist == DashboardSpec => []PageExists
<1>1. ASSUME DashboardInv  PROVE PageExists
  <2>1. SUFFICES ASSUME ~strayed, cache[Current].data # {},
                        \A v \in DOMAIN table : Matching(v, filter) = Matching(1, filter)
                 PROVE  page <= TotalPages
    BY DEF PageExists
  <2>2. Shown = Current /\ Shown # NoKey /\ Shown[2] = filter
    <3>1. Shown = Current
      BY <2>1 DEF Shown
    <3>2. Current \in Lists /\ Current[2] = filter
      BY <1>1, DashboardTypeFacts DEF Current, QueryKey
    <3>. QED  BY <1>1, <3>1, <3>2, DashboardTypeFacts
  <2> DEFINE v == Data(Shown).at
  <2>3. v \in DOMAIN table
    BY <1>1, <2>2, ShownFacts, DashboardTypeFacts
  <2>4. TotalPages = PageCount(v, filter)
    BY <2>2 DEF TotalPages
  <2> HIDE DEF v
  <2>5. PageCount(v, filter) = PageCount(1, filter)
    BY <2>1, <2>3 DEF PageCount
  <2>6. \A w \in DOMAIN table : MatchingIn(table, w, filter) = MatchingIn(table, 1, filter)
    BY <2>1, PageCountIs
  <2>7. page <= PageCount(1, filter)
    BY <1>1, <2>1, <2>6, PageCountIs DEF DashboardInv, PageFits, FitsIn
  <2>. QED  BY <2>4, <2>5, <2>7
<1>. QED  BY <1>1, DashboardInvariant, PTL
=============================================================================
