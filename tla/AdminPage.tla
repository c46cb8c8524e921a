----------------------------- MODULE AdminPage -----------------------------
(***************************************************************************)
(* The admin dashboard of one administrator (app/admin/page.tsx) and what  *)
(* answers it: the filtered and paginated users table, the overview cards, *)
(* the confirmation dialog, and the role and status changes it sends,      *)
(* while other requests write the users table too.                         *)
(*                                                                         *)
(* The page works on cached answers: they arrive in any order, and the     *)
(* server decides on the table as it is then.  `table' keeps every version *)
(* of the users table there has been, so that an answer is the version it  *)
(* read: the rows and the count of one list, and the counts of the cards,  *)
(* are queries of their own in the code and one read here.  The cache is   *)
(* external (TanStack Query), modelled as page.tsx relies on it.           *)
(* The search box acts as the status filter does, and is left out; so are  *)
(* the trends, which no change refreshes.  A change is decided and written *)
(* in one step (module Admins splits it); audit rows are left out.         *)
(***************************************************************************)
EXTENDS Naturals, Sequences, FiniteSets, UserTable

CONSTANTS
  Order,          \* the users, the newest first
  Me,             \* the administrator at the page
  PageSize,
  Filters,        \* values of the status filter that are tried
  Initial,        \* statuses the other users start with
  Others,         \* statuses others write
  MaxWrites,      \* bound on the writes to the users table
  MaxTurns        \* bound on the changes of page or filter

ASSUME PageConstants ==
  /\ Order \in Seq(Users) /\ Me \in Users
  /\ \A u \in Users : \E i \in DOMAIN Order : Order[i] = u
  /\ PageSize \in Nat \ {0}
  /\ "ALL" \in Filters /\ Initial \subseteq AccountStatus /\ Others \subseteq AccountStatus
  /\ MaxWrites \in Nat /\ MaxTurns \in Nat

VARIABLES
  table,      \* the versions of the users table; the last one is current
  mySession,  \* my session is active
  page, filter,
  cache,      \* the query cache
  last,       \* the list that stands in while another one loads
  confirm,    \* the action the dialog asks about
  change,     \* the mutation
  shownBy,    \* history: the version my last acknowledged change made
  strayed,    \* history: Next was pressed over the rows of another filter
  turns       \* how often the page or the filter has changed

dashboardVars == <<table, mySession, page, filter, cache, last, confirm, change,
                  shownBy, strayed, turns>>

-----------------------------------------------------------------------------
(* Types *)

AdminUserRow == [role : UserRole, status : AccountStatus]

Overview == <<0, "OVERVIEW">>

\* The key of a list: the page and the filter.
QueryKey(p, f) == <<p, f>>

Lists == (1 .. Len(Order)) \X Filters

Keys == Lists \cup {Overview}

NoKey == <<0, "NONE">>

\* An answer: the version it comes from (0: not read yet); `kept' if it was
\* on its way when a change of mine was acknowledged, and kept.
Answer == [at : Nat, kept : BOOLEAN]

Unread == [at |-> 0, kept |-> FALSE]

\* `failed': the first load failed.
Query == [data : SUBSET Answer, invalid : BOOLEAN, failed : BOOLEAN,
          fetch : SUBSET Answer]

NoQuery == [data |-> {}, invalid |-> FALSE, failed |-> FALSE, fetch |-> {}]

\* PendingAction, with the version of the row it was opened from.
PendingAction == [user : Users \cup {Nobody}, kind : {"role", "status"},
                  value : UserRole \cup AccountStatus, seen : Nat]

NoAction == [user |-> Nobody, kind |-> "role", value |-> "USER", seen |-> 0]

\* `at' is the version the server decided on, or made.
Mutation == [pc : {"idle", "sent", "written", "refused"},
             action : PendingAction, at : Nat, admitted : BOOLEAN]

IdleMutation == [pc |-> "idle", action |-> NoAction, at |-> 0, admitted |-> TRUE]

-----------------------------------------------------------------------------
(* The server *)

Now == Len(table)

Row(u) == table[Now][u]

\* authenticate and requireAdmin
Admitted == mySession /\ Row(Me).role = "ADMIN" /\ Row(Me).status # "DISABLED"

\* The users a filter lets through, by their place in the order.
Matching(v, f) == {i \in DOMAIN Order : f = "ALL" \/ table[v][Order[i]].status = f}

\* skip and take of resolvePagination, applied by list().
Slice(v, key) ==
  LET rank(i) == Cardinality({j \in Matching(v, key[2]) : j <= i})
  IN  {Order[i] : i \in {j \in Matching(v, key[2]) : (key[1] - 1) * PageSize < rank(j)
                                                  /\ rank(j) <= key[1] * PageSize}}

\* countList, in pages; an empty list has one, too.
PageCount(v, f) ==
  LET totalItems == Cardinality(Matching(v, f))
  IN  IF totalItems = 0 THEN 1 ELSE (totalItems + PageSize - 1) \div PageSize

\* The checks of setUserRole and setUserStatus.
Accepted(a) ==
  \/ a.kind = "role" /\ (a.user # Me \/ a.value = Row(a.user).role)
  \/ /\ a.kind = "status"
     /\ a.user # Me \/ a.value # "DISABLED"
     /\ AllowedTransition(Row(a.user).status, a.value)

\* Mutation: every change goes to setStatus.
WrittenStatus(u, kind, value) == Append(table, [table[Now] EXCEPT ![u].status = value])

\* The statement setRole or update runs for the action.
Written(u, kind, value) ==
  Append(table, IF kind = "role" THEN [table[Now] EXCEPT ![u].role = value]
                ELSE [table[Now] EXCEPT ![u].status = value])

Read(key) == \E f \in cache[key].fetch :
  /\ f.at = 0 /\ Admitted
  /\ cache' = [cache EXCEPT ![key].fetch = {[f EXCEPT !.at = Now]}]
  /\ UNCHANGED <<table, mySession, page, filter, last, confirm, change, shownBy, strayed, turns>>

ListUsers(key) == key # Overview /\ Read(key)

AnalyticsOverview == Read(Overview)

RefuseChange ==
  /\ change.pc = "sent" /\ ~(Admitted /\ Accepted(change.action))
  /\ change' = [change EXCEPT !.pc = "refused", !.at = Now, !.admitted = Admitted]
  /\ UNCHANGED <<table, mySession, page, filter, cache, last, confirm, shownBy, strayed, turns>>

\* setRole or update, then revokeAllForUser: I may lock myself out.
WriteChange ==
  LET a == change.action
  IN  /\ change.pc = "sent" /\ Admitted /\ Accepted(a)
      /\ Now <= MaxWrites
      /\ table' = Written(a.user, a.kind, a.value)
      /\ change' = [change EXCEPT !.pc = "written", !.at = Now + 1]
      /\ mySession' = ~(a.user = Me /\ a.value = "LOCKED")
      /\ UNCHANGED <<page, filter, cache, last, confirm, shownBy, strayed, turns>>

\* Other administrators, and the writes of the sign-in side.
OthersWrite(u, kind, value) ==
  /\ Now <= MaxWrites /\ value \notin {Row(u).role, Row(u).status}
  /\ table' = Written(u, kind, value)
  /\ mySession' \in {mySession, mySession /\ u # Me}
  /\ UNCHANGED <<page, filter, cache, last, confirm, change, shownBy, strayed, turns>>

-----------------------------------------------------------------------------
(* The query cache *)

Current == QueryKey(page, filter)

\* What useQuery gives the page: the list asked for or, while it loads for
\* the first time, the one shown before (placeholderData).
Shown == IF cache[Current].data # {} THEN Current
         ELSE IF cache[Current].failed THEN NoKey ELSE last

Data(key) == CHOOSE d \in cache[key].data : TRUE

\* Asks for the data of a query, unless that is under way.
Fetched(q) ==
  IF q.fetch # {} THEN q ELSE [q EXCEPT !.fetch = {Unread}, !.failed = FALSE]

\* invalidateQueries: a query on the page with data is asked for anew, the
\* request under way cancelled; a first load, or a list that is not on the
\* page, keeps its request, and takes its answer for a fresh one.
Invalidated(q, active) ==
  LET kept == [q EXCEPT !.invalid = (q.data # {}),
                        !.fetch = {[f EXCEPT !.kept = (f.at # 0)] : f \in q.fetch}]
  IN  IF q = NoQuery THEN q
      ELSE IF ~active THEN kept
      ELSE IF q.data # {} THEN [q EXCEPT !.invalid = TRUE, !.fetch = {Unread}]
      ELSE Fetched(kept)

\* Mutation: refresh() forgets the lists.
RefreshedOverview ==
  [key \in Keys |-> IF key = Overview THEN Invalidated(cache[key], TRUE) ELSE cache[key]]

\* refresh
Refreshed ==
  [key \in Keys |-> Invalidated(cache[key], key \in {Current, Overview})]

FetchArrives(key) == \E f \in cache[key].fetch :
  /\ f.at # 0
  /\ cache' = [cache EXCEPT ![key] =
       [data |-> {f}, invalid |-> FALSE, failed |-> FALSE, fetch |-> {}]]
  /\ last' = IF key = Current THEN key ELSE last
  /\ UNCHANGED <<table, mySession, page, filter, confirm, change, shownBy, strayed, turns>>

\* Refused, or lost on the way, twice (retry: 1): data there is stays, marked
\* invalid.
FetchFails(key) ==
  /\ cache[key].fetch # {}
  /\ cache' = [cache EXCEPT ![key].fetch = {},
                            ![key].invalid = (cache[key].data # {}),
                            ![key].failed = (cache[key].data = {})]
  /\ UNCHANGED <<table, mySession, page, filter, last, confirm, change, shownBy, strayed, turns>>

\* refetchInterval
OverviewInterval ==
  /\ cache[Overview].fetch = {}
  /\ cache' = [cache EXCEPT ![Overview] = Fetched(@)]
  /\ UNCHANGED <<table, mySession, page, filter, last, confirm, change, shownBy, strayed, turns>>

-----------------------------------------------------------------------------
(* The page *)

\* The page renders once the overview is there; the dialog covers it.
Usable == cache[Overview].data # {} /\ confirm = NoAction

ShownUsers == IF Shown = NoKey THEN {} ELSE Slice(Data(Shown).at, Shown)

TotalPages == IF Shown = NoKey THEN 1 ELSE PageCount(Data(Shown).at, Shown[2])

\* Another key: its cached answer is shown, and asked for anew when there is
\* none, when it is marked invalid, or when it is older than staleTime.
Show(p, f) ==
  LET key == QueryKey(p, f)
      q == cache[key]
  IN  /\ page' = p /\ filter' = f
      /\ turns < MaxTurns /\ turns' = turns + 1
      /\ \/ cache' = [cache EXCEPT ![key] = Fetched(q)]
         \/ q.data # {} /\ ~q.invalid /\ UNCHANGED cache
      /\ last' = IF q.data # {} THEN key ELSE last

\* Mutation: the page stays when the filter changes.
SetFilterKeepsPage(f) ==
  /\ Usable /\ f # filter
  /\ Show(page, f)
  /\ strayed' = FALSE
  /\ UNCHANGED <<table, mySession, confirm, change, shownBy>>

SetFilter(f) ==
  /\ Usable /\ f # filter
  /\ Show(1, f)
  /\ strayed' = FALSE
  /\ UNCHANGED <<table, mySession, confirm, change, shownBy>>

PreviousPage ==
  /\ Usable /\ page > 1
  /\ Show(page - 1, filter)
  /\ UNCHANGED <<table, mySession, confirm, change, shownBy, strayed>>

NextPage ==
  /\ Usable /\ page < TotalPages
  /\ Show(page + 1, filter)
  /\ strayed' = (strayed \/ Shown[2] # filter)
  /\ UNCHANGED <<table, mySession, confirm, change, shownBy>>

isSelf(u) == u = Me

canLock(row) == row.status \in {"ACTIVE", "PENDING_VERIFICATION"}

canUnlock(row) == row.status = "LOCKED"

canDisable(u, row) == row.status # "DISABLED" /\ ~isSelf(u)

\* Mutation: the role of one's own row can be chosen, too.
OfferedRolesAll(u, row) == UserRole \ {row.role}

OfferedRoles(u, row) == IF isSelf(u) THEN {} ELSE UserRole \ {row.role}

OfferedStatuses(u, row) ==
  {st \in AccountStatus :
     \/ st = "LOCKED" /\ canLock(row)
     \/ st = "ACTIVE" /\ canUnlock(row)
     \/ st = "DISABLED" /\ canDisable(u, row)}

\* A control of a shown row opens the dialog; the row is kept in it.
OpenDialog(u, kind, value) ==
  /\ Usable /\ u \in ShownUsers
  /\ LET v == Data(Shown).at
     IN  /\ \/ kind = "role" /\ value \in OfferedRoles(u, table[v][u])
            \/ kind = "status" /\ value \in OfferedStatuses(u, table[v][u])
         /\ confirm' = [user |-> u, kind |-> kind, value |-> value, seen |-> v]
  /\ UNCHANGED <<table, mySession, page, filter, cache, last, change, shownBy, strayed, turns>>

Cancel ==
  /\ confirm # NoAction
  /\ confirm' = NoAction
  /\ UNCHANGED <<table, mySession, page, filter, cache, last, change, shownBy, strayed, turns>>

\* The button waits while a mutation is pending, the dialog's or an earlier
\* one whose dialog was cancelled.
Confirm ==
  /\ confirm # NoAction /\ change.pc = "idle"
  /\ change' = [IdleMutation EXCEPT !.pc = "sent", !.action = confirm]
  /\ UNCHANGED <<table, mySession, page, filter, cache, last, confirm, shownBy, strayed, turns>>

\* onSuccess: closes the dialog that is open, whichever it is.
ChangeSucceeds ==
  /\ change.pc = "written"
  /\ confirm' = NoAction
  /\ cache' = Refreshed
  /\ change' = IdleMutation
  /\ shownBy' = change.at
  /\ UNCHANGED <<table, mySession, page, filter, last, strayed, turns>>

\* onError, after a refusal or when the answer is lost: nothing is refreshed.
ChangeFails ==
  /\ change.pc # "idle"
  /\ confirm' = NoAction
  /\ change' = IdleMutation
  /\ UNCHANGED <<table, mySession, page, filter, cache, last, shownBy, strayed, turns>>

-----------------------------------------------------------------------------
\* The page is there for administrators only.
RequireAdmin(row) == row.role = "ADMIN"

\* The page has just been opened; the table is any an administrator can meet.
DashboardInit ==
  /\ table \in {<<t>> : t \in [Users -> AdminUserRow]}
  /\ RequireAdmin(table[1][Me]) /\ table[1][Me].status = "ACTIVE"
  /\ \A u \in Users \ {Me} : table[1][u].role = "USER" /\ table[1][u].status \in Initial
  /\ mySession = TRUE
  /\ page = 1 /\ filter = "ALL"
  /\ cache = [key \in Keys |-> IF key \in {QueryKey(1, "ALL"), Overview}
                               THEN Fetched(NoQuery) ELSE NoQuery]
  /\ last = NoKey
  /\ confirm = NoAction /\ change = IdleMutation
  /\ shownBy = 0 /\ strayed = FALSE /\ turns = 0

DashboardNext ==
  \/ \E key \in Keys : ListUsers(key) \/ FetchArrives(key) \/ FetchFails(key)
  \/ AnalyticsOverview \/ OverviewInterval
  \/ RefuseChange \/ WriteChange \/ ChangeSucceeds \/ ChangeFails
  \/ \E u \in Users : \/ \E r \in UserRole : OthersWrite(u, "role", r)
                      \/ \E st \in Others : OthersWrite(u, "status", st)
  \/ \E f \in Filters : SetFilter(f)
  \/ PreviousPage \/ NextPage
  \/ \E u \in Users : \/ \E r \in UserRole : OpenDialog(u, "role", r)
                      \/ \E st \in AccountStatus : OpenDialog(u, "status", st)
  \/ Cancel \/ Confirm

DashboardSpec == DashboardInit /\ [][DashboardNext]_dashboardVars

-----------------------------------------------------------------------------
(* Properties *)

\* Every variable has its type: a role never lands in the status column, and
\* no page before the first or beyond the users is asked for.
DashboardTypeOK ==
  /\ table \in Seq([Users -> AdminUserRow]) /\ mySession \in BOOLEAN
  /\ page \in 1 .. Len(Order) /\ filter \in Filters
  /\ cache \in [Keys -> Query]
  /\ last \in Lists \cup {NoKey}
  /\ confirm \in PendingAction /\ change \in Mutation
  /\ shownBy \in Nat /\ strayed \in BOOLEAN /\ turns \in 0 .. MaxTurns

\* After a change of mine was acknowledged, no answer in the cache that is
\* taken for fresh is older than it: neither the cards nor any list, on any
\* page and with any filter, shows what the change replaced.  The exception
\* is a list that was read before the acknowledgement and arrives after it,
\* as invalidateQueries keeps such a request unless the page shows that list.
OwnChangeShown ==
  \A key \in Keys : \A d \in cache[key].data :
    (cache[key].invalid \/ (d.kept /\ key # Overview))
      \/ d.at >= shownBy

\* The server refuses an action only if the row it was opened from was out of
\* date, or I am no longer admitted: the buttons offer nothing else that it
\* refuses, but one thing, the lock of an account awaiting its verification.
RefusalMeansStale ==
  change.pc = "refused" =>
    LET a == change.action
        seen == table[a.seen][a.user]
    IN  \/ ~change.admitted
        \/ seen # table[change.at][a.user]
        \/ a.value = "LOCKED" /\ seen.status = "PENDING_VERIFICATION"

\* While no write moves a user in or out of the list, the page asked for is
\* one of its pages, unless Next was pressed over the rows of the previous
\* filter, whose page count is shown until the list arrives.
PageExists ==
  \/ strayed
  \/ \E v \in DOMAIN table : Matching(v, filter) # Matching(1, filter)
  \/ cache[Current].data # {} => page <= TotalPages
=============================================================================
