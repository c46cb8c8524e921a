------------------------------ MODULE WebClient ------------------------------
(***************************************************************************)
(* The web client of one person: the browser tabs that share a cookie jar, *)
(* the fetch wrapper that refreshes the tokens on a 401 (client.ts), the   *)
(* session query and the sign-in and sign-out of auth-provider.tsx, the    *)
(* route guard, and as much of the API as answers them.                    *)
(*                                                                         *)
(* An attempt is one fetch: it leaves with the cookies of the moment, is   *)
(* served, and its answer comes back, in whatever order, or never does.    *)
(* The browser stores the cookies of an answer when its headers come; the  *)
(* code goes on when it has read the body, and the jar may be another one  *)
(* by then.  A fetch that fails leaves its request with the API, which may *)
(* serve it all the same, sooner or later.                                 *)
(* The three auth cookies are written together, so the jar is one record:  *)
(* the session, the number of its refresh token and whether the access     *)
(* cookie is still there.  The CSRF header is a copy of the CSRF cookie    *)
(* taken as the attempt leaves: it is right exactly when there is one.     *)
(***************************************************************************)
EXTENDS Naturals, FiniteSets

CONSTANTS
  Tabs, NoTab,           \* browser tabs
  Calls,                 \* slots for apiFetch calls other than GET /me
  SessionIds, NoSession, \* sessions the API may open
  MaxTokens              \* bound on the refresh tokens issued

ASSUME ClientConstants ==
  MaxTokens \in Nat \ {0} /\ NoTab \notin Tabs /\ NoSession \notin SessionIds

VARIABLES
  sessions,    \* the sessions table
  jar,         \* the auth cookies of the browser
  tab,         \* per tab: the page shown and the session query
  call,        \* the calls in flight
  signedOut,   \* history: sessions a tab got a successful sign-out for
  disturbed,   \* history: two refreshes overlapped, or nobody got one's cookies
  reused       \* history: sessions closed by the reuse detection

vars == <<sessions, jar, tab, call, signedOut, disturbed, reused>>

-----------------------------------------------------------------------------
(* Types *)

SessionRow == [status : {"NONE", "ACTIVE", "REVOKED"},
               hash : Nat, issued : Nat]

Cookies == [sid : SessionIds \cup {NoSession}, nonce : Nat, access : BOOLEAN]

EmptyJar == [sid |-> NoSession, nonce |-> 0, access |-> FALSE]

\* "undefined" is a query that has no data yet; `of' is the session whose
\* answer gave the data.
Tab == [page : {"closed", "public", "login", "guarded"},
        data : {"undefined", "user", "null"}, of : SessionIds \cup {NoSession},
        fetch : {"idle", "sent", "ok", "unauthorized"}, cookies : Cookies]

ClosedTab == [page |-> "closed", data |-> "undefined", of |-> NoSession,
              fetch |-> "idle", cookies |-> EmptyJar]

\* `attempt' is the fetch apiFetch awaits, or did: of a request left behind
\* the tab is NoTab.  `sets' are the cookies its answer has still to write, if
\* any.  `emptied' (history): the access cookie a refresh set was gone again
\* before the call went on.
Call == [attempt : {"idle", "first", "refresh", "retry"},
         kind : {"change", "login", "logout"}, tab : Tabs \cup {NoTab},
         at : {"sent", "read", "answered"}, status : {200, 401}, cookies : Cookies,
         sets : SUBSET Cookies, emptied : BOOLEAN]

IdleCall == [attempt |-> "idle", kind |-> "change", tab |-> NoTab, at |-> "sent",
             status |-> 200, cookies |-> EmptyJar, sets |-> {}, emptied |-> FALSE]

-----------------------------------------------------------------------------
(* The API *)

\* authenticate: the token verifies and its session is active.
AccessAccepted(k) == k.access /\ sessions[k.sid].status = "ACTIVE"

\* requireCsrf, then verifyRefreshToken and findActiveById.
RefreshAccepted(k) == k.sid # NoSession /\ sessions[k.sid].status = "ACTIVE"

HashMatches(k) == sessions[k.sid].hash = k.nonce

\* Mutation: only the access token names the session to revoke.
LogoutTargetAccess(k) == IF k.access THEN {k.sid} ELSE {}

\* The refresh cookie, or failing that the access cookie: they come and go
\* together, but the access cookie ends first.
LogoutTarget(k) == IF k.sid # NoSession THEN {k.sid} ELSE {}

\* The answer to a request left behind goes nowhere.
Answered(c, status, sets) ==
  [call EXCEPT ![c] = IF @.tab = NoTab THEN IdleCall
                      ELSE [@ EXCEPT !.at = "answered", !.status = status, !.sets = sets]]

\* Mutation: no access cookie is written.
AuthCookiesRefreshOnly(s, n) == {[sid |-> s, nonce |-> n]}

\* setAuthCookies
AuthCookies(s, n) == {[sid |-> s, nonce |-> n, access |-> TRUE]}

Arrived(c, attempts, kind) ==
  call[c].attempt \in attempts /\ call[c].at = "sent" /\ call[c].kind = kind

ServeChange(c) ==
  /\ Arrived(c, {"first", "retry"}, "change")
  /\ call' = Answered(c, IF AccessAccepted(call[c].cookies) THEN 200 ELSE 401, {})
  /\ UNCHANGED <<sessions, jar, tab, signedOut, disturbed, reused>>

\* Wrong credentials are answered 401 and nothing else happens.
ServeLogin(c) ==
  /\ Arrived(c, {"first"}, "login")
  /\ \/ /\ call' = Answered(c, 401, {})
        /\ UNCHANGED sessions
     \/ \E s \in SessionIds :
          /\ sessions[s].status = "NONE"
          /\ sessions' = [sessions EXCEPT ![s] =
               [status |-> "ACTIVE", hash |-> 1, issued |-> 1]]
          /\ call' = Answered(c, 200, AuthCookies(s, 1))
  /\ UNCHANGED <<jar, tab, signedOut, disturbed, reused>>

Revoked(sids) ==
  [s \in SessionIds |-> IF s \in sids THEN [sessions[s] EXCEPT !.status = "REVOKED"]
                        ELSE sessions[s]]

ServeLogout(c) ==
  /\ Arrived(c, {"first"}, "logout")
  /\ sessions' = Revoked(LogoutTarget(call[c].cookies))
  /\ call' = Answered(c, 200, {EmptyJar})
  /\ UNCHANGED <<jar, tab, signedOut, disturbed, reused>>

RefreshArrived(c) == call[c].attempt = "refresh" /\ call[c].at = "sent"

ServeRefreshRefused(c) ==
  /\ RefreshArrived(c)
  /\ ~RefreshAccepted(call[c].cookies)
  /\ call' = Answered(c, 401, {})
  /\ UNCHANGED <<sessions, jar, tab, signedOut, disturbed, reused>>

\* A superseded token closes the session; the browser keeps its cookies.
ServeRefreshReuse(c) ==
  LET k == call[c].cookies
  IN  /\ RefreshArrived(c)
      /\ RefreshAccepted(k) /\ ~HashMatches(k)
      /\ sessions' = Revoked({k.sid})
      /\ reused' = reused \cup {k.sid}
      /\ call' = Answered(c, 401, {})
      /\ UNCHANGED <<jar, tab, signedOut, disturbed>>

\* The row is read here and updated by id in the next step.
ServeRefreshRead(c) ==
  /\ RefreshArrived(c)
  /\ RefreshAccepted(call[c].cookies) /\ HashMatches(call[c].cookies)
  /\ call' = [call EXCEPT ![c].at = "read"]
  /\ UNCHANGED <<sessions, jar, tab, signedOut, disturbed, reused>>

\* Mutation: the new hash is computed and not stored.
RotatedHashKept(row) == [row EXCEPT !.issued = row.issued + 1]

Rotated(row) == [row EXCEPT !.hash = row.issued + 1, !.issued = row.issued + 1]

ServeRefreshRotate(c) ==
  LET s == call[c].cookies.sid
  IN  /\ call[c].attempt = "refresh" /\ call[c].at = "read"
      /\ sessions' = [sessions EXCEPT ![s] = Rotated(sessions[s])]
      /\ call' = Answered(c, 200, AuthCookies(s, sessions[s].issued + 1))
      /\ disturbed' = (disturbed \/ call[c].tab = NoTab)
      /\ UNCHANGED <<jar, tab, signedOut, reused>>

\* An administrator, or a sign-out on a copy of the cookies, closes a session.
RevokedElsewhere(s) ==
  /\ sessions[s].status = "ACTIVE"
  /\ sessions' = Revoked({s})
  /\ UNCHANGED <<jar, tab, call, signedOut, disturbed, reused>>

\* A refresh whose cookies are stored and whose answer is not yet read.
Refreshed(c) == /\ call[c].attempt = "refresh" /\ call[c].at = "answered"
                /\ call[c].status = 200 /\ call[c].sets = {}

\* What the calls become when the access cookie goes.
Emptied == [c \in Calls |-> IF Refreshed(c) THEN [call[c] EXCEPT !.emptied = TRUE]
                            ELSE call[c]]

\* The access cookie reaches its max-age, JWT_ACCESS_TTL.
AccessExpires ==
  /\ jar.access
  /\ jar' = [jar EXCEPT !.access = FALSE]
  /\ call' = Emptied
  /\ UNCHANGED <<sessions, tab, signedOut, disturbed, reused>>

-----------------------------------------------------------------------------
(* The session query of a tab (GET /me, never refreshed, never retried) *)

\* authenticate looks at the access cookie only.
AccessCookie(k) == IF k.access THEN [k EXCEPT !.nonce = 0] ELSE EmptyJar

Fetching(q, k) == [q EXCEPT !.fetch = "sent", !.cookies = AccessCookie(k)]

\* invalidateQueries: a first fetch under way is kept, a later one replaced.
Invalidated(q, k) == IF q.data = "undefined" /\ q.fetch # "idle" THEN q ELSE Fetching(q, k)

\* Mutation: the data is set but the fetch under way is left alone.
SessionDroppedQuietly(q, k) == [q EXCEPT !.data = "null", !.of = NoSession]

\* setQueryData(null), removeQueries: the fetch under way is abandoned, and
\* the provider, still mounted, asks anew.
SessionDropped(q, k) ==
  Fetching([q EXCEPT !.data = "undefined", !.of = NoSession], k)

IsPending(t) == tab[t].data = "undefined" /\ tab[t].fetch # "idle"

ServeMe(t) ==
  /\ tab[t].fetch = "sent"
  /\ IF AccessAccepted(tab[t].cookies)
     THEN tab' = [tab EXCEPT ![t].fetch = "ok"]
     ELSE tab' = [tab EXCEPT ![t].fetch = "unauthorized", ![t].cookies = EmptyJar]
  /\ UNCHANGED <<sessions, jar, call, signedOut, disturbed, reused>>

MeArrives(t) ==
  /\ tab[t].fetch \in {"ok", "unauthorized"}
  /\ tab' = [tab EXCEPT ![t].fetch = "idle", ![t].cookies = EmptyJar,
                         ![t].data = IF tab[t].fetch = "ok" THEN "user" ELSE "null",
                         ![t].of = tab[t].cookies.sid]
  /\ UNCHANGED <<sessions, jar, call, signedOut, disturbed, reused>>

\* Any other error: the query keeps the data it has.
MeFails(t) ==
  /\ tab[t].fetch # "idle"
  /\ tab' = [tab EXCEPT ![t].fetch = "idle", ![t].cookies = EmptyJar]
  /\ UNCHANGED <<sessions, jar, call, signedOut, disturbed, reused>>

\* The data is older than staleTime and something mounts the query again.
RefetchMe(t) ==
  /\ tab[t].page # "closed" /\ tab[t].fetch = "idle"
  /\ tab' = [tab EXCEPT ![t] = Fetching(tab[t], jar)]
  /\ UNCHANGED <<sessions, jar, call, signedOut, disturbed, reused>>

-----------------------------------------------------------------------------
(* The person *)

OpenTab(t, page) ==
  /\ tab[t].page = "closed"
  /\ tab' = [tab EXCEPT ![t] = Fetching([ClosedTab EXCEPT !.page = page], jar)]
  /\ UNCHANGED <<sessions, jar, call, signedOut, disturbed, reused>>

\* A link of the site: the pages of a tab share the query.
Visit(t, page) ==
  /\ tab[t].page \notin {"closed", page}
  /\ tab' = [tab EXCEPT ![t].page = page]
  /\ UNCHANGED <<sessions, jar, call, signedOut, disturbed, reused>>

\* RequireAuth
Redirected(t) ==
  /\ tab[t].page = "guarded" /\ ~IsPending(t) /\ tab[t].data # "user"
  /\ tab' = [tab EXCEPT ![t].page = "login"]
  /\ UNCHANGED <<sessions, jar, call, signedOut, disturbed, reused>>

\* Of the cookies sent, those the handler looks at.
Sent(kind, attempt, k) ==
  IF attempt = "refresh" THEN [k EXCEPT !.access = FALSE]
  ELSE CASE kind = "login" -> EmptyJar
         [] kind = "logout" -> [k EXCEPT !.nonce = 0]
         [] kind = "change" -> AccessCookie(k)

Attempt(kind, t, attempt, k) ==
  [attempt |-> attempt, kind |-> kind, tab |-> t, at |-> "sent", status |-> 200,
   cookies |-> Sent(kind, attempt, k), sets |-> {}, emptied |-> FALSE]

Start(c, kind, t) ==
  /\ call[c].attempt = "idle"
  /\ call' = [call EXCEPT ![c] = Attempt(kind, t, "first", jar)]
  /\ UNCHANGED <<sessions, jar, tab, signedOut, disturbed, reused>>

Pending(kind, t) == \E c \in Calls : call[c].attempt # "idle" /\ call[c].kind = kind
                                      /\ call[c].tab = t

\* A page behind RequireAuth makes a state-changing call.  MaxTokens bounds the
\* refresh tokens issued and those the calls under way may still cost.
Change(c, t) ==
  LET issued == {token \in SessionIds \X (1 .. MaxTokens) :
                   token[2] <= sessions[token[1]].issued}
      busy == {d \in Calls : call[d].attempt # "idle"}
  IN  /\ Cardinality(issued) + Cardinality(busy) < MaxTokens
      /\ tab[t].page = "guarded" /\ tab[t].data = "user"
      /\ Start(c, "change", t)

\* The login form; its button is disabled while it submits.
SignIn(c, t) ==
  /\ tab[t].page = "login" /\ ~Pending("login", t)
  /\ Start(c, "login", t)

\* The button of AuthNav, never disabled.
SignOut(c, t) ==
  /\ tab[t].page # "closed" /\ tab[t].data = "user"
  /\ Start(c, "logout", t)

-----------------------------------------------------------------------------
(* apiFetch: what it does when the attempt it awaits ends *)

ShouldSkipRefresh(kind) == kind \in {"login", "logout"}

Refreshing(c) == \E d \in Calls \ {c} : call[d].attempt = "refresh"

SendRefresh(c) ==
  /\ call' = [call EXCEPT ![c] = Attempt(call[c].kind, call[c].tab, "refresh", jar)]
  /\ disturbed' = (disturbed \/ Refreshing(c))
  /\ UNCHANGED <<tab, signedOut>>

\* Mutation: the request is built once and sent again as it was.
RetryCookiesStale(c) == call[c].cookies

\* The headers are built anew and fetch takes the cookies of the moment.
RetryCookies(c) == jar

SendRetry(c) ==
  /\ call' = [call EXCEPT ![c] = [Attempt(call[c].kind, call[c].tab, "retry", RetryCookies(c))
                                  EXCEPT !.emptied = call[c].emptied]]
  /\ UNCHANGED <<tab, signedOut, disturbed>>

\* The promise of the call is settled, `ok' or not, and its caller goes on:
\* signIn asks for the session and the form leaves for the dashboard,
\* signOut forgets the session either way and AuthNav leaves if it went well.
Settle(c, ok) ==
  LET t == call[c].tab
      q == tab[t]
      kind == call[c].kind
  IN  /\ tab' = CASE kind = "login" /\ ok ->
                       [tab EXCEPT ![t] = [Invalidated(q, jar) EXCEPT !.page = "guarded"]]
                  [] kind = "logout" ->
                       [tab EXCEPT ![t] = [SessionDropped(q, jar) EXCEPT !.page =
                                             IF ok THEN "public" ELSE q.page]]
                  [] OTHER -> tab
      /\ signedOut' = IF kind = "logout" /\ ok
                      THEN [signedOut EXCEPT ![t] = @ \cup ({call[c].cookies.sid} \ {NoSession})]
                      ELSE signedOut

End(c, ok) ==
  /\ Settle(c, ok)
  /\ call' = [call EXCEPT ![c] = IdleCall]
  /\ UNCHANGED disturbed

MayRefresh(c) == call[c].attempt = "first" /\ ~ShouldSkipRefresh(call[c].kind)

\* Somebody awaits the answer, and it is there.
Awaited(c) == call[c].attempt # "idle" /\ call[c].tab # NoTab /\ call[c].at = "answered"

\* The headers of an answer arrive: its cookies are stored.
Store(c) ==
  /\ Awaited(c)
  /\ jar' \in call[c].sets
  /\ call' = [(IF jar'.access THEN call ELSE Emptied) EXCEPT ![c].sets = {}]
  /\ UNCHANGED <<sessions, tab, signedOut, disturbed, reused>>

\* The code goes on with an answer, after its headers (the 401 that may be
\* cured) or its body.  A refresh that is refused leaves the call with its
\* first answer, the 401.
Resume(c) ==
  /\ Awaited(c) /\ call[c].sets = {}
  /\ \/ call[c].status = 401 /\ MayRefresh(c) /\ SendRefresh(c)
     \/ call[c].status = 200 /\ call[c].attempt = "refresh" /\ SendRetry(c)
     \/ call[c].status = 401 /\ ~MayRefresh(c) /\ End(c, FALSE)
     \/ call[c].status = 200 /\ call[c].attempt # "refresh" /\ End(c, TRUE)
  /\ UNCHANGED <<sessions, jar, reused>>

\* fetch, or the reading of the body, rejects: an answer is lost, or the
\* connection while the request is still under way.  Only a refresh left behind
\* is kept: a change would do nothing to what is modelled, a sign-out what
\* RevokedElsewhere does, and a sign-in opens a session nobody has cookies of.
Lose(c) ==
  /\ call[c].attempt # "idle" /\ call[c].tab # NoTab
  /\ Settle(c, FALSE)
  /\ call' = [call EXCEPT ![c] =
       IF call[c].attempt = "refresh" /\ call[c].at # "answered"
       THEN [call[c] EXCEPT !.tab = NoTab] ELSE IdleCall]
  /\ disturbed' = (disturbed \/ (call[c].attempt = "refresh" /\ call[c].sets # {}))
  /\ UNCHANGED <<sessions, jar, reused>>

\* A request left behind never reaches the API.
Vanish(c) ==
  /\ call[c].attempt # "idle" /\ call[c].tab = NoTab /\ call[c].at = "sent"
  /\ call' = [call EXCEPT ![c] = IdleCall]
  /\ UNCHANGED <<sessions, jar, tab, signedOut, disturbed, reused>>

-----------------------------------------------------------------------------
Init ==
  /\ sessions = [s \in SessionIds |-> [status |-> "NONE", hash |-> 0, issued |-> 0]]
  /\ jar = EmptyJar
  /\ tab = [t \in Tabs |-> ClosedTab]
  /\ call = [c \in Calls |-> IdleCall]
  /\ signedOut = [t \in Tabs |-> {}]
  /\ disturbed = FALSE
  /\ reused = {}

ServeRefresh(c) ==
  ServeRefreshRefused(c) \/ ServeRefreshReuse(c) \/ ServeRefreshRead(c) \/ ServeRefreshRotate(c)

Serve(c) == ServeChange(c) \/ ServeLogin(c) \/ ServeLogout(c) \/ ServeRefresh(c)

Next ==
  \/ \E c \in Calls : Serve(c) \/ Store(c) \/ Resume(c) \/ Lose(c) \/ Vanish(c)
  \/ \E c \in Calls, t \in Tabs : Change(c, t) \/ SignIn(c, t) \/ SignOut(c, t)
  \/ \E t \in Tabs : ServeMe(t) \/ MeArrives(t) \/ MeFails(t) \/ RefetchMe(t) \/ Redirected(t)
  \/ \E t \in Tabs, page \in {"public", "login", "guarded"} :
       OpenTab(t, page) \/ Visit(t, page)
  \/ \E s \in SessionIds : RevokedElsewhere(s)
  \/ AccessExpires

Spec == Init /\ [][Next]_vars

-----------------------------------------------------------------------------
(* Properties *)

\* Every variable has its type: a jar, and what an answer writes to
\* it, has all the cookies of one session.
TypeOK ==
  /\ sessions \in [SessionIds -> SessionRow]
  /\ jar \in Cookies
  /\ tab \in [Tabs -> Tab]
  /\ call \in [Calls -> Call]
  /\ signedOut \in [Tabs -> SUBSET SessionIds]
  /\ disturbed \in BOOLEAN
  /\ reused \in SUBSET SessionIds

\* The reuse detection of the API never closes the session of a well-behaved
\* client: it takes two refreshes at the same time (client.ts has no lock
\* around refreshSession) or the loss of the answer to one.
ReuseNeedsDisturbance == reused # {} => disturbed

\* A sign-out that a tab saw succeed is final: its session stays closed
\* whatever refreshes and sign-ins of the other tabs were under way.
SignOutIsFinal ==
  \A t \in Tabs : \A s \in signedOut[t] : sessions[s].status = "REVOKED"

\* A tab that signed out does not come to show the person again from an
\* answer to a /me that left before (auth-provider.tsx signOut).
SignedOutTabForgets == \A t \in Tabs : tab[t].of \notin signedOut[t]

\* After a refresh that succeeded, the call is refused only because the
\* session its retry names is closed, or because the access cookie was gone
\* before the retry left: it expired, or the answer to a sign-out came in
\* between (client.ts, headers built per attempt).
RetryRefusedOnlyIfClosed ==
  \A c \in Calls :
    (call[c].attempt = "retry" /\ call[c].at = "answered" /\ call[c].status = 401)
      => \/ call[c].emptied
         \/ call[c].cookies.sid # NoSession /\ sessions[call[c].cookies.sid].status = "REVOKED"
=============================================================================
