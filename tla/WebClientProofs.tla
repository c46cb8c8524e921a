--------------------------- MODULE WebClientProofs ---------------------------
(***************************************************************************)
(* Theorems about module WebClient: the reuse detection spares an          *)
(* undisturbed browser, a sign-out is final, and a retry is refused only   *)
(* for a closed session or for want of the access cookie, for any number   *)
(* of tabs, calls and sessions; and the API of that module keeps the       *)
(* promises of SessionLifecycle.                                           *)
(*                                                                         *)
(* The parts of the invariant take the state they speak of as arguments,   *)
(* so that what a step leaves alone carries over by one lemma each.        *)
(***************************************************************************)
EXTENDS WebClient, TLAPS

\* Cookies name a session that was opened, if any, and the access cookie
\* never outlives the others.
Known(k, ss) ==
  /\ k.access => k.sid # NoSession
  /\ k.sid # NoSession => ss[k.sid].status # "NONE"

\* What an attempt may have been answered.  Only changes are refreshed, and
\* only a refresh, a sign-in and a sign-out write cookies.
Answers(x) ==
  /\ x.attempt \in {"refresh", "retry"} => x.kind = "change"
  /\ x.at # "answered" \/ x.status = 401 => x.sets = {}
  /\ x.kind = "change" /\ x.attempt # "refresh" => x.sets = {}
  /\ x.kind = "logout" => \A k \in x.sets : k = EmptyJar
  /\ x.kind = "login" => \A k \in x.sets : k.sid # NoSession
  /\ x.at = "answered" /\ x.status = 200 /\ x.attempt = "refresh" =>
       \A k \in x.sets : k.access
  /\ x.at = "read" => x.attempt = "refresh" /\ x.cookies.sid # NoSession

\* A retry leaves with an access cookie, unless it went since the refresh.
RetryGood(x, ss) ==
  x.attempt = "retry" /\ ~x.emptied =>
    /\ x.cookies.access
    /\ x.at = "answered" /\ x.status = 401 => ss[x.cookies.sid].status = "REVOKED"

\* So does the jar keep one while the answer of a refresh is being read.
RefreshedGood(x, k) ==
  x.attempt = "refresh" /\ x.at = "answered" /\ x.status = 200 /\ x.sets = {} =>
    x.emptied \/ k.access

\* A sign-out is answered once its session is closed.
SignOutGood(x, ss) ==
  x.at = "answered" /\ x.status = 200 /\ x.kind = "logout" /\ x.cookies.sid # NoSession
    => ss[x.cookies.sid].status = "REVOKED"

CallGood(x, ss) ==
  /\ Known(x.cookies, ss) /\ \A k \in x.sets : Known(k, ss)
  /\ Answers(x) /\ RetryGood(x, ss) /\ SignOutGood(x, ss)

\* What a tab shows, and is about to show, is no session it signed out of.
TabGood(q, outs, ss) ==
  /\ Known(q.cookies, ss)
  /\ \A s \in outs : ss[s].status = "REVOKED"
  /\ q.of \notin outs
  /\ q.fetch \in {"ok", "unauthorized"} => q.cookies.sid \notin outs

Good ==
  /\ Known(jar, sessions)
  /\ \A c \in Calls : CallGood(call[c], sessions) /\ RefreshedGood(call[c], jar)
  /\ \A t \in Tabs : TabGood(tab[t], signedOut[t], sessions)

Matches(k, ss) == k.sid # NoSession => ss[k.sid].hash = k.nonce

\* The token a refresh presents, and every token on its way, is the current one.
CallCurrent(x, ss) ==
  /\ x.attempt = "refresh" /\ x.at # "answered" => Matches(x.cookies, ss)
  /\ \A k \in x.sets : Matches(k, ss)

OneRefresh(calls) ==
  \A c, d \in Calls : calls[c].attempt = "refresh" /\ calls[d].attempt = "refresh" => c = d

\* So is the one in the jar, unless its successor is on its way.
JarCurrent(k, calls, ss) ==
  \/ Matches(k, ss)
  \/ \E c \in Calls : calls[c].attempt = "refresh" /\ \E n \in calls[c].sets : n.sid = k.sid

\* A call does not know session s.
Unaware(x, s) ==
  /\ x.attempt = "refresh" => x.cookies.sid # s
  /\ \A k \in x.sets : k.sid # s

\* A session just signed in to is known to nobody but the answer.
NewSession(k, calls) ==
  \A c \in Calls : calls[c].kind = "login" => \A n \in calls[c].sets :
    k.sid # n.sid /\ \A d \in Calls \ {c} : Unaware(calls[d], n.sid)

Current ==
  /\ \A c \in Calls : CallCurrent(call[c], sessions)
  /\ OneRefresh(call)
  /\ JarCurrent(jar, call, sessions)
  /\ NewSession(jar, call)

Undisturbed == ~disturbed => reused = {} /\ Current

Inv == TypeOK /\ Good /\ Undisturbed

-----------------------------------------------------------------------------
USE ClientConstants

\* A session closes for good, and is never forgotten.
Later(ss, tt) ==
  \A s \in SessionIds :
    /\ ss[s].status # "NONE" => tt[s].status # "NONE"
    /\ ss[s].status = "REVOKED" => tt[s].status = "REVOKED"

LEMMA KnownKept ==
  ASSUME NEW ss, NEW tt, Later(ss, tt), NEW k \in Cookies, Known(k, ss)
  PROVE  Known(k, tt)
  BY DEF Later, Cookies, Known

LEMMA CallKept ==
  ASSUME NEW ss, NEW tt, Later(ss, tt), NEW x \in Call, CallGood(x, ss)
  PROVE  CallGood(x, tt)
  <1>1. x.cookies \in Cookies /\ x.sets \in SUBSET Cookies
    BY DEF Call
  <1>2. Known(x.cookies, tt) /\ \A k \in x.sets : Known(k, tt)
    BY <1>1, KnownKept DEF CallGood
  <1>3. RetryGood(x, tt)
    <2>1. x.attempt = "retry" /\ ~x.emptied =>
            x.cookies.access /\ x.cookies.sid \in SessionIds
      BY <1>1 DEF CallGood, RetryGood, Known, Cookies
    <2> QED
      BY <2>1 DEF CallGood, RetryGood, Later
  <1>4. SignOutGood(x, tt)
    <2>1. x.cookies.sid # NoSession => x.cookies.sid \in SessionIds
      BY <1>1 DEF Cookies
    <2> QED
      BY <2>1 DEF CallGood, SignOutGood, Later
  <1> QED
    BY <1>2, <1>3, <1>4 DEF CallGood

LEMMA TabKept ==
  ASSUME NEW ss, NEW tt, Later(ss, tt), NEW q \in Tab, NEW outs \in SUBSET SessionIds,
         TabGood(q, outs, ss)
  PROVE  TabGood(q, outs, tt)
  <1>1. Known(q.cookies, tt)
    BY KnownKept DEF TabGood, Tab
  <1> QED
    BY <1>1 DEF TabGood, Later

\* What a step makes of a call.
Becomes(c, x) == call' = [call EXCEPT ![c] = x]

\* A step of the API for one call, as far as the state is good.
LEMMA CallStepGood ==
  ASSUME TypeOK, Good, NEW c \in Calls, NEW x \in Call,
         Becomes(c, x),
         sessions' \in [SessionIds -> SessionRow], Later(sessions, sessions'),
         CallGood(x, sessions'), RefreshedGood(x, jar), disturbed' \in BOOLEAN,
         reused' \in SUBSET SessionIds, UNCHANGED <<jar, tab, signedOut>>
  PROVE  TypeOK' /\ Good'
  <1>1. TypeOK'
    BY DEF TypeOK, Becomes
  <1>2. Known(jar', sessions')
    BY KnownKept DEF TypeOK, Good
  <1>3. \A d \in Calls : CallGood(call'[d], sessions') /\ RefreshedGood(call'[d], jar')
    <2> SUFFICES ASSUME NEW d \in Calls
                 PROVE  CallGood(call'[d], sessions') /\ RefreshedGood(call'[d], jar')
      OBVIOUS
    <2>1. CASE d = c
      BY <2>1 DEF TypeOK, Becomes
    <2>2. CASE d # c
      <3>1. /\ call'[d] = call[d] /\ call[d] \in Call /\ CallGood(call[d], sessions)
            /\ RefreshedGood(call[d], jar)
        BY <2>2 DEF TypeOK, Good, Becomes
      <3> QED
        BY <3>1, CallKept
    <2> QED
      BY <2>1, <2>2
  <1>4. \A t \in Tabs : TabGood(tab'[t], signedOut'[t], sessions')
    <2> SUFFICES ASSUME NEW t \in Tabs PROVE TabGood(tab'[t], signedOut'[t], sessions')
      OBVIOUS
    <2>1. tab[t] \in Tab /\ signedOut[t] \in SUBSET SessionIds
          /\ TabGood(tab[t], signedOut[t], sessions)
      BY DEF TypeOK, Good
    <2> QED
      BY <2>1, TabKept
  <1> QED
    BY <1>1, <1>2, <1>3, <1>4 DEF Good

LEMMA SameSessions ==
  ASSUME TypeOK, sessions' = sessions
  PROVE  sessions' \in [SessionIds -> SessionRow] /\ Later(sessions, sessions')
  BY DEF TypeOK, Later

LEMMA RevokedIs ==
  ASSUME TypeOK, NEW sids, sessions' = Revoked(sids)
  PROVE  /\ sessions' \in [SessionIds -> SessionRow]
         /\ Later(sessions, sessions')
         /\ \A s \in SessionIds : s \in sids => sessions'[s].status = "REVOKED"
         /\ \A s \in SessionIds : sessions'[s].hash = sessions[s].hash
  <1>1. \A s \in SessionIds : sessions[s] \in SessionRow
    BY DEF TypeOK
  <1>2. \A s \in SessionIds : [sessions[s] EXCEPT !.status = "REVOKED"] \in SessionRow
    BY <1>1 DEF SessionRow
  <1>3. \A s \in SessionIds :
          /\ [sessions[s] EXCEPT !.status = "REVOKED"].status = "REVOKED"
          /\ [sessions[s] EXCEPT !.status = "REVOKED"].hash = sessions[s].hash
    BY <1>1 DEF SessionRow
  <1>4. \A s \in SessionIds :
          sessions'[s] = IF s \in sids THEN [sessions[s] EXCEPT !.status = "REVOKED"]
                         ELSE sessions[s]
    BY DEF Revoked
  <1>5. sessions' \in [SessionIds -> SessionRow]
    BY <1>1, <1>2, <1>4 DEF Revoked
  <1> QED
    BY <1>3, <1>4, <1>5 DEF Later

\* Tokens stay current while no hash changes.
LEMMA SameHashes ==
  ASSUME NEW ss, NEW tt, \A s \in SessionIds : tt[s].hash = ss[s].hash
  PROVE  /\ \A k \in Cookies : Matches(k, ss) => Matches(k, tt)
         /\ \A x \in Call : CallCurrent(x, ss) => CallCurrent(x, tt)
  <1>1. \A k \in Cookies : Matches(k, ss) => Matches(k, tt)
    BY DEF Cookies, Matches
  <1>2. \A x \in Call : x.cookies \in Cookies /\ x.sets \in SUBSET Cookies
    BY DEF Call
  <1> QED
    BY <1>1, <1>2 DEF CallCurrent

-----------------------------------------------------------------------------
(* The API *)

Result(x, status, sets) == [x EXCEPT !.at = "answered", !.status = status, !.sets = sets]

Fields(tabs, statuses, answers) ==
  [attempt : {"idle", "first", "refresh", "retry"}, kind : {"change", "login", "logout"},
   tab : tabs, at : {"sent", "read", "answered"}, status : statuses, cookies : Cookies,
   sets : answers, emptied : BOOLEAN]

LEMMA CallIsFields == Call = Fields(Tabs \cup {NoTab}, {200, 401}, SUBSET Cookies)
  BY Zenon DEF Call, Fields

LEMMA ResultFields ==
  ASSUME NEW tabs, NEW statuses, NEW answers, NEW x \in Fields(tabs, statuses, answers),
         NEW status \in statuses, NEW sets \in answers
  PROVE  Result(x, status, sets) \in Fields(tabs, statuses, answers)
  BY DEF Result, Fields

LEMMA ResultIs ==
  ASSUME NEW x \in Call, NEW status \in {200, 401}, NEW sets \in SUBSET Cookies
  PROVE  /\ Result(x, status, sets) \in Call
         /\ Result(x, status, sets).at = "answered"
         /\ Result(x, status, sets).status = status
         /\ Result(x, status, sets).sets = sets
         /\ Result(x, status, sets).attempt = x.attempt
         /\ Result(x, status, sets).kind = x.kind
         /\ Result(x, status, sets).cookies = x.cookies
         /\ Result(x, status, sets).emptied = x.emptied
  <1>1. /\ Result(x, status, sets).at = "answered"
        /\ Result(x, status, sets).status = status
        /\ Result(x, status, sets).sets = sets
        /\ Result(x, status, sets).attempt = x.attempt
        /\ Result(x, status, sets).kind = x.kind
        /\ Result(x, status, sets).cookies = x.cookies
        /\ Result(x, status, sets).emptied = x.emptied
    BY DEF Result, Call
  <1> DEFINE tabs == Tabs \cup {NoTab}
             statuses == {200, 401}
             answers == SUBSET Cookies
  <1>2. x \in Fields(tabs, statuses, answers) /\ status \in statuses /\ sets \in answers
    BY CallIsFields, Zenon
  <1>3. Call = Fields(tabs, statuses, answers)
    BY CallIsFields, Zenon
  <1> HIDE DEF tabs, statuses, answers
  <1>4. Result(x, status, sets) \in Fields(tabs, statuses, answers)
    BY <1>2, ResultFields
  <1> QED
    BY <1>1, <1>3, <1>4

LEMMA EmptyJarType == EmptyJar \in Cookies /\ EmptyJar.sid = NoSession /\ ~EmptyJar.access
  BY DEF EmptyJar, Cookies

\* A call moves on and no token is written: everything stays current.
LEMMA CallStepCurrent ==
  ASSUME TypeOK, Good, Current, NEW c \in Calls, NEW x \in Call,
         Becomes(c, x),
         x.attempt = call[c].attempt, x.kind = call[c].kind, x.cookies = call[c].cookies,
         x.at # "answered" => call[c].at # "answered",
         call[c].sets = {}, x.sets \in SUBSET {EmptyJar}, x.kind = "login" => x.sets = {},
         \A s \in SessionIds : sessions'[s].hash = sessions[s].hash, jar' = jar
  PROVE  Current'
  <1>1. \A d \in Calls : call[d] \in Call /\ call'[d] = IF d = c THEN x ELSE call[d]
    BY DEF TypeOK, Becomes
  <1>2. \A d \in Calls : CallCurrent(call'[d], sessions')
    <2>1. CallCurrent(x, sessions')
      <3>1. x.attempt = "refresh" /\ x.at # "answered" => Matches(x.cookies, sessions)
        BY DEF Current, CallCurrent
      <3>2. x.cookies \in Cookies
        BY DEF Call
      <3>3. \A k \in x.sets : Matches(k, sessions')
        BY EmptyJarType DEF Matches
      <3> QED
        BY <3>1, <3>2, <3>3, SameHashes DEF CallCurrent
    <2>2. \A d \in Calls : CallCurrent(call[d], sessions')
      BY <1>1, SameHashes DEF Current
    <2> QED
      BY <1>1, <2>1, <2>2
  <1>3. OneRefresh(call')
    BY <1>1 DEF Current, OneRefresh
  <1>4. JarCurrent(jar', call', sessions')
    <2>1. jar \in Cookies
      BY DEF TypeOK
    <2>2. CASE Matches(jar, sessions)
      BY <2>1, <2>2, SameHashes DEF JarCurrent
    <2>3. CASE \E d \in Calls : call[d].attempt = "refresh"
                 /\ \E n \in call[d].sets : n.sid = jar.sid
      <3>1. PICK d \in Calls : call[d].attempt = "refresh"
                 /\ \E n \in call[d].sets : n.sid = jar.sid
        BY <2>3
      <3>2. call'[d] = call[d]
        BY <1>1, <3>1
      <3> QED
        BY <3>1, <3>2 DEF JarCurrent
    <2> QED
      BY <2>2, <2>3 DEF Current, JarCurrent
  <1>5. NewSession(jar', call')
    <2> SUFFICES ASSUME NEW d \in Calls, call'[d].kind = "login", NEW n \in call'[d].sets
        PROVE  jar.sid # n.sid /\ \A e \in Calls \ {d} : Unaware(call'[e], n.sid)
      BY DEF NewSession
    <2>1. d # c /\ call'[d] = call[d]
      BY <1>1
    <2>2. jar.sid # n.sid /\ \A e \in Calls \ {d} : Unaware(call[e], n.sid)
      BY <2>1 DEF Current, NewSession
    <2>3. n.sid # NoSession
      BY <2>1 DEF Good, CallGood, Answers
    <2>4. c # d => Unaware(x, n.sid)
      BY <2>2, <2>3, EmptyJarType DEF Unaware
    <2> QED
      BY <1>1, <2>1, <2>2, <2>4
  <1> QED
    BY <1>2, <1>3, <1>4, <1>5 DEF Current

LEMMA IdleCallIs ==
  /\ IdleCall \in Call /\ IdleCall.attempt = "idle" /\ IdleCall.kind = "change"
  /\ IdleCall.at = "sent" /\ IdleCall.cookies = EmptyJar /\ IdleCall.sets = {}
  /\ ~IdleCall.emptied
  <1>1. IdleCall \in Call
    BY EmptyJarType DEF IdleCall, Call
  <1> QED
    BY <1>1 DEF IdleCall

\* A call that is new, or over, is good.
LEMMA NewCallGood ==
  ASSUME NEW x \in Call, NEW ss, Known(x.cookies, ss), x.at = "sent", x.sets = {},
         x.attempt \in {"refresh", "retry"} => x.kind = "change",
         x.attempt = "retry" => x.emptied \/ x.cookies.access
  PROVE  CallGood(x, ss)
  BY DEF CallGood, Answers, RetryGood, SignOutGood

LEMMA IdleGood ==
  ASSUME NEW ss, NEW k
  PROVE  CallGood(IdleCall, ss) /\ RefreshedGood(IdleCall, k)
  BY IdleCallIs, EmptyJarType, NewCallGood DEF Known, RefreshedGood

\* Two calls that differ in nothing but who awaits them and what is remembered.
Alike(x, y) ==
  /\ y \in Call /\ y.attempt = x.attempt /\ y.kind = x.kind
  /\ y.at = x.at /\ y.status = x.status /\ y.cookies = x.cookies /\ y.sets = x.sets
  /\ x.emptied => y.emptied

LEMMA AlikeGood ==
  ASSUME NEW x \in Call, NEW y, Alike(x, y), NEW ss, CallGood(x, ss)
  PROVE  CallGood(y, ss)
  BY DEF Alike, CallGood, Answers, RetryGood, SignOutGood

LEMMA AlikeCurrent ==
  ASSUME NEW x, NEW y, Alike(x, y), NEW ss
  PROVE  /\ CallCurrent(x, ss) => CallCurrent(y, ss)
         /\ \A s : Unaware(x, s) => Unaware(y, s)
  BY DEF Alike, CallCurrent, Unaware

\* A call gives way to the next attempt, or ends: its answer is in the jar, or
\* it had none to a refresh.
LEMMA ReplacedCurrent ==
  ASSUME TypeOK, Current, NEW c \in Calls, NEW x \in Call,
         call'[c] = x, x.sets = {},
         \A d \in Calls \ {c} : Alike(call[d], call'[d]),
         \A s \in SessionIds : sessions'[s].hash = sessions[s].hash,
         \/ jar' = jar /\ (call[c].attempt = "refresh" => call[c].sets = {})
         \/ jar' \in call[c].sets,
         x.attempt = "refresh" =>
           \/ /\ x.cookies.sid = jar.sid /\ x.cookies.nonce = jar.nonce /\ call[c].sets = {}
              /\ jar' = jar
              /\ \A d \in Calls \ {c} : call[d].attempt # "refresh"
           \/ call[c].attempt = "refresh" /\ x.at = "answered" /\ x.cookies = call[c].cookies
           \/ Alike(call[c], x)
  PROVE  Current'
  <1>0. /\ \A d \in Calls : call[d] \in Call
        /\ jar \in Cookies /\ jar' \in Cookies
        /\ \A k \in Cookies : Matches(k, sessions) => Matches(k, sessions')
        /\ \A y \in Call : CallCurrent(y, sessions) => CallCurrent(y, sessions')
    <2>1. /\ \A d \in Calls : call[d] \in Call
          /\ jar \in Cookies /\ call[c].sets \in SUBSET Cookies
      BY DEF TypeOK, Call
    <2> QED
      BY <2>1, SameHashes
  <1>1. \A d \in Calls \ {c} :
          /\ call'[d] \in Call /\ call'[d].attempt = call[d].attempt
          /\ call'[d].kind = call[d].kind /\ call'[d].sets = call[d].sets
          /\ CallCurrent(call[d], sessions) => CallCurrent(call'[d], sessions)
          /\ \A s : Unaware(call[d], s) => Unaware(call'[d], s)
    <2> SUFFICES ASSUME NEW d \in Calls \ {c}
                 PROVE  /\ call'[d] \in Call /\ call'[d].attempt = call[d].attempt
                        /\ call'[d].kind = call[d].kind /\ call'[d].sets = call[d].sets
                        /\ CallCurrent(call[d], sessions) => CallCurrent(call'[d], sessions)
                        /\ \A s : Unaware(call[d], s) => Unaware(call'[d], s)
      OBVIOUS
    <2>1. Alike(call[d], call'[d])
      OBVIOUS
    <2> QED
      BY <2>1, AlikeCurrent DEF Alike
  <1>2. \A d \in Calls : CallCurrent(call'[d], sessions')
    <2>1. x.attempt = "refresh" /\ x.at # "answered" => Matches(x.cookies, sessions)
      <3>1. CASE /\ x.cookies.sid = jar.sid /\ x.cookies.nonce = jar.nonce
                 /\ call[c].sets = {} /\ \A d \in Calls \ {c} : call[d].attempt # "refresh"
        <4>1. Matches(jar, sessions)
          BY <3>1 DEF Current, JarCurrent
        <4> QED
          BY <3>1, <4>1 DEF Matches
      <3>2. CASE Alike(call[c], x)
        <4>1. CallCurrent(call[c], sessions)
          BY DEF Current
        <4> QED
          BY <3>2, <4>1, AlikeCurrent DEF CallCurrent
      <3> QED
        BY <3>1, <3>2
    <2>2. CallCurrent(x, sessions)
      BY <2>1 DEF CallCurrent
    <2>3. \A d \in Calls \ {c} : CallCurrent(call'[d], sessions)
      BY <1>1 DEF Current
    <2> QED
      BY <1>0, <1>1, <2>2, <2>3
  <1>3. OneRefresh(call')
    <2>1. OneRefresh(call)
      BY DEF Current
    <2> QED
      BY <1>1, <2>1 DEF OneRefresh, Alike
  <1>4. JarCurrent(jar', call', sessions')
    <2>1. CASE jar' \in call[c].sets
      BY <1>0, <2>1 DEF Current, CallCurrent, JarCurrent
    <2>2. CASE jar' = jar /\ (call[c].attempt = "refresh" => call[c].sets = {})
      <3>1. CASE Matches(jar, sessions)
        BY <1>0, <2>2, <3>1 DEF JarCurrent
      <3>2. CASE \E d \in Calls : call[d].attempt = "refresh"
                   /\ \E n \in call[d].sets : n.sid = jar.sid
        <4>1. PICK d \in Calls : call[d].attempt = "refresh"
                     /\ \E n \in call[d].sets : n.sid = jar.sid
          BY <3>2
        <4>2. call'[d].attempt = "refresh" /\ call'[d].sets = call[d].sets
          BY <1>1, <2>2, <4>1
        <4> QED
          BY <2>2, <4>1, <4>2 DEF JarCurrent
      <3> QED
        BY <3>1, <3>2 DEF Current, JarCurrent
    <2> QED
      BY <2>1, <2>2
  <1>5. NewSession(jar', call')
    <2> SUFFICES ASSUME NEW d \in Calls, call'[d].kind = "login", NEW n \in call'[d].sets
        PROVE  jar'.sid # n.sid /\ \A e \in Calls \ {d} : Unaware(call'[e], n.sid)
      BY DEF NewSession
    <2>1. d # c /\ call[d].kind = "login" /\ n \in call[d].sets
      BY <1>1
    <2>2. jar.sid # n.sid /\ \A e \in Calls \ {d} : Unaware(call[e], n.sid)
      BY <2>1 DEF Current, NewSession
    <2>3. jar'.sid # n.sid
      BY <2>1, <2>2 DEF Unaware
    <2>4. Unaware(x, n.sid)
      BY <2>1, <2>2 DEF Unaware, Alike
    <2>5. \A e \in Calls \ {c, d} : Unaware(call'[e], n.sid)
      BY <1>1, <2>2
    <2> QED
      BY <2>3, <2>4, <2>5
  <1> QED
    BY <1>2, <1>3, <1>4, <1>5 DEF Current

\* What a request becomes when it is answered: nothing, if it was left behind.
Served(x, status, sets) == IF x.tab = NoTab THEN IdleCall ELSE Result(x, status, sets)

LEMMA AnsweredIs ==
  ASSUME TypeOK, NEW c \in Calls, NEW status \in {200, 401}, NEW sets \in SUBSET Cookies
  PROVE  /\ call[c] \in Call
         /\ Served(call[c], status, sets) \in Call
         /\ Answered(c, status, sets) = [call EXCEPT ![c] = Served(call[c], status, sets)]
  <1>1. call[c] \in Call
    BY DEF TypeOK
  <1>2. Served(call[c], status, sets) \in Call
    BY <1>1, ResultIs, IdleCallIs DEF Served
  <1> QED
    BY <1>1, <1>2 DEF Answered, Served, Result

\* An answer that writes no token, to a request that had no answer.
LEMMA AnswerStep ==
  ASSUME Inv, NEW c \in Calls, call[c].at = "sent",
         NEW status \in {200, 401}, NEW sets \in SUBSET {EmptyJar},
         sets # {} => call[c].kind = "logout" /\ call[c].attempt = "first",
         status = 401 => sets = {},
         status = 200 => call[c].attempt # "refresh",
         call[c].kind = "logout" /\ status = 200 =>
           sets # {} /\ (call[c].cookies.sid # NoSession =>
                           sessions'[call[c].cookies.sid].status = "REVOKED"),
         call[c].attempt = "retry" /\ status = 401 /\ ~call[c].emptied =>
           sessions'[call[c].cookies.sid].status = "REVOKED",
         call' = Answered(c, status, sets),
         sessions' \in [SessionIds -> SessionRow], Later(sessions, sessions'),
         \A s \in SessionIds : sessions'[s].hash = sessions[s].hash,
         UNCHANGED <<jar, tab, signedOut, disturbed, reused>>
  PROVE  Inv'
  <1> DEFINE x == Served(call[c], status, sets)
  <1>0. TypeOK /\ Good /\ (~disturbed => reused = {} /\ Current)
    BY DEF Inv, Undisturbed
  <1>1. sets \in SUBSET Cookies
    BY EmptyJarType
  <1>2. /\ call[c] \in Call /\ x \in Call /\ Becomes(c, x)
    BY <1>0, <1>1, AnsweredIs DEF Becomes
  <1>3. \/ x = IdleCall
        \/ /\ x.at = "answered" /\ x.status = status /\ x.sets = sets
           /\ x.attempt = call[c].attempt /\ x.kind = call[c].kind
           /\ x.cookies = call[c].cookies /\ x.emptied = call[c].emptied
    BY <1>1, <1>2, ResultIs DEF Served
  <1> HIDE DEF x
  <1>4. CallGood(call[c], sessions) /\ call[c].cookies \in Cookies
    BY <1>0, <1>2 DEF Good, Call
  <1>5. CallGood(x, sessions') /\ RefreshedGood(x, jar)
    <2>0. CASE x = IdleCall
      BY <2>0, IdleGood
    <2> SUFFICES ASSUME x # IdleCall PROVE CallGood(x, sessions') /\ RefreshedGood(x, jar)
      BY <2>0
    <2>1. Known(x.cookies, sessions')
      BY <1>3, <1>4, KnownKept DEF CallGood
    <2>2. \A k \in x.sets : Known(k, sessions')
      BY <1>3, EmptyJarType DEF Known
    <2>3. Answers(x)
      BY <1>3, <1>4, EmptyJarType DEF CallGood, Answers
    <2>4. RetryGood(x, sessions') /\ SignOutGood(x, sessions') /\ RefreshedGood(x, jar)
      BY <1>3, <1>4 DEF CallGood, RetryGood, SignOutGood, RefreshedGood
    <2> QED
      BY <2>1, <2>2, <2>3, <2>4 DEF CallGood
  <1>6. reused' \in SUBSET SessionIds /\ disturbed' \in BOOLEAN
    BY <1>0 DEF TypeOK
  <1>7. TypeOK' /\ Good'
    BY <1>0, <1>2, <1>5, <1>6, CallStepGood
  <1>8. ~disturbed => reused' = {} /\ Current'
    <2>1. call[c].sets = {}
      BY <1>4 DEF CallGood, Answers
    <2>2. CASE x = IdleCall
      <3>1. \A d \in Calls \ {c} : Alike(call[d], call'[d])
        BY <1>0, <1>2 DEF TypeOK, Becomes, Alike
      <3>2. call'[c] = x
        BY <1>0, <1>2 DEF TypeOK, Becomes
      <3>3. x.attempt # "refresh" /\ x.sets = {}
        BY <2>2, IdleCallIs
      <3> QED
        BY <1>0, <1>2, <2>1, <3>1, <3>2, <3>3, ReplacedCurrent
    <2>3. CASE x # IdleCall
      <3>1. x.kind = "login" => x.sets = {}
        BY <1>3, <2>3
      <3> QED
        BY <1>0, <1>2, <1>3, <2>1, <2>3, <3>1, CallStepCurrent
    <2> QED
      BY <2>2, <2>3
  <1> QED
    BY <1>7, <1>8 DEF Inv, Undisturbed

LEMMA ServeChangeStep ==
  ASSUME Inv, NEW c \in Calls, ServeChange(c)
  PROVE  Inv'
  <1> DEFINE status == IF AccessAccepted(call[c].cookies) THEN 200 ELSE 401
  <1>0. TypeOK /\ call[c] \in Call /\ CallGood(call[c], sessions)
    BY DEF Inv, Good, TypeOK
  <1>1. /\ call[c].at = "sent" /\ call[c].attempt \in {"first", "retry"}
        /\ call[c].kind = "change" /\ call' = Answered(c, status, {})
        /\ status \in {200, 401} /\ {} \in SUBSET {EmptyJar}
        /\ UNCHANGED <<sessions, jar, tab, signedOut, disturbed, reused>>
    BY DEF ServeChange, Arrived
  <1>2. call[c].attempt = "retry" /\ status = 401 /\ ~call[c].emptied =>
          sessions'[call[c].cookies.sid].status = "REVOKED"
    <2> SUFFICES ASSUME call[c].attempt = "retry", status = 401, ~call[c].emptied
        PROVE  sessions[call[c].cookies.sid].status = "REVOKED"
      BY <1>1
    <2>1. call[c].cookies.access /\ Known(call[c].cookies, sessions)
      BY <1>0 DEF CallGood, RetryGood
    <2>2. sessions[call[c].cookies.sid].status \notin {"NONE", "ACTIVE"}
      BY <2>1 DEF AccessAccepted, Known
    <2>3. call[c].cookies.sid \in SessionIds
      BY <1>0, <2>1 DEF Known, Call, Cookies
    <2> QED
      BY <1>0, <2>2, <2>3 DEF TypeOK, SessionRow
  <1> HIDE DEF status
  <1>3. /\ sessions' \in [SessionIds -> SessionRow] /\ Later(sessions, sessions')
    BY <1>0, <1>1, SameSessions
  <1> QED
    BY <1>1, <1>2, <1>3, AnswerStep

LEMMA ServeLogoutStep ==
  ASSUME Inv, NEW c \in Calls, ServeLogout(c)
  PROVE  Inv'
  <1> DEFINE sids == LogoutTarget(call[c].cookies)
  <1>0. TypeOK /\ call[c] \in Call
    BY DEF Inv, TypeOK
  <1>1. /\ call[c].at = "sent" /\ call[c].attempt = "first"
        /\ call[c].kind = "logout" /\ call' = Answered(c, 200, {EmptyJar})
        /\ sessions' = Revoked(sids)
        /\ UNCHANGED <<jar, tab, signedOut, disturbed, reused>>
    BY DEF ServeLogout, Arrived
  <1>2. call[c].cookies.sid # NoSession => call[c].cookies.sid \in sids \cap SessionIds
    BY <1>0 DEF LogoutTarget, Call, Cookies
  <1> HIDE DEF sids
  <1>3. /\ sessions' \in [SessionIds -> SessionRow] /\ Later(sessions, sessions')
        /\ \A s \in SessionIds : s \in sids => sessions'[s].status = "REVOKED"
        /\ \A s \in SessionIds : sessions'[s].hash = sessions[s].hash
    BY <1>0, <1>1, RevokedIs
  <1>4. call[c].cookies.sid # NoSession =>
          sessions'[call[c].cookies.sid].status = "REVOKED"
    BY <1>2, <1>3
  <1>5. {EmptyJar} \in SUBSET {EmptyJar} /\ 200 \in {200, 401} /\ {EmptyJar} # {}
    OBVIOUS
  <1> QED
    BY <1>1, <1>3, <1>4, <1>5, AnswerStep

LEMMA ServeRefreshRefusedStep ==
  ASSUME Inv, NEW c \in Calls, ServeRefreshRefused(c)
  PROVE  Inv'
  <1>0. TypeOK
    BY DEF Inv
  <1>1. /\ call[c].at = "sent" /\ call[c].attempt = "refresh"
        /\ call' = Answered(c, 401, {})
        /\ UNCHANGED <<sessions, jar, tab, signedOut, disturbed, reused>>
    BY DEF ServeRefreshRefused, RefreshArrived
  <1>2. /\ sessions' \in [SessionIds -> SessionRow] /\ Later(sessions, sessions')
    BY <1>0, <1>1, SameSessions
  <1>3. {} \in SUBSET {EmptyJar} /\ 401 \in {200, 401}
    OBVIOUS
  <1> QED
    BY <1>1, <1>2, <1>3, AnswerStep

Reading(x) == [x EXCEPT !.at = "read"]

LEMMA ReadingIs ==
  ASSUME NEW x \in Call
  PROVE  /\ Reading(x) \in Call /\ Reading(x).at = "read"
         /\ Reading(x).attempt = x.attempt /\ Reading(x).kind = x.kind
         /\ Reading(x).cookies = x.cookies /\ Reading(x).sets = x.sets
         /\ Reading(x).status = x.status /\ Reading(x).emptied = x.emptied
  <1>1. \A tabs, statuses, answers :
          x \in Fields(tabs, statuses, answers) => Reading(x) \in Fields(tabs, statuses, answers)
    BY DEF Reading, Fields
  <1>2. Reading(x) \in Call
    <2> DEFINE tabs == Tabs \cup {NoTab}
               statuses == {200, 401}
               answers == SUBSET Cookies
    <2>1. Call = Fields(tabs, statuses, answers)
      BY CallIsFields
    <2> HIDE DEF tabs, statuses, answers
    <2> QED
      BY <1>1, <2>1
  <1> QED
    BY <1>2 DEF Reading, Call

LEMMA ServeRefreshReadStep ==
  ASSUME Inv, NEW c \in Calls, ServeRefreshRead(c)
  PROVE  Inv'
  <1> DEFINE x == Reading(call[c])
  <1>0. TypeOK /\ Good /\ (~disturbed => reused = {} /\ Current)
    BY DEF Inv, Undisturbed
  <1>1. call[c] \in Call /\ CallGood(call[c], sessions)
    BY <1>0 DEF TypeOK, Good
  <1>2. /\ call[c].at = "sent" /\ call[c].attempt = "refresh"
        /\ call[c].cookies.sid # NoSession
        /\ UNCHANGED <<sessions, jar, tab, signedOut, disturbed, reused>>
    BY DEF ServeRefreshRead, RefreshArrived, RefreshAccepted
  <1>3. /\ x \in Call /\ x.at = "read" /\ x.sets = call[c].sets /\ x.status = call[c].status
        /\ x.attempt = call[c].attempt /\ x.kind = call[c].kind /\ x.cookies = call[c].cookies
    BY <1>1, ReadingIs
  <1>4. Becomes(c, x)
    BY <1>0, <1>1, <1>3 DEF ServeRefreshRead, Becomes, Reading
  <1> HIDE DEF x
  <1>5. sessions' \in [SessionIds -> SessionRow] /\ Later(sessions, sessions')
    BY <1>0, <1>2, SameSessions
  <1>6. CallGood(x, sessions') /\ RefreshedGood(x, jar)
    BY <1>1, <1>2, <1>3 DEF CallGood, Answers, RetryGood, SignOutGood, RefreshedGood
  <1>7. reused' \in SUBSET SessionIds /\ disturbed' \in BOOLEAN
    BY <1>0, <1>2 DEF TypeOK
  <1>8. TypeOK' /\ Good'
    BY <1>0, <1>2, <1>3, <1>4, <1>5, <1>6, <1>7, CallStepGood
  <1>9. ~disturbed => reused' = {} /\ Current'
    <2>1. call[c].sets = {} /\ x.sets \in SUBSET {EmptyJar}
      BY <1>1, <1>2, <1>3 DEF CallGood, Answers
    <2> QED
      BY <1>0, <1>2, <1>3, <1>4, <2>1, CallStepCurrent
  <1> QED
    BY <1>2, <1>8, <1>9 DEF Inv, Undisturbed

\* An undisturbed refresh presents the current token: no reuse.
LEMMA ServeRefreshReuseStep ==
  ASSUME Inv, NEW c \in Calls, ServeRefreshReuse(c)
  PROVE  Inv'
  <1> DEFINE x == Served(call[c], 401, {})
             sids == {call[c].cookies.sid}
  <1>0. TypeOK /\ Good /\ (~disturbed => reused = {} /\ Current)
    BY DEF Inv, Undisturbed
  <1>1. call[c] \in Call /\ CallGood(call[c], sessions)
    BY <1>0 DEF TypeOK, Good
  <1>2. /\ call[c].at = "sent" /\ call[c].attempt = "refresh"
        /\ call[c].cookies.sid # NoSession /\ ~HashMatches(call[c].cookies)
        /\ sessions' = Revoked(sids) /\ reused' = reused \cup sids
        /\ call' = Answered(c, 401, {})
        /\ UNCHANGED <<jar, tab, signedOut, disturbed>>
    BY DEF ServeRefreshReuse, RefreshArrived, RefreshAccepted
  <1>3. disturbed
    <2>1. ~disturbed => CallCurrent(call[c], sessions)
      BY <1>0 DEF Current
    <2> QED
      BY <1>2, <2>1 DEF CallCurrent, Matches, HashMatches
  <1>4. call[c].cookies \in Cookies /\ call[c].cookies.sid \in SessionIds
    BY <1>1, <1>2 DEF Call, Cookies
  <1>5. reused' \in SUBSET SessionIds /\ disturbed' \in BOOLEAN
    BY <1>0, <1>2, <1>4 DEF TypeOK
  <1>6. /\ x \in Call /\ Becomes(c, x)
        /\ \/ x = IdleCall
           \/ /\ x.at = "answered" /\ x.status = 401 /\ x.sets = {}
              /\ x.attempt = call[c].attempt /\ x.kind = call[c].kind
              /\ x.cookies = call[c].cookies
    BY <1>0, <1>1, <1>2, AnsweredIs, ResultIs DEF Becomes, Served
  <1> HIDE DEF x, sids
  <1>7. sessions' \in [SessionIds -> SessionRow] /\ Later(sessions, sessions')
    BY <1>0, <1>2, RevokedIs
  <1>8. CallGood(x, sessions') /\ RefreshedGood(x, jar)
    <2>0. CASE x = IdleCall
      BY <2>0, IdleGood
    <2> SUFFICES ASSUME x # IdleCall PROVE CallGood(x, sessions') /\ RefreshedGood(x, jar)
      BY <2>0
    <2>1. Known(x.cookies, sessions')
      BY <1>1, <1>4, <1>6, <1>7, KnownKept DEF CallGood
    <2> QED
      BY <1>1, <1>2, <1>6, <2>1
      DEF CallGood, Answers, RetryGood, SignOutGood, RefreshedGood
  <1>9. TypeOK' /\ Good'
    BY <1>0, <1>2, <1>5, <1>6, <1>7, <1>8, CallStepGood
  <1> QED
    BY <1>2, <1>3, <1>9 DEF Inv, Undisturbed

LEMMA RotatedIs ==
  ASSUME NEW row \in SessionRow
  PROVE  /\ Rotated(row) \in SessionRow /\ row.issued + 1 \in Nat
         /\ Rotated(row).status = row.status /\ Rotated(row).hash = row.issued + 1
  <1> DEFINE n == row.issued + 1
  <1>1. n \in Nat
    BY DEF SessionRow
  <1> HIDE DEF n
  <1>2. [row EXCEPT !.hash = n, !.issued = n] \in SessionRow
    BY <1>1 DEF SessionRow
  <1>3. [row EXCEPT !.hash = n, !.issued = n].status = row.status
    BY <1>1 DEF SessionRow
  <1>4. [row EXCEPT !.hash = n, !.issued = n].hash = n
    BY <1>1 DEF SessionRow
  <1> QED
    BY <1>1, <1>2, <1>3, <1>4, Zenon DEF Rotated, n

LEMMA AuthCookiesAre ==
  ASSUME NEW s \in SessionIds, NEW n \in Nat
  PROVE  /\ AuthCookies(s, n) \in SUBSET Cookies /\ AuthCookies(s, n) # {}
         /\ \A k \in AuthCookies(s, n) : k.sid = s /\ k.nonce = n /\ k.access
  BY DEF AuthCookies, Cookies

\* The answer of a rotation carries the token that becomes the current one.
LEMMA ServeRefreshRotateStep ==
  ASSUME Inv, NEW c \in Calls, ServeRefreshRotate(c)
  PROVE  Inv'
  <1> DEFINE s == call[c].cookies.sid
             n == sessions[s].issued + 1
             sets == AuthCookies(s, n)
             x == Served(call[c], 200, sets)
  <1>0. TypeOK /\ Good /\ (~disturbed => reused = {} /\ Current)
    BY DEF Inv, Undisturbed
  <1>1. call[c] \in Call /\ CallGood(call[c], sessions)
    BY <1>0 DEF TypeOK, Good
  <1>2. /\ call[c].at = "read" /\ call[c].attempt = "refresh"
        /\ sessions' = [sessions EXCEPT ![s] = Rotated(sessions[s])]
        /\ call' = Answered(c, 200, sets)
        /\ disturbed' = (disturbed \/ call[c].tab = NoTab)
        /\ UNCHANGED <<jar, tab, signedOut, reused>>
    BY DEF ServeRefreshRotate
  <1>3. /\ s \in SessionIds /\ call[c].kind = "change" /\ call[c].sets = {}
        /\ call[c].cookies \in Cookies
    BY <1>1, <1>2 DEF CallGood, Answers, Call, Cookies
  <1>4. /\ sessions' \in [SessionIds -> SessionRow] /\ n \in Nat
        /\ \A r \in SessionIds : sessions'[r].status = sessions[r].status
        /\ \A r \in SessionIds : r # s => sessions'[r] = sessions[r]
        /\ sessions'[s].hash = n
    <2>1. sessions \in [SessionIds -> SessionRow] /\ sessions[s] \in SessionRow
      BY <1>0, <1>3 DEF TypeOK
    <2>2. /\ Rotated(sessions[s]) \in SessionRow /\ n \in Nat
          /\ Rotated(sessions[s]).status = sessions[s].status
          /\ Rotated(sessions[s]).hash = n
      BY <2>1, RotatedIs, Zenon
    <2> HIDE DEF n
    <2> QED
      BY <1>2, <1>3, <2>1, <2>2
  <1>5. Later(sessions, sessions')
    BY <1>4 DEF Later
  <1> HIDE DEF n
  <1>6. /\ sets \in SUBSET Cookies /\ sets # {}
        /\ \A k \in sets : k.sid = s /\ k.nonce = n /\ k.access
    BY <1>3, <1>4, AuthCookiesAre
  <1> HIDE DEF sets
  <1>7. /\ x \in Call /\ Becomes(c, x)
        /\ IF call[c].tab = NoTab THEN x = IdleCall
           ELSE /\ x.at = "answered" /\ x.status = 200 /\ x.sets = sets
                /\ x.attempt = "refresh" /\ x.kind = "change" /\ x.cookies = call[c].cookies
    BY <1>0, <1>1, <1>2, <1>3, <1>6, AnsweredIs, ResultIs DEF Becomes, Served
  <1> HIDE DEF x
  <1>8. CallGood(x, sessions') /\ RefreshedGood(x, jar)
    <2>0. CASE call[c].tab = NoTab
      BY <1>7, <2>0, IdleGood
    <2> SUFFICES ASSUME call[c].tab # NoTab
                 PROVE  CallGood(x, sessions') /\ RefreshedGood(x, jar)
      BY <2>0
    <2>1. Known(x.cookies, sessions')
      BY <1>1, <1>3, <1>5, <1>7, KnownKept DEF CallGood
    <2>2. \A k \in sets : Known(k, sessions')
      BY <1>3, <1>4, <1>6, <2>1, <1>7 DEF Known
    <2> QED
      BY <1>6, <1>7, <2>1, <2>2 DEF CallGood, Answers, RetryGood, SignOutGood, RefreshedGood
  <1>9. TypeOK' /\ Good'
    <2>1. reused' \in SUBSET SessionIds /\ disturbed' \in BOOLEAN
      BY <1>0, <1>2 DEF TypeOK
    <2> QED
      BY <1>0, <1>2, <1>4, <1>5, <1>7, <1>8, <2>1, CallStepGood
  <1>10. ASSUME ~disturbed' PROVE Current'
    <2>0. Current /\ jar' = jar /\ jar \in Cookies
      BY <1>0, <1>2, <1>10 DEF TypeOK
    <2>9. /\ x.at = "answered" /\ x.status = 200 /\ x.sets = sets
          /\ x.attempt = "refresh" /\ x.kind = "change" /\ x.cookies = call[c].cookies
      BY <1>2, <1>7, <1>10
    <2>1. \A d \in Calls : call[d] \in Call /\ call'[d] = IF d = c THEN x ELSE call[d]
      BY <1>0, <1>7, <2>9 DEF TypeOK, Becomes
    <2>2. \A d \in Calls : d # c => call[d].attempt # "refresh"
      BY <1>2, <2>0 DEF Current, OneRefresh
    <2>3. \A k \in Cookies : k.sid # s /\ Matches(k, sessions) => Matches(k, sessions')
      BY <1>4 DEF Matches, Cookies
    <2>4. \A d \in Calls : d # c => \A k \in call[d].sets : k.sid # s
      <3> SUFFICES ASSUME NEW d \in Calls, d # c, NEW k \in call[d].sets PROVE k.sid # s
        OBVIOUS
      <3>1. Answers(call[d]) /\ call[d].kind \in {"change", "login", "logout"}
        BY <1>0, <2>1 DEF Good, CallGood, Call
      <3>2. CASE call[d].kind = "login"
        <4>1. Unaware(call[c], k.sid)
          BY <2>0, <3>2 DEF Current, NewSession
        <4> QED
          BY <1>2, <4>1 DEF Unaware
      <3>3. CASE call[d].kind = "logout"
        <4>1. k = EmptyJar
          BY <3>1, <3>3 DEF Answers
        <4> QED
          BY <1>3, <4>1, EmptyJarType
      <3> QED
        BY <2>2, <3>1, <3>2, <3>3 DEF Answers
    <2>5. \A d \in Calls : CallCurrent(call'[d], sessions')
      <3>1. CallCurrent(x, sessions')
        BY <1>4, <1>6, <1>7, <2>9 DEF CallCurrent, Matches
      <3>2. \A d \in Calls : d # c => CallCurrent(call[d], sessions')
        <4> SUFFICES ASSUME NEW d \in Calls, d # c PROVE CallCurrent(call[d], sessions')
          OBVIOUS
        <4>1. call[d].sets \in SUBSET Cookies /\ CallCurrent(call[d], sessions)
          BY <2>0, <2>1 DEF Call, Current
        <4> QED
          BY <2>2, <2>3, <2>4, <4>1 DEF CallCurrent
      <3> QED
        BY <2>1, <3>1, <3>2
    <2>6. OneRefresh(call')
      BY <2>1, <2>2 DEF OneRefresh
    <2>7. JarCurrent(jar, call', sessions')
      <3>1. CASE jar.sid = s
        <4>1. call'[c] = x
          BY <2>1
        <4>2. \E k \in call'[c].sets : k.sid = jar.sid
          BY <1>6, <1>7, <2>9, <3>1, <4>1
        <4> QED
          BY <1>7, <2>9, <4>1, <4>2 DEF JarCurrent
      <3>2. CASE jar.sid # s
        <4>1. Matches(jar, sessions)
          BY <1>3, <2>0, <2>2 DEF Current, JarCurrent
        <4> QED
          BY <2>0, <2>3, <3>2, <4>1 DEF JarCurrent
      <3> QED
        BY <3>1, <3>2
    <2>8. NewSession(jar, call')
      <3> SUFFICES ASSUME NEW d \in Calls, call'[d].kind = "login", NEW k \in call'[d].sets
          PROVE  jar.sid # k.sid /\ \A e \in Calls \ {d} : Unaware(call'[e], k.sid)
        BY DEF NewSession
      <3>1. d # c /\ call'[d] = call[d]
        BY <1>7, <2>9, <2>1
      <3>2. jar.sid # k.sid /\ \A e \in Calls \ {d} : Unaware(call[e], k.sid)
        BY <2>0, <3>1 DEF Current, NewSession
      <3>3. Unaware(x, k.sid)
        BY <1>6, <1>7, <2>9, <2>4, <3>1 DEF Unaware
      <3> QED
        BY <2>1, <3>2, <3>3
    <2> QED
      BY <2>0, <2>5, <2>6, <2>7, <2>8 DEF Current
  <1> QED
    BY <1>0, <1>2, <1>9, <1>10 DEF Inv, Undisturbed

LEMMA ServeLoginRefusedStep ==
  ASSUME Inv, NEW c \in Calls, Arrived(c, {"first"}, "login"),
         call' = Answered(c, 401, {}),
         UNCHANGED <<sessions, jar, tab, signedOut, disturbed, reused>>
  PROVE  Inv'
  <1>0. TypeOK
    BY DEF Inv
  <1>1. call[c].at = "sent" /\ call[c].attempt = "first" /\ call[c].kind = "login"
    BY DEF Arrived
  <1>2. sessions' \in [SessionIds -> SessionRow] /\ Later(sessions, sessions')
    BY <1>0, SameSessions
  <1>3. {} \in SUBSET {EmptyJar} /\ 401 \in {200, 401}
    OBVIOUS
  <1> QED
    BY <1>1, <1>2, <1>3, AnswerStep

\* Nobody knows a session before it is opened.
LEMMA ServeLoginOpensStep ==
  ASSUME Inv, NEW c \in Calls, NEW s \in SessionIds,
         Arrived(c, {"first"}, "login"), sessions[s].status = "NONE",
         sessions' = [sessions EXCEPT ![s] = [status |-> "ACTIVE", hash |-> 1, issued |-> 1]],
         call' = Answered(c, 200, AuthCookies(s, 1)),
         UNCHANGED <<jar, tab, signedOut, disturbed, reused>>
  PROVE  Inv'
  <1> DEFINE sets == AuthCookies(s, 1)
             x == Served(call[c], 200, sets)
  <1>0. TypeOK /\ Good /\ (~disturbed => reused = {} /\ Current)
    BY DEF Inv, Undisturbed
  <1>1. /\ call[c] \in Call /\ CallGood(call[c], sessions)
        /\ call[c].at = "sent" /\ call[c].attempt = "first" /\ call[c].kind = "login"
        /\ call[c].cookies \in Cookies
    BY <1>0 DEF TypeOK, Good, Arrived, Call
  <1>2. /\ sessions' \in [SessionIds -> SessionRow]
        /\ \A r \in SessionIds : r # s => sessions'[r] = sessions[r]
        /\ sessions'[s].status = "ACTIVE" /\ sessions'[s].hash = 1
    BY <1>0 DEF TypeOK, SessionRow
  <1>3. Later(sessions, sessions')
    BY <1>2 DEF Later
  <1>4. /\ sets \in SUBSET Cookies /\ sets # {}
        /\ \A k \in sets : k.sid = s /\ k.nonce = 1 /\ k.access
    BY AuthCookiesAre
  <1> HIDE DEF sets
  <1>5. /\ x \in Call /\ Becomes(c, x)
        /\ \/ x = IdleCall
           \/ /\ x.at = "answered" /\ x.status = 200 /\ x.sets = sets
              /\ x.attempt = "first" /\ x.kind = "login" /\ x.cookies = call[c].cookies
    BY <1>0, <1>1, <1>4, AnsweredIs, ResultIs DEF Becomes, Served, sets
  <1>9. x.attempt # "refresh" /\ x.sets \in SUBSET sets
    BY <1>5, IdleCallIs
  <1> HIDE DEF x
  <1>6. CallGood(x, sessions') /\ RefreshedGood(x, jar)
    <2>0. CASE x = IdleCall
      BY <2>0, IdleGood
    <2> SUFFICES ASSUME x # IdleCall PROVE CallGood(x, sessions') /\ RefreshedGood(x, jar)
      BY <2>0
    <2>1. Known(x.cookies, sessions')
      BY <1>1, <1>3, <1>5, KnownKept DEF CallGood
    <2>2. \A k \in sets : Known(k, sessions')
      BY <1>2, <1>4 DEF Known
    <2>3. \A k \in sets : k.sid # NoSession
      BY <1>4
    <2>4. Answers(x)
      BY <1>5, <2>3 DEF Answers
    <2>5. RetryGood(x, sessions') /\ SignOutGood(x, sessions') /\ RefreshedGood(x, jar)
      BY <1>5 DEF RetryGood, SignOutGood, RefreshedGood
    <2> QED
      BY <1>5, <2>1, <2>2, <2>4, <2>5 DEF CallGood
  <1>7. TypeOK' /\ Good'
    <2>1. reused' \in SUBSET SessionIds /\ disturbed' \in BOOLEAN
      BY <1>0 DEF TypeOK
    <2> QED
      BY <1>0, <1>2, <1>3, <1>5, <1>6, <2>1, CallStepGood
  <1>8. ASSUME ~disturbed PROVE Current'
    <2>0. Current /\ jar' = jar /\ jar \in Cookies /\ jar.sid # s
      BY <1>0, <1>8 DEF TypeOK, Good, Known
    <2>1. \A d \in Calls : call[d] \in Call /\ call'[d] = IF d = c THEN x ELSE call[d]
      BY <1>0, <1>5, <1>9 DEF TypeOK, Becomes
    <2>2. \A d \in Calls : call[d].cookies.sid # s /\ \A k \in call[d].sets : k.sid # s
      BY <1>0 DEF Good, CallGood, Known
    <2>3. \A k \in Cookies : k.sid # s /\ Matches(k, sessions) => Matches(k, sessions')
      BY <1>2 DEF Matches, Cookies
    <2>4. \A d \in Calls : CallCurrent(call'[d], sessions')
      <3>1. CallCurrent(x, sessions')
        BY <1>2, <1>4, <1>5, <1>9 DEF CallCurrent, Matches
      <3>2. \A d \in Calls : CallCurrent(call[d], sessions')
        <4> SUFFICES ASSUME NEW d \in Calls PROVE CallCurrent(call[d], sessions')
          OBVIOUS
        <4>1. /\ call[d].sets \in SUBSET Cookies /\ call[d].cookies \in Cookies
              /\ CallCurrent(call[d], sessions)
          BY <2>0, <2>1 DEF Call, Current
        <4> QED
          BY <2>2, <2>3, <4>1 DEF CallCurrent
      <3> QED
        BY <2>1, <3>1, <3>2
    <2>5. OneRefresh(call')
      BY <1>5, <1>9, <2>0, <2>1 DEF Current, OneRefresh
    <2>6. JarCurrent(jar, call', sessions')
      <3>1. CASE Matches(jar, sessions)
        BY <2>0, <2>3, <3>1 DEF JarCurrent
      <3>2. CASE \E d \in Calls : call[d].attempt = "refresh"
                   /\ \E n \in call[d].sets : n.sid = jar.sid
        <4>1. PICK d \in Calls : call[d].attempt = "refresh"
                     /\ \E n \in call[d].sets : n.sid = jar.sid
          BY <3>2
        <4>2. call'[d] = call[d]
          BY <1>1, <2>1, <4>1
        <4> QED
          BY <4>1, <4>2 DEF JarCurrent
      <3> QED
        BY <2>0, <3>1, <3>2 DEF Current, JarCurrent
    <2>7. NewSession(jar, call')
      <3> SUFFICES ASSUME NEW d \in Calls, call'[d].kind = "login", NEW k \in call'[d].sets
          PROVE  jar.sid # k.sid /\ \A e \in Calls \ {d} : Unaware(call'[e], k.sid)
        BY DEF NewSession
      <3>1. CASE d = c
        <4>1. k.sid = s
          BY <1>4, <1>5, <1>9, <2>1, <3>1
        <4>2. \A e \in Calls \ {c} : Unaware(call'[e], s)
          BY <2>1, <2>2 DEF Unaware
        <4> QED
          BY <2>0, <3>1, <4>1, <4>2
      <3>2. CASE d # c
        <4>1. call'[d] = call[d]
          BY <2>1, <3>2
        <4>2. jar.sid # k.sid /\ \A e \in Calls \ {d} : Unaware(call[e], k.sid)
          BY <2>0, <4>1 DEF Current, NewSession
        <4>3. Unaware(x, k.sid)
          BY <1>4, <1>5, <1>9, <2>2, <4>1 DEF Unaware
        <4> QED
          BY <2>1, <4>2, <4>3
      <3> QED
        BY <3>1, <3>2
    <2> QED
      BY <2>0, <2>4, <2>5, <2>6, <2>7 DEF Current
  <1> QED
    BY <1>0, <1>7, <1>8 DEF Inv, Undisturbed

LEMMA ServeStep ==
  ASSUME Inv, NEW c \in Calls, Serve(c)
  PROVE  Inv'
  <1>1. CASE ServeChange(c)
    BY <1>1, ServeChangeStep
  <1>2. CASE ServeLogin(c)
    <2>1. CASE call' = Answered(c, 401, {}) /\ UNCHANGED sessions
      BY <1>2, <2>1, ServeLoginRefusedStep DEF ServeLogin
    <2>2. ASSUME NEW s \in SessionIds, sessions[s].status = "NONE",
                 sessions' = [sessions EXCEPT ![s] =
                   [status |-> "ACTIVE", hash |-> 1, issued |-> 1]],
                 call' = Answered(c, 200, AuthCookies(s, 1))
          PROVE  Inv'
      BY <1>2, <2>2, ServeLoginOpensStep DEF ServeLogin
    <2> QED
      BY <1>2, <2>1, <2>2 DEF ServeLogin
  <1>3. CASE ServeLogout(c)
    BY <1>3, ServeLogoutStep
  <1>4. CASE ServeRefreshRefused(c)
    BY <1>4, ServeRefreshRefusedStep
  <1>5. CASE ServeRefreshReuse(c)
    BY <1>5, ServeRefreshReuseStep
  <1>6. CASE ServeRefreshRead(c)
    BY <1>6, ServeRefreshReadStep
  <1>7. CASE ServeRefreshRotate(c)
    BY <1>7, ServeRefreshRotateStep
  <1> QED
    BY <1>1, <1>2, <1>3, <1>4, <1>5, <1>6, <1>7 DEF Serve, ServeRefresh

\* Sessions that close, in whatever way, disturb nobody.
LEMMA RevokedElsewhereStep ==
  ASSUME Inv, NEW s \in SessionIds, RevokedElsewhere(s)
  PROVE  Inv'
  <1> DEFINE sids == {s}
  <1>0. TypeOK /\ Good /\ (~disturbed => reused = {} /\ Current)
    BY DEF Inv, Undisturbed
  <1>1. /\ sessions' = Revoked(sids)
        /\ UNCHANGED <<jar, tab, call, signedOut, disturbed, reused>>
    BY DEF RevokedElsewhere
  <1> HIDE DEF sids
  <1>2. /\ sessions' \in [SessionIds -> SessionRow] /\ Later(sessions, sessions')
        /\ \A r \in SessionIds : sessions'[r].hash = sessions[r].hash
    BY <1>0, <1>1, RevokedIs
  <1>3. TypeOK'
    BY <1>0, <1>1, <1>2 DEF TypeOK
  <1>4. Good'
    <2>1. Known(jar, sessions')
      BY <1>0, <1>2, KnownKept DEF TypeOK, Good
    <2>2. \A c \in Calls : CallGood(call[c], sessions') /\ RefreshedGood(call[c], jar)
      BY <1>0, <1>2, CallKept DEF TypeOK, Good
    <2>3. \A t \in Tabs : TabGood(tab[t], signedOut[t], sessions')
      <3> SUFFICES ASSUME NEW t \in Tabs PROVE TabGood(tab[t], signedOut[t], sessions')
        OBVIOUS
      <3>1. /\ tab[t] \in Tab /\ signedOut[t] \in SUBSET SessionIds
            /\ TabGood(tab[t], signedOut[t], sessions)
        BY <1>0 DEF TypeOK, Good
      <3> QED
        BY <1>2, <3>1, TabKept
    <2> QED
      BY <1>1, <2>1, <2>2, <2>3 DEF Good
  <1>5. ASSUME ~disturbed PROVE Current'
    <2>0. Current /\ jar \in Cookies
      BY <1>0, <1>5 DEF TypeOK
    <2>1. \A c \in Calls : CallCurrent(call[c], sessions')
      BY <1>0, <1>2, <2>0, SameHashes DEF TypeOK, Current
    <2>2. JarCurrent(jar, call, sessions')
      BY <1>2, <2>0, SameHashes DEF Current, JarCurrent
    <2> QED
      BY <1>1, <2>0, <2>1, <2>2 DEF Current
  <1> QED
    BY <1>0, <1>1, <1>3, <1>4, <1>5 DEF Inv, Undisturbed

-----------------------------------------------------------------------------
(* The session query and the person *)

\* A step of a tab.
LEMMA TabStep ==
  ASSUME Inv, NEW t \in Tabs, NEW q \in Tab, tab' = [tab EXCEPT ![t] = q],
         TabGood(q, signedOut[t], sessions),
         UNCHANGED <<sessions, jar, call, signedOut, disturbed, reused>>
  PROVE  Inv'
  <1>0. TypeOK /\ Good /\ Undisturbed
    BY DEF Inv
  <1>1. TypeOK'
    BY <1>0 DEF TypeOK
  <1>2. \A u \in Tabs : tab'[u] = IF u = t THEN q ELSE tab[u]
    BY <1>0 DEF TypeOK
  <1>3. Good'
    BY <1>0, <1>2 DEF Good
  <1>4. Undisturbed'
    BY <1>0 DEF Undisturbed, Current
  <1> QED
    BY <1>1, <1>3, <1>4 DEF Inv

\* Of the cookies at hand, an attempt sends the access cookie and no more than
\* the others: they name the same session, if any.
LEMMA AccessCookieIs ==
  ASSUME NEW k \in Cookies, NEW ss, Known(k, ss)
  PROVE  /\ AccessCookie(k) \in Cookies /\ Known(AccessCookie(k), ss)
         /\ AccessCookie(k).access = k.access
  BY EmptyJarType DEF AccessCookie, Cookies, Known

LEMMA SentIs ==
  ASSUME NEW k \in Cookies, NEW ss, Known(k, ss), NEW attempt,
         NEW kind \in {"change", "login", "logout"}
  PROVE  /\ Sent(kind, attempt, k) \in Cookies /\ Known(Sent(kind, attempt, k), ss)
         /\ attempt = "refresh" => /\ Sent(kind, attempt, k).sid = k.sid
                                   /\ Sent(kind, attempt, k).nonce = k.nonce
         /\ kind = "change" /\ attempt = "retry" => Sent(kind, attempt, k).access = k.access
  <1>1. CASE attempt = "refresh"
    <2>1. Sent(kind, attempt, k) = [k EXCEPT !.access = FALSE]
      BY <1>1 DEF Sent
    <2>2. /\ [k EXCEPT !.access = FALSE] \in Cookies
          /\ [k EXCEPT !.access = FALSE].sid = k.sid
          /\ [k EXCEPT !.access = FALSE].nonce = k.nonce
          /\ ~[k EXCEPT !.access = FALSE].access
      BY DEF Cookies
    <2> QED
      BY <1>1, <2>1, <2>2 DEF Known
  <1>2. CASE attempt # "refresh" /\ kind = "login"
    <2>1. Sent(kind, attempt, k) = EmptyJar
      BY <1>2 DEF Sent
    <2> QED
      BY <1>2, <2>1, EmptyJarType DEF Known
  <1>3. CASE attempt # "refresh" /\ kind = "logout"
    <2>1. Sent(kind, attempt, k) = [k EXCEPT !.nonce = 0]
      BY <1>3 DEF Sent
    <2>2. /\ [k EXCEPT !.nonce = 0] \in Cookies /\ [k EXCEPT !.nonce = 0].sid = k.sid
          /\ [k EXCEPT !.nonce = 0].access = k.access
      BY DEF Cookies
    <2> QED
      BY <1>3, <2>1, <2>2 DEF Known
  <1>4. CASE attempt # "refresh" /\ kind \notin {"login", "logout"}
    <2>1. Sent(kind, attempt, k) = AccessCookie(k)
      BY <1>4 DEF Sent
    <2> QED
      BY <1>4, <2>1, AccessCookieIs
  <1> QED
    BY <1>1, <1>2, <1>3, <1>4

LEMMA FetchingIs ==
  ASSUME NEW q \in Tab, NEW k \in Cookies, NEW ss, Known(k, ss)
  PROVE  /\ Fetching(q, k) \in Tab /\ Fetching(q, k).fetch = "sent"
         /\ Known(Fetching(q, k).cookies, ss) /\ Fetching(q, k).of = q.of
         /\ Fetching(q, k).page = q.page
  BY AccessCookieIs DEF Fetching, Tab

\* A query sent anew with the cookies of the jar.
LEMMA FetchingGood ==
  ASSUME NEW q \in Tab, NEW outs, NEW ss, TabGood(q, outs, ss),
         NEW k \in Cookies, Known(k, ss)
  PROVE  TabGood(Fetching(q, k), outs, ss)
  BY FetchingIs DEF TabGood

LEMMA TabFacts ==
  ASSUME Inv, NEW t \in Tabs
  PROVE  /\ TypeOK /\ tab[t] \in Tab /\ tab[t].cookies \in Cookies
         /\ signedOut[t] \in SUBSET SessionIds
         /\ TabGood(tab[t], signedOut[t], sessions)
         /\ jar \in Cookies /\ Known(jar, sessions)
         /\ EmptyJar \in Cookies /\ EmptyJar.sid = NoSession
         /\ Known(EmptyJar, sessions) /\ NoSession \notin signedOut[t]
  <1>1. /\ TypeOK /\ tab[t] \in Tab /\ signedOut[t] \in SUBSET SessionIds
        /\ TabGood(tab[t], signedOut[t], sessions)
        /\ jar \in Cookies /\ Known(jar, sessions)
    BY DEF Inv, TypeOK, Good
  <1>2. tab[t].cookies \in Cookies
    BY <1>1 DEF Tab
  <1> QED
    BY <1>1, <1>2, EmptyJarType DEF Known

\* GET /me is answered with the session of an active row, which no tab has
\* signed out of.
LEMMA ServeMeStep ==
  ASSUME Inv, NEW t \in Tabs, ServeMe(t)
  PROVE  Inv'
  <1>1. /\ tab[t].fetch = "sent"
        /\ UNCHANGED <<sessions, jar, call, signedOut, disturbed, reused>>
    BY DEF ServeMe
  <1>2. CASE AccessAccepted(tab[t].cookies)
    <2> DEFINE q == [tab[t] EXCEPT !.fetch = "ok"]
    <2>1. /\ q \in Tab /\ q.cookies = tab[t].cookies /\ q.of = tab[t].of
      BY TabFacts DEF Tab
    <2>2. tab' = [tab EXCEPT ![t] = q]
      BY <1>2, TabFacts DEF ServeMe, TypeOK
    <2> HIDE DEF q
    <2>3. sessions[tab[t].cookies.sid].status = "ACTIVE"
      BY <1>2 DEF AccessAccepted
    <2>4. TabGood(q, signedOut[t], sessions)
      BY <2>1, <2>3, TabFacts DEF TabGood
    <2> QED
      BY <1>1, <2>1, <2>2, <2>4, TabStep
  <1>3. CASE ~AccessAccepted(tab[t].cookies)
    <2> DEFINE q == [tab[t] EXCEPT !.fetch = "unauthorized", !.cookies = EmptyJar]
    <2>1. /\ q \in Tab /\ q.cookies = EmptyJar /\ q.of = tab[t].of
      BY TabFacts DEF Tab
    <2>2. tab' = [tab EXCEPT ![t] = q]
      BY <1>3, TabFacts DEF ServeMe, TypeOK
    <2> HIDE DEF q
    <2>3. TabGood(q, signedOut[t], sessions)
      BY <2>1, TabFacts DEF TabGood
    <2> QED
      BY <1>1, <2>1, <2>2, <2>3, TabStep
  <1> QED
    BY <1>2, <1>3

LEMMA MeArrivesStep ==
  ASSUME Inv, NEW t \in Tabs, MeArrives(t)
  PROVE  Inv'
  <1> DEFINE data == IF tab[t].fetch = "ok" THEN "user" ELSE "null"
             of == tab[t].cookies.sid
             q == [tab[t] EXCEPT !.fetch = "idle", !.cookies = EmptyJar,
                                 !.data = data, !.of = of]
  <1>1. /\ tab[t].fetch \in {"ok", "unauthorized"}
        /\ data \in {"undefined", "user", "null"} /\ of \in SessionIds \cup {NoSession}
        /\ UNCHANGED <<sessions, jar, call, signedOut, disturbed, reused>>
    BY TabFacts DEF MeArrives, Cookies
  <1>2. of \notin signedOut[t]
    BY <1>1, TabFacts DEF TabGood
  <1>3. tab' = [tab EXCEPT ![t] = q]
    BY TabFacts DEF MeArrives, TypeOK
  <1> HIDE DEF data, of
  <1>4. q \in Tab /\ q.cookies = EmptyJar /\ q.of = of /\ q.fetch = "idle"
    BY <1>1, TabFacts DEF Tab
  <1> HIDE DEF q
  <1>5. TabGood(q, signedOut[t], sessions)
    BY <1>2, <1>4, TabFacts DEF TabGood
  <1> QED
    BY <1>1, <1>3, <1>4, <1>5, TabStep

LEMMA MeFailsStep ==
  ASSUME Inv, NEW t \in Tabs, MeFails(t)
  PROVE  Inv'
  <1> DEFINE q == [tab[t] EXCEPT !.fetch = "idle", !.cookies = EmptyJar]
  <1>1. UNCHANGED <<sessions, jar, call, signedOut, disturbed, reused>>
    BY DEF MeFails
  <1>2. tab' = [tab EXCEPT ![t] = q]
    BY TabFacts DEF MeFails, TypeOK
  <1>3. q \in Tab /\ q.cookies = EmptyJar /\ q.of = tab[t].of /\ q.fetch = "idle"
    BY TabFacts DEF Tab
  <1> HIDE DEF q
  <1>4. TabGood(q, signedOut[t], sessions)
    BY <1>3, TabFacts DEF TabGood
  <1> QED
    BY <1>1, <1>2, <1>3, <1>4, TabStep

LEMMA RefetchMeStep ==
  ASSUME Inv, NEW t \in Tabs, RefetchMe(t)
  PROVE  Inv'
  <1>1. TabGood(Fetching(tab[t], jar), signedOut[t], sessions)
    BY TabFacts, FetchingGood
  <1>2. Fetching(tab[t], jar) \in Tab
    BY TabFacts, FetchingIs
  <1> QED
    BY <1>1, <1>2, TabStep DEF RefetchMe

LEMMA OpenTabStep ==
  ASSUME Inv, NEW t \in Tabs, NEW page \in {"public", "login", "guarded"}, OpenTab(t, page)
  PROVE  Inv'
  <1> DEFINE q == [ClosedTab EXCEPT !.page = page]
  <1>1. q \in Tab /\ q.of = NoSession /\ q.cookies = EmptyJar /\ q.fetch = "idle"
    BY TabFacts DEF ClosedTab, Tab
  <1>2. /\ tab' = [tab EXCEPT ![t] = Fetching(q, jar)]
        /\ UNCHANGED <<sessions, jar, call, signedOut, disturbed, reused>>
    BY DEF OpenTab
  <1> HIDE DEF q
  <1>3. TabGood(q, signedOut[t], sessions)
    BY <1>1, TabFacts DEF TabGood
  <1>4. TabGood(Fetching(q, jar), signedOut[t], sessions)
    BY <1>1, <1>3, TabFacts, FetchingGood
  <1>5. Fetching(q, jar) \in Tab
    BY <1>1, TabFacts, FetchingIs
  <1> QED
    BY <1>2, <1>4, <1>5, TabStep

\* The page of a tab is not what its query is about.
LEMMA PageStep ==
  ASSUME Inv, NEW t \in Tabs, NEW page \in {"public", "login", "guarded"},
         tab' = [tab EXCEPT ![t].page = page],
         UNCHANGED <<sessions, jar, call, signedOut, disturbed, reused>>
  PROVE  Inv'
  <1> DEFINE q == [tab[t] EXCEPT !.page = page]
  <1>1. /\ q \in Tab /\ q.cookies = tab[t].cookies /\ q.of = tab[t].of
        /\ q.fetch = tab[t].fetch
    BY TabFacts DEF Tab
  <1>2. tab' = [tab EXCEPT ![t] = q]
    BY TabFacts DEF TypeOK
  <1> HIDE DEF q
  <1>3. TabGood(q, signedOut[t], sessions)
    BY <1>1, TabFacts DEF TabGood
  <1> QED
    BY <1>1, <1>2, <1>3, TabStep

LEMMA QueryStep ==
  ASSUME Inv, NEW t \in Tabs,
         ServeMe(t) \/ MeArrives(t) \/ MeFails(t) \/ RefetchMe(t) \/ Redirected(t)
  PROVE  Inv'
  BY ServeMeStep, MeArrivesStep, MeFailsStep, RefetchMeStep, PageStep DEF Redirected

LEMMA VisitStep ==
  ASSUME Inv, NEW t \in Tabs, NEW page \in {"public", "login", "guarded"},
         OpenTab(t, page) \/ Visit(t, page)
  PROVE  Inv'
  BY OpenTabStep, PageStep DEF Visit

-----------------------------------------------------------------------------
(* apiFetch and its callers *)

LEMMA AttemptRecord ==
  ASSUME NEW kind, NEW t, NEW attempt, NEW k
  PROVE  Attempt(kind, t, attempt, k) =
           [attempt |-> attempt, kind |-> kind, tab |-> t, at |-> "sent", status |-> 200,
            cookies |-> Sent(kind, attempt, k), sets |-> {}, emptied |-> FALSE]
  BY DEF Attempt

LEMMA AttemptIs ==
  ASSUME NEW kind \in {"change", "login", "logout"}, NEW t \in Tabs \cup {NoTab},
         NEW attempt \in {"first", "refresh", "retry"}, NEW k \in Cookies,
         NEW ss, Known(k, ss)
  PROVE  /\ Attempt(kind, t, attempt, k) \in Call
         /\ Attempt(kind, t, attempt, k).attempt = attempt
         /\ Attempt(kind, t, attempt, k).kind = kind
         /\ Attempt(kind, t, attempt, k).at = "sent"
         /\ Attempt(kind, t, attempt, k).status = 200
         /\ Attempt(kind, t, attempt, k).cookies = Sent(kind, attempt, k)
         /\ Attempt(kind, t, attempt, k).sets = {}
         /\ ~Attempt(kind, t, attempt, k).emptied
  <1> DEFINE e == Sent(kind, attempt, k)
  <1>1. Attempt(kind, t, attempt, k) =
          [attempt |-> attempt, kind |-> kind, tab |-> t, at |-> "sent", status |-> 200,
           cookies |-> e, sets |-> {}, emptied |-> FALSE]
    BY AttemptRecord
  <1>2. e \in Cookies
    BY SentIs
  <1> HIDE DEF e
  <1>3. [attempt |-> attempt, kind |-> kind, tab |-> t, at |-> "sent", status |-> 200,
         cookies |-> e, sets |-> {}, emptied |-> FALSE] \in Call
    BY <1>2 DEF Call
  <1> QED
    BY <1>1, <1>3 DEF e

\* A call gives way to another, or ends, and the jar stays as it is.
LEMMA ReplacedStep ==
  ASSUME Inv, NEW c \in Calls, NEW x \in Call, Becomes(c, x),
         CallGood(x, sessions), RefreshedGood(x, jar), x.sets = {},
         UNCHANGED <<sessions, jar, reused>>,
         disturbed' \in BOOLEAN, disturbed => disturbed',
         tab' \in [Tabs -> Tab], signedOut' \in [Tabs -> SUBSET SessionIds],
         \A t \in Tabs : TabGood(tab'[t], signedOut'[t], sessions),
         ~disturbed' /\ call[c].attempt = "refresh" => call[c].sets = {},
         ~disturbed' /\ x.attempt = "refresh" =>
           \/ /\ x.cookies.sid = jar.sid /\ x.cookies.nonce = jar.nonce /\ call[c].sets = {}
              /\ \A d \in Calls \ {c} : call[d].attempt # "refresh"
           \/ Alike(call[c], x)
  PROVE  Inv'
  <1>0. TypeOK /\ Good /\ (~disturbed => reused = {} /\ Current)
    BY DEF Inv, Undisturbed
  <1>1. TypeOK'
    BY <1>0 DEF TypeOK, Becomes
  <1>2. \A d \in Calls : call'[d] = IF d = c THEN x ELSE call[d]
    BY <1>0 DEF TypeOK, Becomes
  <1>3. Good'
    BY <1>0, <1>2 DEF Good
  <1>4. ASSUME ~disturbed' PROVE reused' = {} /\ Current'
    <2>1. Current /\ reused = {}
      BY <1>0, <1>4
    <2>2. \A d \in Calls \ {c} : Alike(call[d], call'[d])
      BY <1>0, <1>2 DEF TypeOK, Alike
    <2>3. call'[c] = x
      BY <1>2
    <2>4. call[c].attempt = "refresh" => call[c].sets = {}
      BY <1>4
    <2> QED
      BY <1>0, <1>4, <2>1, <2>2, <2>3, <2>4, ReplacedCurrent
  <1> QED
    BY <1>1, <1>3, <1>4 DEF Inv, Undisturbed

LEMMA StartStep ==
  ASSUME Inv, NEW c \in Calls, NEW t \in Tabs, NEW kind \in {"change", "login", "logout"},
         Start(c, kind, t)
  PROVE  Inv'
  <1> DEFINE x == Attempt(kind, t, "first", jar)
  <1>0. TypeOK /\ Good /\ jar \in Cookies /\ Known(jar, sessions)
    BY DEF Inv, TypeOK, Good
  <1>1. /\ call[c].attempt = "idle" /\ Becomes(c, x)
        /\ UNCHANGED <<sessions, jar, tab, signedOut, disturbed, reused>>
    BY DEF Start, Becomes
  <1>2. /\ x \in Call /\ x.attempt = "first" /\ x.at = "sent" /\ x.sets = {}
        /\ x.cookies = Sent(kind, "first", jar)
    BY <1>0, AttemptIs
  <1>5. Known(Sent(kind, "first", jar), sessions)
    BY <1>0, SentIs
  <1> HIDE DEF x
  <1>3. CallGood(x, sessions) /\ RefreshedGood(x, jar)
    BY <1>2, <1>5, NewCallGood DEF RefreshedGood
  <1>4. /\ tab' \in [Tabs -> Tab] /\ signedOut' \in [Tabs -> SUBSET SessionIds]
        /\ \A u \in Tabs : TabGood(tab'[u], signedOut'[u], sessions)
        /\ disturbed' \in BOOLEAN
    BY <1>0, <1>1 DEF TypeOK, Good
  <1> QED
    BY <1>1, <1>2, <1>3, <1>4, ReplacedStep

LEMMA PagedGood ==
  ASSUME NEW q \in Tab, NEW outs, NEW ss, TabGood(q, outs, ss),
         NEW page \in {"closed", "public", "login", "guarded"}
  PROVE  [q EXCEPT !.page = page] \in Tab /\ TabGood([q EXCEPT !.page = page], outs, ss)
  <1>1. /\ [q EXCEPT !.page = page] \in Tab
        /\ [q EXCEPT !.page = page].cookies = q.cookies
        /\ [q EXCEPT !.page = page].of = q.of
        /\ [q EXCEPT !.page = page].fetch = q.fetch
    BY DEF Tab
  <1> QED
    BY <1>1 DEF TabGood

LEMMA InvalidatedGood ==
  ASSUME NEW q \in Tab, NEW outs, NEW ss, TabGood(q, outs, ss),
         NEW k \in Cookies, Known(k, ss)
  PROVE  Invalidated(q, k) \in Tab /\ TabGood(Invalidated(q, k), outs, ss)
  BY FetchingIs, FetchingGood DEF Invalidated

\* A tab that forgets the session may have signed out of more sessions.
LEMMA DroppedGood ==
  ASSUME NEW q \in Tab, NEW outs \in SUBSET SessionIds, NEW ss,
         \A s \in outs : ss[s].status = "REVOKED", NEW k \in Cookies, Known(k, ss)
  PROVE  SessionDropped(q, k) \in Tab /\ TabGood(SessionDropped(q, k), outs, ss)
  <1> DEFINE p == [q EXCEPT !.data = "undefined", !.of = NoSession]
  <1>1. p \in Tab /\ p.of = NoSession
    BY DEF Tab
  <1>2. SessionDropped(q, k) = Fetching(p, k)
    BY DEF SessionDropped
  <1> HIDE DEF p
  <1>3. /\ Fetching(p, k) \in Tab /\ Fetching(p, k).fetch = "sent"
        /\ Known(Fetching(p, k).cookies, ss) /\ Fetching(p, k).of = NoSession
    BY <1>1, FetchingIs
  <1> QED
    BY <1>2, <1>3 DEF TabGood

\* The caller of a call that is over leaves its tab good.
LEMMA SettleTabs ==
  ASSUME TypeOK, Good, NEW c \in Calls, NEW ok \in BOOLEAN, Settle(c, ok),
         ok => call[c].at = "answered" /\ call[c].status = 200
  PROVE  /\ tab' \in [Tabs -> Tab] /\ signedOut' \in [Tabs -> SUBSET SessionIds]
         /\ \A u \in Tabs : TabGood(tab'[u], signedOut'[u], sessions)
  <1> DEFINE t == call[c].tab
             kind == call[c].kind
             outs == signedOut[t] \cup ({call[c].cookies.sid} \ {NoSession})
  <1>0. /\ \A u \in Tabs : tab[u] \in Tab /\ signedOut[u] \in SUBSET SessionIds
                           /\ TabGood(tab[u], signedOut[u], sessions)
        /\ tab \in [Tabs -> Tab] /\ signedOut \in [Tabs -> SUBSET SessionIds]
        /\ call[c] \in Call /\ CallGood(call[c], sessions)
        /\ jar \in Cookies /\ Known(jar, sessions)
    BY DEF TypeOK, Good
  <1>1. kind \in {"change", "login", "logout"} /\ call[c].cookies \in Cookies
    BY <1>0 DEF Call
  <1>2. CASE kind = "login" /\ ok
    <2> DEFINE q == [Invalidated(tab[t], jar) EXCEPT !.page = "guarded"]
    <2>1. tab' = [tab EXCEPT ![t] = q] /\ signedOut' = signedOut
      BY <1>2 DEF Settle
    <2>2. t \in Tabs => q \in Tab /\ TabGood(q, signedOut[t], sessions)
      BY <1>0, InvalidatedGood, PagedGood
    <2> HIDE DEF q
    <2> QED
      BY <1>0, <2>1, <2>2
  <1>3. CASE kind = "logout"
    <2> DEFINE page == IF ok THEN "public" ELSE tab[t].page
               p == SessionDropped(tab[t], jar)
               q == [p EXCEPT !.page = page]
               forgotten == IF ok THEN outs ELSE signedOut[t]
    <2>1. /\ tab' = [tab EXCEPT ![t] = q]
          /\ signedOut' = [u \in Tabs |-> IF u = t THEN forgotten ELSE signedOut[u]]
      <3>1. tab' = [tab EXCEPT ![t] = q]
        BY <1>3 DEF Settle
      <3>2. CASE ok
        <4>1. signedOut' = [signedOut EXCEPT ![t] = outs]
          BY <1>3, <3>2 DEF Settle
        <4>2. forgotten = outs
          BY <3>2
        <4> HIDE DEF outs, forgotten, t
        <4> QED
          BY <1>0, <3>1, <4>1, <4>2
      <3>3. CASE ~ok
        <4>1. signedOut' = signedOut
          BY <3>3 DEF Settle
        <4>2. forgotten = signedOut[t]
          BY <3>3
        <4> HIDE DEF forgotten, t
        <4> QED
          BY <1>0, <3>1, <4>1, <4>2
      <3> QED
        BY <3>2, <3>3
    <2>2. t \in Tabs => forgotten \in SUBSET SessionIds
                        /\ \A s \in forgotten : sessions[s].status = "REVOKED"
      BY <1>0, <1>1, <1>3 DEF CallGood, SignOutGood, TabGood, Cookies
    <2> HIDE DEF forgotten
    <2>3. /\ signedOut' \in [Tabs -> SUBSET SessionIds]
          /\ \A u \in Tabs : signedOut'[u] = IF u = t THEN forgotten ELSE signedOut[u]
      BY <1>0, <2>1, <2>2
    <2>4. t \in Tabs => p \in Tab /\ TabGood(p, forgotten, sessions)
      BY <1>0, <2>2, DroppedGood
    <2>5. t \in Tabs => page \in {"closed", "public", "login", "guarded"}
      BY <1>0 DEF Tab
    <2> HIDE DEF p, page
    <2>6. t \in Tabs => q \in Tab /\ TabGood(q, forgotten, sessions)
      BY <2>4, <2>5, PagedGood
    <2> HIDE DEF q, t
    <2>7. /\ tab' \in [Tabs -> Tab]
          /\ \A u \in Tabs : tab'[u] = IF u = t THEN q ELSE tab[u]
      BY <1>0, <2>1, <2>6
    <2>8. \A u \in Tabs : TabGood(tab'[u], signedOut'[u], sessions)
      BY <1>0, <2>3, <2>6, <2>7
    <2> QED
      BY <2>3, <2>7, <2>8
  <1>4. CASE ~(kind = "login" /\ ok) /\ kind # "logout"
    <2>1. tab' = tab /\ signedOut' = signedOut
      BY <1>4 DEF Settle
    <2> QED
      BY <1>0, <2>1
  <1> QED
    BY <1>1, <1>2, <1>3, <1>4

\* What an answer makes of the tab of its call, settled.
LEMMA SettledTabs ==
  ASSUME Inv, NEW c \in Calls, NEW ok \in BOOLEAN, Settle(c, ok),
         ok => call[c].at = "answered" /\ call[c].status = 200
  PROVE  /\ tab' \in [Tabs -> Tab] /\ signedOut' \in [Tabs -> SUBSET SessionIds]
         /\ \A u \in Tabs : TabGood(tab'[u], signedOut'[u], sessions)
  BY SettleTabs DEF Inv

LEMMA EndStep ==
  ASSUME Inv, NEW c \in Calls, NEW ok \in BOOLEAN, End(c, ok), call[c].sets = {},
         ok => call[c].at = "answered" /\ call[c].status = 200,
         UNCHANGED <<sessions, jar, reused>>
  PROVE  Inv'
  <1>1. Becomes(c, IdleCall) /\ Settle(c, ok) /\ UNCHANGED disturbed
    BY DEF End, Becomes
  <1>2. disturbed' \in BOOLEAN
    BY <1>1 DEF Inv, TypeOK
  <1>3. /\ tab' \in [Tabs -> Tab] /\ signedOut' \in [Tabs -> SUBSET SessionIds]
        /\ \A u \in Tabs : TabGood(tab'[u], signedOut'[u], sessions)
    BY <1>1, SettledTabs
  <1>4. /\ IdleCall \in Call /\ IdleCall.attempt # "refresh" /\ IdleCall.sets = {}
        /\ CallGood(IdleCall, sessions) /\ RefreshedGood(IdleCall, jar)
    BY IdleCallIs, IdleGood
  <1> QED
    BY <1>1, <1>2, <1>3, <1>4, ReplacedStep

\* Edits of a call that change one field.
Marked(x) == [x EXCEPT !.emptied = TRUE]
Stored(x) == [x EXCEPT !.sets = {}]
Left(x) == [x EXCEPT !.tab = NoTab]

LEMMA EditsFields ==
  ASSUME NEW tabs, NEW statuses, NEW answers, NEW x \in Fields(tabs, statuses, answers),
         NoTab \in tabs, {} \in answers
  PROVE  /\ Marked(x) \in Fields(tabs, statuses, answers)
         /\ Stored(x) \in Fields(tabs, statuses, answers)
         /\ Left(x) \in Fields(tabs, statuses, answers)
  BY DEF Marked, Stored, Left, Fields

LEMMA EditsAre ==
  ASSUME NEW x \in Call
  PROVE  /\ Alike(x, Marked(x)) /\ Marked(x).emptied
         /\ Stored(x) \in Call /\ Stored(x).attempt = x.attempt /\ Stored(x).kind = x.kind
         /\ Stored(x).at = x.at /\ Stored(x).status = x.status
         /\ Stored(x).cookies = x.cookies /\ Stored(x).sets = {}
         /\ Stored(x).emptied = x.emptied
         /\ Alike(x, Left(x)) /\ Left(x).emptied = x.emptied
  <1>1. Marked(x) \in Call /\ Stored(x) \in Call /\ Left(x) \in Call
    <2> DEFINE tabs == Tabs \cup {NoTab}
               statuses == {200, 401}
               answers == SUBSET Cookies
    <2>1. NoTab \in tabs /\ {} \in answers /\ x \in Fields(tabs, statuses, answers)
      BY CallIsFields, Zenon
    <2>2. Call = Fields(tabs, statuses, answers)
      BY CallIsFields, Zenon
    <2> HIDE DEF tabs, statuses, answers
    <2> QED
      BY <2>1, <2>2, EditsFields
  <1>2. /\ Marked(x).attempt = x.attempt /\ Marked(x).kind = x.kind
        /\ Marked(x).at = x.at /\ Marked(x).status = x.status
        /\ Marked(x).cookies = x.cookies /\ Marked(x).sets = x.sets /\ Marked(x).emptied
    BY DEF Marked, Call
  <1>3. /\ Stored(x).attempt = x.attempt /\ Stored(x).kind = x.kind
        /\ Stored(x).at = x.at /\ Stored(x).status = x.status
        /\ Stored(x).cookies = x.cookies /\ Stored(x).sets = {}
        /\ Stored(x).emptied = x.emptied
    BY DEF Stored, Call
  <1>4. /\ Left(x).attempt = x.attempt /\ Left(x).kind = x.kind
        /\ Left(x).at = x.at /\ Left(x).status = x.status
        /\ Left(x).cookies = x.cookies /\ Left(x).sets = x.sets
        /\ Left(x).emptied = x.emptied
    BY DEF Left, Call
  <1> QED
    BY <1>1, <1>2, <1>3, <1>4 DEF Alike

\* The API may still serve a request left behind: it is as good as before.
LEMMA LoseStep ==
  ASSUME Inv, NEW c \in Calls, Lose(c)
  PROVE  Inv'
  <1>1. TypeOK /\ call[c] \in Call /\ CallGood(call[c], sessions)
    BY DEF Inv, Good, TypeOK
  <1>2. /\ Settle(c, FALSE) /\ UNCHANGED <<sessions, jar, reused>>
        /\ disturbed' = (disturbed \/ (call[c].attempt = "refresh" /\ call[c].sets # {}))
    BY DEF Lose
  <1>3. /\ disturbed' \in BOOLEAN /\ (disturbed => disturbed')
        /\ ~disturbed' /\ call[c].attempt = "refresh" => call[c].sets = {}
    BY <1>1, <1>2 DEF TypeOK
  <1>4. /\ tab' \in [Tabs -> Tab] /\ signedOut' \in [Tabs -> SUBSET SessionIds]
        /\ \A u \in Tabs : TabGood(tab'[u], signedOut'[u], sessions)
    BY <1>2, SettledTabs
  <1>5. Becomes(c, IdleCall) \/ (call[c].at # "answered" /\ Becomes(c, Left(call[c])))
    BY DEF Lose, Becomes, Left
  <1>6. CASE Becomes(c, IdleCall)
    <2>1. /\ IdleCall \in Call /\ IdleCall.attempt # "refresh" /\ IdleCall.sets = {}
          /\ CallGood(IdleCall, sessions) /\ RefreshedGood(IdleCall, jar)
      BY IdleCallIs, IdleGood
    <2> QED
      BY <1>2, <1>3, <1>4, <1>6, <2>1, ReplacedStep
  <1>7. CASE call[c].at # "answered" /\ Becomes(c, Left(call[c]))
    <2> DEFINE x == Left(call[c])
    <2>1. Alike(call[c], x) /\ x \in Call /\ x.at # "answered" /\ x.sets = call[c].sets
      BY <1>1, <1>7, EditsAre DEF Alike
    <2>2. Becomes(c, x)
      BY <1>7
    <2> HIDE DEF x
    <2>3. CallGood(x, sessions) /\ RefreshedGood(x, jar)
      BY <1>1, <2>1, AlikeGood DEF RefreshedGood
    <2>4. x.sets = {}
      BY <1>1, <1>7, <2>1 DEF CallGood, Answers
    <2> QED
      BY <1>2, <1>3, <1>4, <2>1, <2>2, <2>3, <2>4, ReplacedStep
  <1> QED
    BY <1>5, <1>6, <1>7

LEMMA VanishStep ==
  ASSUME Inv, NEW c \in Calls, Vanish(c)
  PROVE  Inv'
  <1>1. /\ Becomes(c, IdleCall) /\ call[c].at = "sent"
        /\ UNCHANGED <<sessions, jar, tab, signedOut, disturbed, reused>>
    BY DEF Vanish, Becomes
  <1>2. TypeOK /\ Good /\ call[c].sets = {}
    BY <1>1 DEF Inv, Good, CallGood, Answers
  <1>3. /\ tab' \in [Tabs -> Tab] /\ signedOut' \in [Tabs -> SUBSET SessionIds]
        /\ \A u \in Tabs : TabGood(tab'[u], signedOut'[u], sessions)
        /\ disturbed' \in BOOLEAN
    BY <1>1, <1>2 DEF TypeOK, Good
  <1>4. /\ IdleCall \in Call /\ IdleCall.attempt # "refresh" /\ IdleCall.sets = {}
        /\ CallGood(IdleCall, sessions) /\ RefreshedGood(IdleCall, jar)
    BY IdleCallIs, IdleGood
  <1> QED
    BY <1>1, <1>2, <1>3, <1>4, ReplacedStep

LEMMA EmptiedIs ==
  ASSUME TypeOK, NEW d \in Calls
  PROVE  Alike(call[d], Emptied[d]) /\ (Refreshed(d) => Emptied[d].emptied)
  <1>1. call[d] \in Call
    BY DEF TypeOK
  <1>2. Emptied[d] = IF Refreshed(d) THEN Marked(call[d]) ELSE call[d]
    BY DEF Emptied, Marked
  <1> QED
    BY <1>1, <1>2, EditsAre DEF Alike

\* The access cookie goes; the refreshes whose answers are being read know.
LEMMA AccessExpiresStep ==
  ASSUME Inv, AccessExpires
  PROVE  Inv'
  <1>0. TypeOK /\ Good /\ (~disturbed => reused = {} /\ Current)
    BY DEF Inv, Undisturbed
  <1>1. /\ jar \in Cookies /\ jar' \in Cookies /\ jar'.sid = jar.sid
        /\ jar'.nonce = jar.nonce /\ ~jar'.access
    BY <1>0 DEF TypeOK, AccessExpires, Cookies
  <1>2. call' = Emptied /\ UNCHANGED <<sessions, tab, signedOut, disturbed, reused>>
    BY DEF AccessExpires
  <1>3. \A d \in Calls : /\ Alike(call[d], call'[d]) /\ call[d] \in Call /\ call'[d] \in Call
                         /\ Refreshed(d) => call'[d].emptied
    BY <1>0, <1>2, EmptiedIs DEF Alike, TypeOK
  <1>4. TypeOK'
    <2>1. call' = [d \in Calls |-> call'[d]]
      BY <1>2 DEF Emptied
    <2>2. call' \in [Calls -> Call]
      BY <1>3, <2>1
    <2> QED
      BY <1>0, <1>1, <1>2, <2>2 DEF TypeOK
  <1>5. Good'
    <2>1. Known(jar', sessions)
      BY <1>0, <1>1 DEF Good, Known
    <2>2. \A d \in Calls : CallGood(call'[d], sessions)
      BY <1>0, <1>3, AlikeGood DEF Good
    <2>3. \A d \in Calls : RefreshedGood(call'[d], jar')
      BY <1>3 DEF Alike, Refreshed, RefreshedGood
    <2> QED
      BY <1>0, <1>2, <2>1, <2>2, <2>3 DEF Good
  <1>6. ASSUME Current PROVE Current'
    <2>1. \A d \in Calls : CallCurrent(call'[d], sessions)
      BY <1>3, <1>6, AlikeCurrent DEF Current
    <2>2. OneRefresh(call')
      BY <1>3, <1>6 DEF Current, OneRefresh, Alike
    <2>3. JarCurrent(jar', call', sessions)
      BY <1>1, <1>3, <1>6 DEF Current, JarCurrent, Matches, Alike
    <2>4. NewSession(jar', call')
      <3> SUFFICES ASSUME NEW d \in Calls, call'[d].kind = "login", NEW n \in call'[d].sets
          PROVE  jar'.sid # n.sid /\ \A e \in Calls \ {d} : Unaware(call'[e], n.sid)
        BY DEF NewSession
      <3>1. call[d].kind = "login" /\ n \in call[d].sets
        BY <1>3 DEF Alike
      <3>2. jar.sid # n.sid /\ \A e \in Calls \ {d} : Unaware(call[e], n.sid)
        BY <1>6, <3>1 DEF Current, NewSession
      <3>3. \A e \in Calls : Unaware(call[e], n.sid) => Unaware(call'[e], n.sid)
        BY <1>3, AlikeCurrent
      <3> QED
        BY <1>1, <3>2, <3>3
    <2> QED
      BY <1>2, <2>1, <2>2, <2>3, <2>4 DEF Current
  <1> QED
    BY <1>0, <1>2, <1>4, <1>5, <1>6 DEF Inv, Undisturbed

\* The cookies of an answer are the jar now, and that of a refresh is to be
\* read with an access cookie at hand.
LEMMA StoreStep ==
  ASSUME Inv, NEW c \in Calls, Store(c)
  PROVE  Inv'
  <1> DEFINE base == IF jar'.access THEN call ELSE Emptied
             x == Stored(base[c])
  <1>0. /\ TypeOK /\ Good /\ (~disturbed => reused = {} /\ Current)
        /\ \A d \in Calls : call[d] \in Call
    BY DEF Inv, Undisturbed, TypeOK
  <1>1. /\ jar' \in call[c].sets /\ call[c].at = "answered"
        /\ call' = [base EXCEPT ![c].sets = {}]
        /\ UNCHANGED <<sessions, tab, signedOut, disturbed, reused>>
    BY DEF Store, Awaited
  <1>2. \A d \in Calls : /\ Alike(call[d], base[d])
                         /\ ~jar'.access /\ Refreshed(d) => base[d].emptied
    BY <1>0, EmptiedIs DEF Alike
  <1>3. base = [d \in Calls |-> base[d]]
    BY <1>0 DEF TypeOK, Emptied
  <1> HIDE DEF base
  <1>4. call' = [base EXCEPT ![c] = x]
    BY <1>1, <1>3 DEF Stored
  <1>5. /\ call'[c] = x /\ \A d \in Calls \ {c} : call'[d] = base[d]
        /\ call' = [d \in Calls |-> call'[d]]
    BY <1>3, <1>4
  <1>6. /\ x \in Call /\ x.attempt = call[c].attempt /\ x.kind = call[c].kind
        /\ x.at = "answered" /\ x.status = call[c].status /\ x.cookies = call[c].cookies
        /\ x.sets = {} /\ x.emptied = base[c].emptied
    BY <1>1, <1>2, EditsAre DEF Alike
  <1> HIDE DEF x
  <1>7. /\ CallGood(call[c], sessions) /\ jar' \in Cookies /\ Known(jar', sessions)
    BY <1>0, <1>1 DEF Good, CallGood, Call
  <1>8. TypeOK'
    <2>1. \A d \in Calls : call'[d] \in Call
      BY <1>2, <1>5, <1>6 DEF Alike
    <2>2. call' \in [Calls -> Call]
      BY <1>5, <2>1
    <2> QED
      BY <1>0, <1>1, <1>7, <2>2 DEF TypeOK
  <1>9. Good'
    <2>1. \A d \in Calls \ {c} : CallGood(call'[d], sessions)
      BY <1>0, <1>2, <1>5, AlikeGood DEF Good
    <2>2. CallGood(x, sessions)
      <3>1. CallGood(base[c], sessions)
        BY <1>0, <1>2, AlikeGood DEF Good
      <3> DEFINE y == base[c]
      <3>2. /\ CallGood(y, sessions) /\ x.attempt = y.attempt /\ x.kind = y.kind
            /\ x.at = y.at /\ x.status = y.status /\ x.cookies = y.cookies
            /\ x.emptied = y.emptied /\ x.sets = {}
        BY <1>1, <1>2, <1>6, <3>1 DEF Alike
      <3> HIDE DEF y
      <3>3. Answers(x)
        BY <3>2 DEF CallGood, Answers
      <3>4. RetryGood(x, sessions) /\ SignOutGood(x, sessions)
        BY <3>2 DEF CallGood, RetryGood, SignOutGood
      <3> QED
        BY <3>2, <3>3, <3>4 DEF CallGood
    <2>3. \A d \in Calls \ {c} : RefreshedGood(call'[d], jar')
      BY <1>2, <1>5 DEF Alike, Refreshed, RefreshedGood
    <2>4. RefreshedGood(x, jar')
      BY <1>1, <1>6, <1>7 DEF CallGood, Answers, RefreshedGood
    <2> QED
      BY <1>0, <1>1, <1>5, <1>7, <2>1, <2>2, <2>3, <2>4 DEF Good
  <1>10. ASSUME Current PROVE Current'
    <2>1. \A d \in Calls \ {c} : Alike(call[d], call'[d])
      BY <1>2, <1>5
    <2> QED
      BY <1>0, <1>1, <1>5, <1>6, <1>10, <2>1, ReplacedCurrent
  <1> QED
    BY <1>0, <1>1, <1>8, <1>9, <1>10 DEF Inv, Undisturbed

\* The next attempt of a call: a refresh without a second one under way, or a
\* retry with the cookies of the moment.
LEMMA AgainStep ==
  ASSUME Inv, NEW c \in Calls, NEW attempt \in {"refresh", "retry"}, NEW x \in Call,
         Becomes(c, x), x.attempt = attempt, x.kind = "change", x.at = "sent", x.sets = {},
         x.cookies = Sent("change", attempt, jar),
         attempt = "retry" => x.emptied \/ jar.access,
         call[c].sets = {},
         attempt = "refresh" /\ ~disturbed' =>
           \A d \in Calls \ {c} : call[d].attempt # "refresh",
         disturbed' \in BOOLEAN, disturbed => disturbed',
         UNCHANGED <<sessions, jar, tab, signedOut, reused>>
  PROVE  Inv'
  <1>0. TypeOK /\ Good /\ jar \in Cookies /\ Known(jar, sessions)
    BY DEF Inv, TypeOK, Good
  <1>1. /\ Known(x.cookies, sessions)
        /\ attempt = "refresh" => x.cookies.sid = jar.sid /\ x.cookies.nonce = jar.nonce
        /\ attempt = "retry" => x.cookies.access = jar.access
    BY <1>0, SentIs
  <1>2. CallGood(x, sessions) /\ RefreshedGood(x, jar)
    BY <1>1, NewCallGood DEF RefreshedGood
  <1>3. /\ tab' \in [Tabs -> Tab] /\ signedOut' \in [Tabs -> SUBSET SessionIds]
        /\ \A u \in Tabs : TabGood(tab'[u], signedOut'[u], sessions)
    BY <1>0 DEF TypeOK, Good
  <1> QED
    BY <1>1, <1>2, <1>3, ReplacedStep

LEMMA ResumeStep ==
  ASSUME Inv, NEW c \in Calls, Resume(c)
  PROVE  Inv'
  <1>0. /\ TypeOK /\ Good /\ jar \in Cookies /\ Known(jar, sessions)
        /\ call[c] \in Call /\ CallGood(call[c], sessions) /\ RefreshedGood(call[c], jar)
        /\ disturbed \in BOOLEAN
    BY DEF Inv, TypeOK, Good
  <1>1. /\ call[c].attempt # "idle" /\ call[c].at = "answered" /\ call[c].sets = {}
        /\ UNCHANGED <<sessions, jar, reused>>
    BY DEF Resume, Awaited
  <1>2. call[c].tab \in Tabs \cup {NoTab} /\ call[c].kind \in {"change", "login", "logout"}
        /\ call[c].emptied \in BOOLEAN
    BY <1>0 DEF Call
  <1>3. CASE call[c].status = 401 /\ MayRefresh(c) /\ SendRefresh(c)
    <2> DEFINE x == Attempt(call[c].kind, call[c].tab, "refresh", jar)
    <2>1. call[c].kind = "change"
      BY <1>2, <1>3 DEF MayRefresh, ShouldSkipRefresh
    <2>2. Becomes(c, x) /\ UNCHANGED <<tab, signedOut>>
      BY <1>3 DEF SendRefresh, Becomes
    <2>3. /\ disturbed' \in BOOLEAN /\ (disturbed => disturbed')
          /\ ~disturbed' => \A d \in Calls \ {c} : call[d].attempt # "refresh"
      BY <1>0, <1>3 DEF SendRefresh, Refreshing
    <2>4. /\ x \in Call /\ x.attempt = "refresh" /\ x.kind = "change" /\ x.at = "sent"
          /\ x.sets = {} /\ x.cookies = Sent("change", "refresh", jar)
      BY <1>0, <1>2, <2>1, AttemptIs
    <2> HIDE DEF x
    <2> QED
      BY <1>1, <2>2, <2>3, <2>4, AgainStep
  <1>4. CASE call[c].status = 200 /\ call[c].attempt = "refresh" /\ SendRetry(c)
    <2> DEFINE a == Attempt(call[c].kind, call[c].tab, "retry", jar)
               b == call[c].emptied
               x == [a EXCEPT !.emptied = b]
    <2>1. call[c].kind = "change" /\ (b \/ jar.access)
      BY <1>0, <1>1, <1>4 DEF CallGood, Answers, RefreshedGood
    <2>2. Becomes(c, x) /\ UNCHANGED <<tab, signedOut, disturbed>>
      BY <1>4 DEF SendRetry, Becomes, RetryCookies
    <2>3. /\ a \in Call /\ a.attempt = "retry" /\ a.kind = "change" /\ a.at = "sent"
          /\ a.sets = {} /\ a.cookies = Sent("change", "retry", jar)
      BY <1>0, <1>2, <2>1, AttemptIs
    <2>4. b \in BOOLEAN
      BY <1>2
    <2> HIDE DEF a, b
    <2>5. x \in Call
      <3> DEFINE tabs == Tabs \cup {NoTab}
                 statuses == {200, 401}
                 answers == SUBSET Cookies
      <3>1. a \in Fields(tabs, statuses, answers)
        BY <2>3, CallIsFields, Zenon
      <3>2. Call = Fields(tabs, statuses, answers)
        BY CallIsFields, Zenon
      <3> HIDE DEF tabs, statuses, answers
      <3>3. x \in Fields(tabs, statuses, answers)
        BY <2>4, <3>1 DEF Fields
      <3> QED
        BY <3>2, <3>3
    <2>6. /\ x.attempt = "retry" /\ x.kind = "change" /\ x.at = "sent" /\ x.sets = {}
          /\ x.cookies = Sent("change", "retry", jar) /\ x.emptied = b
      BY <2>3 DEF Call
    <2> HIDE DEF x
    <2> QED
      BY <1>0, <1>1, <2>1, <2>2, <2>5, <2>6, AgainStep
  <1>5. CASE call[c].status = 401 /\ End(c, FALSE)
    BY <1>1, <1>5, EndStep
  <1>6. CASE call[c].status = 200 /\ call[c].attempt # "refresh" /\ End(c, TRUE)
    BY <1>1, <1>6, EndStep
  <1> QED
    BY <1>3, <1>4, <1>5, <1>6 DEF Resume

-----------------------------------------------------------------------------
LEMMA InitInv == Init => Inv
  <1> SUFFICES ASSUME Init PROVE Inv
    OBVIOUS
  <1>1. TypeOK
    BY IdleCallIs, EmptyJarType DEF Init, TypeOK, SessionRow, ClosedTab, Tab
  <1>2. Good
    <2>1. Known(jar, sessions)
      BY EmptyJarType DEF Init, Known
    <2>2. \A c \in Calls : CallGood(call[c], sessions) /\ RefreshedGood(call[c], jar)
      BY IdleGood DEF Init
    <2>3. \A t \in Tabs : TabGood(tab[t], signedOut[t], sessions)
      BY EmptyJarType DEF Init, ClosedTab, TabGood, Known
    <2> QED
      BY <2>1, <2>2, <2>3 DEF Good
  <1>3. reused = {} /\ Current
    BY IdleCallIs, EmptyJarType
    DEF Init, Current, CallCurrent, OneRefresh, JarCurrent, NewSession, Matches
  <1> QED
    BY <1>1, <1>2, <1>3 DEF Inv, Undisturbed

LEMMA NextInv == Inv /\ [Next]_vars => Inv'
  <1> SUFFICES ASSUME Inv, [Next]_vars PROVE Inv'
    OBVIOUS
  <1>1. ASSUME NEW c \in Calls,
               Serve(c) \/ Store(c) \/ Resume(c) \/ Lose(c) \/ Vanish(c)
        PROVE  Inv'
    BY <1>1, ServeStep, StoreStep, ResumeStep, LoseStep, VanishStep
  <1>2. ASSUME NEW c \in Calls, NEW t \in Tabs, Change(c, t) \/ SignIn(c, t) \/ SignOut(c, t)
        PROVE  Inv'
    BY <1>2, StartStep DEF Change, SignIn, SignOut
  <1>3. ASSUME NEW t \in Tabs,
               ServeMe(t) \/ MeArrives(t) \/ MeFails(t) \/ RefetchMe(t) \/ Redirected(t)
        PROVE  Inv'
    BY <1>3, QueryStep
  <1>4. ASSUME NEW t \in Tabs, NEW page \in {"public", "login", "guarded"},
               OpenTab(t, page) \/ Visit(t, page)
        PROVE  Inv'
    BY <1>4, VisitStep
  <1>5. ASSUME NEW s \in SessionIds, RevokedElsewhere(s)
        PROVE  Inv'
    BY <1>5, RevokedElsewhereStep
  <1>6. CASE AccessExpires
    BY <1>6, AccessExpiresStep
  <1>7. CASE UNCHANGED vars
    BY <1>7 DEF vars, Inv, TypeOK, Good, Undisturbed, Current
  <1> QED
    BY <1>1, <1>2, <1>3, <1>4, <1>5, <1>6, <1>7 DEF Next

\* The inductive invariant holds throughout.
THEOREM ClientInvariant == Spec => []Inv
  BY InitInv, NextInv, PTL DEF Spec

\* Every variable keeps its type.
THEOREM ClientTypes == Spec => []TypeOK
  BY ClientInvariant, PTL DEF Inv

\* auth.service.ts takes a superseded token for a theft; the client presents
\* one only after two refreshes at once or the loss of an answer.
THEOREM ReuseNeedsDisturbanceHolds == Spec => []ReuseNeedsDisturbance
  <1>1. Inv => ReuseNeedsDisturbance
    BY DEF Inv, TypeOK, Undisturbed, ReuseNeedsDisturbance
  <1> QED
    BY <1>1, ClientInvariant, PTL

\* A sign-out that a tab saw succeed leaves its session closed for good.
THEOREM SignOutIsFinalHolds == Spec => []SignOutIsFinal
  <1>1. Inv => SignOutIsFinal
    BY DEF Inv, Good, TabGood, SignOutIsFinal
  <1> QED
    BY <1>1, ClientInvariant, PTL

\* No answer of GET /me brings back the session a tab signed out of.
THEOREM SignedOutTabForgetsHolds == Spec => []SignedOutTabForgets
  <1>1. Inv => SignedOutTabForgets
    BY DEF Inv, Good, TabGood, SignedOutTabForgets
  <1> QED
    BY <1>1, ClientInvariant, PTL

\* The retry of apiFetch is refused only for a session that is closed, or
\* because the access cookie went between the refresh and the retry.
THEOREM RetryRefusedHolds == Spec => []RetryRefusedOnlyIfClosed
  <1>1. Inv => RetryRefusedOnlyIfClosed
    BY DEF Inv, Good, CallGood, RetryGood, Known, RetryRefusedOnlyIfClosed
  <1> QED
    BY <1>1, ClientInvariant, PTL

-----------------------------------------------------------------------------
(* The API of this module is a session store *)

\* The refinement mapping: the person owns the sessions; their deadlines,
\* which nothing here reaches, are left out.
phaseBar ==
  [s \in SessionIds |-> CASE sessions[s].status = "NONE" -> "absent"
                          [] sessions[s].status = "ACTIVE" -> "live"
                          [] OTHER -> "dead"]
ownerBar ==
  [s \in SessionIds |-> IF sessions[s].status = "NONE" THEN "nobody" ELSE "person"]
deadlineBar == [s \in SessionIds |-> 0]
currentBar == [s \in SessionIds |-> sessions[s].hash]
exchangeBar ==
  [c \in Calls |-> IF call[c].attempt = "refresh" /\ call[c].at = "read"
                   THEN [sid |-> call[c].cookies.sid, token |-> call[c].cookies.nonce]
                   ELSE [sid |-> NoSession, token |-> 0]]

Lifecycle == INSTANCE SessionLifecycle WITH
  Users <- {"person"}, Nobody <- "nobody", Exchanges <- Calls,
  phase <- phaseBar, owner <- ownerBar, deadline <- deadlineBar,
  current <- currentBar, exchange <- exchangeBar

\* No hash is that of a token yet to be issued.
HashesIssued == \A s \in SessionIds : sessions[s].hash <= sessions[s].issued

\* What a step does to the table.
Signs(s) ==
  /\ sessions[s].status = "NONE"
  /\ sessions' = [sessions EXCEPT ![s] = [status |-> "ACTIVE", hash |-> 1, issued |-> 1]]

Closes(sids) ==
  /\ \A s \in sids : sessions[s].status # "NONE"
  /\ sessions' = Revoked(sids)

\* Nothing happens to the refreshes whose row is read and not yet written.
SameReads ==
  \A c \in Calls :
    /\ (call'[c].attempt = "refresh" /\ call'[c].at = "read")
         <=> (call[c].attempt = "refresh" /\ call[c].at = "read")
    /\ call[c].at = "read" => call'[c].cookies = call[c].cookies

LEMMA SameReadsBar == SameReads => exchangeBar' = exchangeBar
  BY DEF SameReads, exchangeBar

\* An attempt that is replaced by one that is not being served.
LEMMA ReadsKept ==
  ASSUME TypeOK, NEW c \in Calls, NEW x \in Call, Becomes(c, x),
         call[c].at # "read", x.at # "read"
  PROVE  SameReads
  BY DEF TypeOK, Becomes, SameReads

\* What a step does to the table and to the refreshes that are about to
\* write to it.
LEMMA TableSteps ==
  ASSUME Inv, [Next]_vars
  PROVE  \/ sessions' = sessions /\ SameReads
         \/ \E s \in SessionIds : Signs(s) /\ SameReads
         \/ \E c \in Calls : ServeRefreshRead(c) \/ ServeRefreshRotate(c)
         \/ \E sids \in SUBSET SessionIds : Closes(sids) /\ SameReads
  <1>1. \A c \in Calls : /\ call[c].cookies.sid \in SessionIds \cup {NoSession}
                         /\ CallGood(call[c], sessions) /\ call[c] \in Call
    BY DEF Inv, TypeOK, Good, Call, Cookies
  <1>0. TypeOK
    BY DEF Inv
  <1>a. call' = call => SameReads
    BY DEF SameReads
  <1>b. ASSUME NEW c \in Calls, NEW status \in {200, 401}, NEW sets \in SUBSET Cookies,
               call[c].at # "read", call' = Answered(c, status, sets)
        PROVE  SameReads
    <2> DEFINE x == Served(call[c], status, sets)
    <2>1. x \in Call /\ Becomes(c, x)
      BY <1>0, <1>b, AnsweredIs DEF Becomes
    <2>2. x.at # "read"
      BY <1>1, ResultIs, IdleCallIs DEF Served
    <2> HIDE DEF x
    <2> QED
      BY <1>0, <1>b, <2>1, <2>2, ReadsKept
  <1>2. ASSUME NEW c \in Calls, ServeLogin(c)
        PROVE  SameReads /\ (sessions' = sessions \/ \E s \in SessionIds : Signs(s))
    <2>1. call[c].at # "read"
      BY <1>2 DEF ServeLogin, Arrived
    <2>2. CASE call' = Answered(c, 401, {}) /\ UNCHANGED sessions
      BY <1>b, <2>1, <2>2
    <2>3. ASSUME NEW s \in SessionIds, sessions[s].status = "NONE",
                 sessions' = [sessions EXCEPT ![s] =
                   [status |-> "ACTIVE", hash |-> 1, issued |-> 1]],
                 call' = Answered(c, 200, AuthCookies(s, 1))
          PROVE  SameReads /\ Signs(s)
      BY <1>b, <2>1, <2>3, AuthCookiesAre DEF Signs
    <2> QED
      BY <1>2, <2>2, <2>3 DEF ServeLogin
  <1>3. ASSUME NEW c \in Calls, ServeLogout(c)
        PROVE  SameReads /\ \E sids \in SUBSET SessionIds : Closes(sids)
    <2>1. LogoutTarget(call[c].cookies) \in SUBSET SessionIds
      BY <1>1 DEF LogoutTarget
    <2>2. \A s \in LogoutTarget(call[c].cookies) : sessions[s].status # "NONE"
      BY <1>1 DEF LogoutTarget, CallGood, Known
    <2>3. SameReads
      BY <1>b, <1>3, EmptyJarType DEF ServeLogout, Arrived
    <2> QED
      BY <1>3, <2>1, <2>2, <2>3 DEF ServeLogout, Closes
  <1>4. ASSUME NEW c \in Calls, ServeRefreshReuse(c)
        PROVE  SameReads /\ \E sids \in SUBSET SessionIds : Closes(sids)
    <2>1. /\ call[c].cookies.sid \in SessionIds
          /\ sessions[call[c].cookies.sid].status = "ACTIVE"
      BY <1>1, <1>4 DEF ServeRefreshReuse, RefreshAccepted
    <2>2. sessions' = Revoked({call[c].cookies.sid})
      BY <1>4 DEF ServeRefreshReuse
    <2>3. SameReads
      BY <1>b, <1>4 DEF ServeRefreshReuse, RefreshArrived
    <2> QED
      BY <2>1, <2>2, <2>3 DEF Closes
  <1>6. ASSUME NEW s \in SessionIds, RevokedElsewhere(s)
        PROVE  SameReads /\ \E sids \in SUBSET SessionIds : Closes(sids)
    <2>1. {s} \in SUBSET SessionIds
      OBVIOUS
    <2> QED
      BY <1>a, <1>6, <2>1 DEF RevokedElsewhere, Closes
  <1>7. ASSUME NEW c \in Calls, ServeChange(c) \/ ServeRefreshRefused(c)
        PROVE  sessions' = sessions /\ SameReads
    BY <1>b, <1>7 DEF ServeChange, Arrived, ServeRefreshRefused, RefreshArrived
  <1>8. ASSUME NEW c \in Calls, Serve(c)
        PROVE  \/ sessions' = sessions /\ SameReads
               \/ \E s \in SessionIds : Signs(s) /\ SameReads
               \/ ServeRefreshRead(c) \/ ServeRefreshRotate(c)
               \/ \E sids \in SUBSET SessionIds : Closes(sids) /\ SameReads
    BY <1>2, <1>3, <1>4, <1>7, <1>8 DEF Serve, ServeRefresh
  <1>c. \A c \in Calls : Alike(call[c], call'[c]) => /\ call'[c].attempt = call[c].attempt
                                                    /\ call'[c].at = call[c].at
                                                    /\ call'[c].cookies = call[c].cookies
    BY DEF Alike
  <1>5. ASSUME NEW c \in Calls, Store(c)
        PROVE  sessions' = sessions /\ SameReads
    <2> DEFINE base == IF jar'.access THEN call ELSE Emptied
    <2>1. /\ call' = [base EXCEPT ![c].sets = {}] /\ call[c].at = "answered"
          /\ sessions' = sessions
      BY <1>5 DEF Store, Awaited
    <2>2. \A d \in Calls : Alike(call[d], base[d])
      BY <1>0, <1>1, EmptiedIs DEF Alike
    <2>3. base = [d \in Calls |-> base[d]]
      BY <1>0 DEF TypeOK, Emptied
    <2> HIDE DEF base
    <2>4. call'[c] = Stored(base[c]) /\ \A d \in Calls \ {c} : call'[d] = base[d]
      BY <2>1, <2>3 DEF Stored
    <2>5. call'[c].at = "answered"
      BY <2>1, <2>2, <2>4, EditsAre DEF Alike
    <2>6. \A d \in Calls \ {c} : /\ call'[d].attempt = call[d].attempt
                                  /\ call'[d].at = call[d].at
                                  /\ call'[d].cookies = call[d].cookies
      BY <1>c, <2>2, <2>4
    <2> QED
      BY <2>1, <2>5, <2>6 DEF SameReads
  <1>9. ASSUME NEW c \in Calls, Resume(c)
        PROVE  sessions' = sessions /\ SameReads
    <2>1. sessions' = sessions /\ call[c].at = "answered"
      BY <1>9 DEF Resume, Awaited
    <2>2. call'[c].at = "sent" /\ \A d \in Calls \ {c} : call'[d] = call[d]
      <3>1. CASE SendRefresh(c)
        BY <1>0, <3>1, AttemptRecord DEF SendRefresh, TypeOK
      <3>2. CASE SendRetry(c)
        BY <1>0, <3>2, AttemptRecord DEF SendRetry, TypeOK
      <3>3. CASE call' = [call EXCEPT ![c] = IdleCall]
        BY <1>0, <3>3, IdleCallIs DEF TypeOK
      <3> QED
        BY <1>9, <3>1, <3>2, <3>3 DEF Resume, End
    <2> QED
      BY <2>1, <2>2 DEF SameReads
  <1>10. ASSUME NEW c \in Calls, Lose(c)
         PROVE  sessions' = sessions /\ SameReads
    <2>1. sessions' = sessions
      BY <1>10 DEF Lose
    <2>2. CASE call[c].attempt = "refresh" /\ call[c].at # "answered"
      <3>1. Becomes(c, Left(call[c]))
        BY <1>10, <2>2 DEF Lose, Becomes, Left
      <3>2. \A d \in Calls : Alike(call[d], call'[d])
        BY <1>0, <1>1, <3>1, EditsAre DEF Becomes, TypeOK, Alike
      <3> QED
        BY <1>c, <2>1, <3>2 DEF SameReads
    <2>3. CASE ~ (call[c].attempt = "refresh" /\ call[c].at # "answered")
      <3>1. Becomes(c, IdleCall)
        BY <1>10, <2>3 DEF Lose, Becomes
      <3>2. call[c].at # "read"
        BY <1>1, <2>3 DEF CallGood, Answers
      <3> QED
        BY <1>0, <2>1, <3>1, <3>2, IdleCallIs, ReadsKept
    <2> QED
      BY <2>2, <2>3
  <1>11. ASSUME NEW c \in Calls, Vanish(c)
         PROVE  sessions' = sessions /\ SameReads
    <2>1. sessions' = sessions /\ Becomes(c, IdleCall) /\ call[c].at # "read"
      BY <1>11 DEF Vanish, Becomes
    <2> QED
      BY <1>0, <2>1, IdleCallIs, ReadsKept
  <1>12. ASSUME NEW c \in Calls, NEW t \in Tabs, Change(c, t) \/ SignIn(c, t) \/ SignOut(c, t)
         PROVE  sessions' = sessions /\ SameReads
    <2>1. /\ sessions' = sessions /\ call[c].attempt = "idle"
          /\ \A d \in Calls \ {c} : call'[d] = call[d]
          /\ call'[c].at = "sent" /\ call'[c].attempt = "first"
      BY <1>0, <1>12, AttemptRecord DEF Change, SignIn, SignOut, Start, TypeOK
    <2>2. call[c].at # "read"
      BY <1>1, <2>1 DEF CallGood, Answers
    <2> QED
      BY <2>1, <2>2 DEF SameReads
  <1>13. ASSUME NEW t \in Tabs,
                ServeMe(t) \/ MeArrives(t) \/ MeFails(t) \/ RefetchMe(t) \/ Redirected(t)
         PROVE  sessions' = sessions /\ SameReads
    BY <1>a, <1>13 DEF ServeMe, MeArrives, MeFails, RefetchMe, Redirected
  <1>14. ASSUME NEW t \in Tabs, NEW page, OpenTab(t, page) \/ Visit(t, page)
         PROVE  sessions' = sessions /\ SameReads
    BY <1>a, <1>14 DEF OpenTab, Visit
  <1>15. AccessExpires => sessions' = sessions /\ SameReads
    BY <1>0, <1>c, EmptiedIs DEF AccessExpires, SameReads
  <1>16. UNCHANGED vars => sessions' = sessions /\ SameReads
    BY <1>a DEF vars
  <1> QED
    BY <1>5, <1>6, <1>8, <1>9, <1>10, <1>11, <1>12, <1>13, <1>14, <1>15, <1>16 DEF Next

\* A rotation leaves the other rows, and the status of its own, alone.
LEMMA RotationIs ==
  ASSUME Inv, NEW c \in Calls, ServeRefreshRotate(c)
  PROVE  /\ call[c].cookies.sid \in SessionIds
         /\ sessions[call[c].cookies.sid].issued \in Nat
         /\ sessions'[call[c].cookies.sid].hash = sessions[call[c].cookies.sid].issued + 1
         /\ sessions'[call[c].cookies.sid].issued = sessions[call[c].cookies.sid].issued + 1
         /\ \A s \in SessionIds : sessions'[s].status = sessions[s].status
         /\ \A s \in SessionIds \ {call[c].cookies.sid} : sessions'[s] = sessions[s]
  <1> DEFINE s == call[c].cookies.sid
             row == sessions[s]
  <1>1. /\ CallGood(call[c], sessions) /\ call[c] \in Call
        /\ sessions \in [SessionIds -> SessionRow]
    BY DEF Inv, TypeOK, Good
  <1>2. s \in SessionIds
    BY <1>1 DEF ServeRefreshRotate, CallGood, Answers, Call, Cookies
  <1>3. row \in SessionRow /\ row.issued \in Nat
    BY <1>1, <1>2 DEF SessionRow
  <1>4. sessions' = [sessions EXCEPT ![s] = Rotated(row)]
    BY DEF ServeRefreshRotate
  <1>5. Rotated(row).issued = row.issued + 1
    BY <1>3 DEF Rotated, SessionRow
  <1>6. Rotated(row).status = row.status /\ Rotated(row).hash = row.issued + 1
    BY <1>3, RotatedIs
  <1>7. sessions'[s] = Rotated(row) /\ \A t \in SessionIds \ {s} : sessions'[t] = sessions[t]
    BY <1>1, <1>2, <1>4
  <1>8. \A t \in SessionIds : sessions'[t].status = sessions[t].status
    BY <1>6, <1>7
  <1> QED
    BY <1>2, <1>3, <1>5, <1>6, <1>7, <1>8

LEMMA HashesStep ==
  ASSUME Inv, HashesIssued, [Next]_vars
  PROVE  HashesIssued'
  <1>1. sessions \in [SessionIds -> SessionRow]
    BY DEF Inv, TypeOK
  <1>2. ASSUME NEW s \in SessionIds, Signs(s)
        PROVE  HashesIssued'
    BY <1>1, <1>2 DEF Signs, HashesIssued
  <1>3. ASSUME NEW c \in Calls, ServeRefreshRotate(c)
        PROVE  HashesIssued'
    <2>1. \A s \in SessionIds : sessions'[s].hash <= sessions'[s].issued
      BY <1>3, RotationIs DEF HashesIssued
    <2> QED
      BY <2>1 DEF HashesIssued
  <1>4. ASSUME NEW sids \in SUBSET SessionIds, Closes(sids)
        PROVE  HashesIssued'
    <2>1. \A s \in SessionIds :
            /\ [sessions[s] EXCEPT !.status = "REVOKED"].hash = sessions[s].hash
            /\ [sessions[s] EXCEPT !.status = "REVOKED"].issued = sessions[s].issued
      BY <1>1 DEF SessionRow
    <2> QED
      BY <1>4, <2>1 DEF Closes, Revoked, HashesIssued
  <1>5. sessions' = sessions => HashesIssued'
    BY DEF HashesIssued
  <1>6. ASSUME NEW c \in Calls, ServeRefreshRead(c)
        PROVE  sessions' = sessions
    BY <1>6 DEF ServeRefreshRead
  <1> QED
    BY <1>2, <1>3, <1>4, <1>5, <1>6, TableSteps

LEMMA SignsRefines ==
  ASSUME Inv, NEW s \in SessionIds, Signs(s), SameReads
  PROVE  Lifecycle!Open(s)
  <1>1. sessions \in [SessionIds -> SessionRow]
    BY DEF Inv, TypeOK
  <1>2. /\ sessions'[s].status = "ACTIVE" /\ sessions'[s].hash = 1
        /\ \A t \in SessionIds \ {s} : sessions'[t] = sessions[t]
        /\ sessions[s].status = "NONE"
    BY <1>1 DEF Signs
  <1>3. phaseBar[s] = "absent" /\ phaseBar' = [phaseBar EXCEPT ![s] = "live"]
    BY <1>2 DEF phaseBar
  <1>4. ownerBar'[s] \in {"person"} /\ ownerBar' = [ownerBar EXCEPT ![s] = ownerBar'[s]]
    BY <1>2 DEF ownerBar
  <1>5. deadlineBar'[s] \in Nat /\ deadlineBar' = [deadlineBar EXCEPT ![s] = deadlineBar'[s]]
    BY DEF deadlineBar
  <1>6. currentBar' = [currentBar EXCEPT ![s] = 1]
    BY <1>2 DEF currentBar
  <1> QED
    BY <1>3, <1>4, <1>5, <1>6, SameReadsBar DEF Lifecycle!Open

LEMMA ClosesRefines ==
  ASSUME Inv, NEW sids \in SUBSET SessionIds, Closes(sids), SameReads
  PROVE  Lifecycle!Close
  <1> DEFINE closed == {s \in sids : sessions[s].status = "ACTIVE"}
  <1>1. sessions \in [SessionIds -> SessionRow]
    BY DEF Inv, TypeOK
  <1>2. \A s \in SessionIds :
          /\ s \in sids => sessions'[s].status = "REVOKED" /\ sessions[s].status # "NONE"
          /\ s \notin sids => sessions'[s] = sessions[s]
          /\ sessions'[s].hash = sessions[s].hash
    <2>1. \A s \in SessionIds :
            sessions'[s] = IF s \in sids THEN [sessions[s] EXCEPT !.status = "REVOKED"]
                           ELSE sessions[s]
      BY DEF Closes, Revoked
    <2>2. \A s \in SessionIds :
            /\ [sessions[s] EXCEPT !.status = "REVOKED"].status = "REVOKED"
            /\ [sessions[s] EXCEPT !.status = "REVOKED"].hash = sessions[s].hash
      BY <1>1 DEF SessionRow
    <2> QED
      BY <2>1, <2>2 DEF Closes
  <1>3. \A s \in SessionIds : sessions[s].status \in {"NONE", "ACTIVE", "REVOKED"}
    BY <1>1 DEF SessionRow
  <1>4. closed \in SUBSET {s \in SessionIds : phaseBar[s] = "live"}
    BY DEF phaseBar
  <1>5. phaseBar' = [s \in SessionIds |-> IF s \in closed THEN "dead" ELSE phaseBar[s]]
    BY <1>2, <1>3 DEF phaseBar
  <1>6. currentBar' = currentBar
    BY <1>2 DEF currentBar
  <1>7. ownerBar' = ownerBar /\ deadlineBar' = deadlineBar
    BY <1>2 DEF ownerBar, deadlineBar
  <1>8. exchangeBar' = [c \in Calls |-> IF c \in {} THEN Lifecycle!NoExchange ELSE exchangeBar[c]]
    BY SameReadsBar DEF exchangeBar
  <1>9. {} \in SUBSET Calls
    OBVIOUS
  <1> HIDE DEF closed
  <1> QED
    BY <1>4, <1>5, <1>6, <1>7, <1>8, <1>9 DEF Lifecycle!Close

\* A refresh that finds its token current begins an exchange.
LEMMA ReadRefines ==
  ASSUME Inv, NEW c \in Calls, ServeRefreshRead(c)
  PROVE  Lifecycle!Begin(c, call[c].cookies.sid) /\ call[c].cookies.sid \in SessionIds
  <1> DEFINE s == call[c].cookies.sid
  <1>1. /\ call[c].at = "sent" /\ call[c].attempt = "refresh" /\ call[c] \in Call
        /\ sessions[s].status = "ACTIVE" /\ sessions[s].hash = call[c].cookies.nonce
        /\ s \in SessionIds /\ UNCHANGED sessions
        /\ call \in [Calls -> Call]
    BY DEF Inv, TypeOK, ServeRefreshRead, RefreshArrived, RefreshAccepted, HashMatches, Call,
           Cookies
  <1>2. call' = [call EXCEPT ![c] = Reading(call[c])]
    BY DEF ServeRefreshRead, Reading
  <1>3. /\ call'[c].at = "read" /\ call'[c].attempt = "refresh"
        /\ call'[c].cookies = call[c].cookies
        /\ \A d \in Calls \ {c} : call'[d] = call[d]
    BY <1>1, <1>2, ReadingIs
  <1>4. phaseBar' = phaseBar /\ ownerBar' = ownerBar /\ deadlineBar' = deadlineBar
        /\ currentBar' = currentBar
    BY <1>1 DEF phaseBar, ownerBar, deadlineBar, currentBar
  <1>5. phaseBar[s] = "live" /\ currentBar[s] = call[c].cookies.nonce
    BY <1>1 DEF phaseBar, currentBar
  <1>6. exchangeBar[c] = Lifecycle!NoExchange
    BY <1>1 DEF exchangeBar, Lifecycle!NoExchange
  <1>7. exchangeBar'[c] = [sid |-> s, token |-> currentBar[s]]
    BY <1>3, <1>5 DEF exchangeBar
  <1>8. \A d \in Calls \ {c} : exchangeBar'[d] = exchangeBar[d]
    BY <1>3 DEF exchangeBar
  <1>9. /\ exchangeBar = [d \in Calls |-> exchangeBar[d]]
        /\ exchangeBar' = [d \in Calls |-> exchangeBar'[d]]
    BY DEF exchangeBar
  <1> HIDE DEF s
  <1>10. exchangeBar' = [exchangeBar EXCEPT ![c] = [sid |-> s, token |-> currentBar[s]]]
    BY <1>7, <1>8, <1>9, Zenon
  <1>11. Lifecycle!Begin(c, s)
    BY <1>4, <1>5, <1>6, <1>10 DEF Lifecycle!Begin
  <1> QED
    BY <1>1, <1>11 DEF s

\* A rotation completes it, current or not by then, also if nobody is left
\* to receive the new token.
LEMMA RotateRefines ==
  ASSUME Inv, HashesIssued, NEW c \in Calls, ServeRefreshRotate(c)
  PROVE  Lifecycle!Complete(c)
  <1> DEFINE s == call[c].cookies.sid
  <1>1. /\ s \in SessionIds /\ sessions[s].issued \in Nat
        /\ sessions'[s].hash = sessions[s].issued + 1
        /\ \A t \in SessionIds : sessions'[t].status = sessions[t].status
        /\ \A t \in SessionIds \ {s} : sessions'[t] = sessions[t]
    BY RotationIs
  <1>2. sessions[s].hash \in Nat /\ sessions[s].hash <= sessions[s].issued
    BY <1>1 DEF Inv, TypeOK, SessionRow, HashesIssued
  <1>3. call[c].attempt = "refresh" /\ call[c].at = "read"
    BY DEF ServeRefreshRotate
  <1>4. phaseBar' = phaseBar /\ ownerBar' = ownerBar /\ deadlineBar' = deadlineBar
    BY <1>1 DEF phaseBar, ownerBar, deadlineBar
  <1>5. exchangeBar[c] = [sid |-> s, token |-> call[c].cookies.nonce]
    BY <1>3 DEF exchangeBar
  <1>6. exchangeBar[c].sid = s
    BY <1>5
  <1>7. exchangeBar[c] # Lifecycle!NoExchange
    BY <1>1, <1>6, ClientConstants DEF Lifecycle!NoExchange
  <1>8. call'[c].at # "read" /\ \A d \in Calls \ {c} : call'[d] = call[d]
    <2> DEFINE sets == AuthCookies(s, sessions[s].issued + 1)
               x == Served(call[c], 200, sets)
    <2>1. call' = Answered(c, 200, sets)
      BY DEF ServeRefreshRotate
    <2>2. sets \in SUBSET Cookies
      <3> DEFINE n == sessions[s].issued + 1
      <3>1. n \in Nat
        BY <1>1
      <3> HIDE DEF n
      <3>2. AuthCookies(s, n) \in SUBSET Cookies
        BY <1>1, <3>1, AuthCookiesAre
      <3> QED
        BY <3>2 DEF n
    <2> HIDE DEF sets
    <2>3. TypeOK /\ call \in [Calls -> Call]
      BY DEF Inv, TypeOK
    <2>4. call[c] \in Call /\ call' = [call EXCEPT ![c] = x]
      BY <2>1, <2>2, <2>3, AnsweredIs
    <2>5. x.at # "read"
      BY <2>2, <2>4, ResultIs, IdleCallIs DEF Served
    <2> HIDE DEF x
    <2> QED
      BY <2>3, <2>4, <2>5
  <1>9. exchangeBar' = [exchangeBar EXCEPT ![c] = Lifecycle!NoExchange]
    <2>1. \A d \in Calls \ {c} : exchangeBar'[d] = exchangeBar[d]
      BY <1>8 DEF exchangeBar
    <2>2. exchangeBar'[c] = Lifecycle!NoExchange
      BY <1>8 DEF exchangeBar, Lifecycle!NoExchange
    <2>3. /\ exchangeBar = [d \in Calls |-> exchangeBar[d]]
          /\ exchangeBar' = [d \in Calls |-> exchangeBar'[d]]
      BY DEF exchangeBar
    <2> QED
      BY <2>1, <2>2, <2>3, Zenon
  <1>10. currentBar'[s] = sessions[s].issued + 1 /\ currentBar[s] = sessions[s].hash
    BY <1>1 DEF currentBar
  <1>11. currentBar' = [currentBar EXCEPT ![s] = currentBar'[s]]
    <2>1. \A t \in SessionIds \ {s} : currentBar'[t] = currentBar[t]
      BY <1>1 DEF currentBar
    <2>2. /\ currentBar = [t \in SessionIds |-> currentBar[t]]
          /\ currentBar' = [t \in SessionIds |-> currentBar'[t]]
      BY DEF currentBar
    <2> QED
      BY <1>1, <2>1, <2>2, Zenon
  <1>12. currentBar'[s] \in Nat /\ currentBar'[s] > currentBar[s]
    BY <1>1, <1>2, <1>10
  <1> HIDE DEF s
  <1> QED
    BY <1>4, <1>6, <1>7, <1>9, <1>11, <1>12 DEF Lifecycle!Complete

LEMMA StepRefines ==
  ASSUME Inv, HashesIssued, [Next]_vars
  PROVE  [Lifecycle!LifecycleNext]_(Lifecycle!lifecycleVars)
  <1>1. sessions' = sessions /\ SameReads => UNCHANGED Lifecycle!lifecycleVars
    BY SameReadsBar DEF Lifecycle!lifecycleVars, phaseBar, ownerBar, deadlineBar, currentBar
  <1>2. /\ (\E s \in SessionIds : Lifecycle!Open(s)) => Lifecycle!LifecycleNext
        /\ (\E c \in Calls : Lifecycle!Complete(c)) => Lifecycle!LifecycleNext
        /\ (\E s \in SessionIds : \E c \in Calls : Lifecycle!Begin(c, s))
             => Lifecycle!LifecycleNext
        /\ Lifecycle!Close => Lifecycle!LifecycleNext
    BY DEF Lifecycle!LifecycleNext
  <1>3. (\E s \in SessionIds : Signs(s) /\ SameReads) => Lifecycle!LifecycleNext
    BY <1>2, SignsRefines
  <1>4. (\E sids \in SUBSET SessionIds : Closes(sids) /\ SameReads) => Lifecycle!LifecycleNext
    BY <1>2, ClosesRefines
  <1>5. (\E c \in Calls : ServeRefreshRead(c)) => Lifecycle!LifecycleNext
    BY <1>2, ReadRefines
  <1>6. (\E c \in Calls : ServeRefreshRotate(c)) => Lifecycle!LifecycleNext
    BY <1>2, RotateRefines
  <1> QED
    BY <1>1, <1>3, <1>4, <1>5, <1>6, TableSteps

LEMMA InitRefines == Init => HashesIssued /\ Lifecycle!LifecycleInit
  BY DEF Init, HashesIssued, Lifecycle!LifecycleInit, Lifecycle!NoExchange, phaseBar, ownerBar,
         deadlineBar, currentBar, exchangeBar, IdleCall

\* The API that the client is modelled against keeps the promises of
\* SessionLifecycle, which the session code keeps (SessionsProofs!Refinement):
\* whatever refreshes, sign-outs and closings elsewhere overlap, no exchange
\* is begun with a superseded token and a closed session stays closed.
THEOREM ClientRefinement == Spec => Lifecycle!LifecycleSpec
  <1>1. Inv /\ HashesIssued /\ [Next]_vars => HashesIssued'
    BY HashesStep
  <1>2. Inv /\ HashesIssued /\ [Next]_vars =>
          [Lifecycle!LifecycleNext]_(Lifecycle!lifecycleVars)
    BY StepRefines
  <1> QED
    BY ClientInvariant, InitRefines, <1>1, <1>2, PTL DEF Spec, Lifecycle!LifecycleSpec
=============================================================================
