------------------------------ MODULE LoginForm ------------------------------
(***************************************************************************)
(* The sign-in page (login-form.tsx, lib/api/mfa.ts) over the server of    *)
(* module MfaLogin: the screens, the controls each of them enables, the    *)
(* cookies of the browser, and the answers that come back while the user   *)
(* has gone on clicking, or never.  Several tabs may share one browser.    *)
(*                                                                         *)
(* When fetch rejects, or the reading of the body does, the form stops     *)
(* waiting and its buttons work again; the server is not told, and serves  *)
(* the request that is left behind as if nothing had happened.             *)
(*                                                                         *)
(* A right password is assumed: module Accounts has the wrong ones.  Texts *)
(* of errors are left out; so is the resend link (module Verification).    *)
(***************************************************************************)
EXTENDS MfaLogin

CONSTANT MaxLost    \* bound on the requests and answers lost

ASSUME LoginFormConstants == MaxLost \in Nat

VARIABLES
  browserOf,   \* browserOf[t]: the browser of tab t, fixed
  jar,         \* the cookies of each browser
  form,        \* the state of each tab's form
  left,        \* the requests whose answer nobody awaits any more
  lost,        \* number of requests or answers lost so far
  abandoned    \* history: the challenges whose verification was left behind

clientVars == <<browserOf, jar, form, left, lost, abandoned>>

vars == <<serverVars, clientVars>>

-----------------------------------------------------------------------------
(* Types *)

\* challenge, device: MFA_CHALLENGE and TRUSTED_DEVICE; session: whose
\* access and refresh tokens the browser holds.
Jar == [challenge : ChallengeRef, device : Nat, session : Owner]

EmptyJar == [challenge |-> NoChallenge, device |-> 0, session |-> Nobody]

Form == [screen : {"credentials", "challenge", "dashboard"},
         challenge : ChallengeRef, signingIn : BOOLEAN, mfaSubmitting : BOOLEAN]

FreshForm == [screen |-> "credentials", challenge |-> NoChallenge,
              signingIn |-> FALSE, mfaSubmitting |-> FALSE]

\* Every variable has its type: the rows and cache entries of the server, the
\* cookies and the forms.
TypeOK ==
  /\ ServerTypeOK
  /\ browserOf \in [Tabs -> Browsers]
  /\ jar \in [Browsers -> Jar]
  /\ form \in [Tabs -> Form]
  /\ left \in SUBSET Requests
  /\ lost \in 0..MaxLost
  /\ abandoned \in SUBSET ChallengeRef

Init ==
  /\ ServerInit
  /\ browserOf \in [Tabs -> Browsers]
  /\ jar = [b \in Browsers |-> EmptyJar]
  /\ form = [t \in Tabs |-> FreshForm]
  /\ left = {}
  /\ lost = 0
  /\ abandoned = {}

-----------------------------------------------------------------------------
(* Controls *)

CanSignIn(t) == form[t].screen = "credentials" /\ ~form[t].signingIn

\* Mutation: the button stays enabled while a verification is under way.
CanVerifyAlways(t) == form[t].screen = "challenge"

\* The submit button is disabled while loading.
CanVerify(t) == form[t].screen = "challenge" /\ ~form[t].mfaSubmitting

\* Nothing disables the method tabs and "Back to sign in".
CanLeaveChallenge(t) == form[t].screen = "challenge"

\* The tabs of the challenge screen, one of which is chosen at any time.
AvailableMethods(u) == factors[u] \cup {"recovery"}

-----------------------------------------------------------------------------
(* Requests leave with the cookies of the moment. *)

Sent(q) ==
  [q EXCEPT !.pc = "arrived", !.answer = "none",
     !.cookie = IF q.kind = "login" THEN NoChallenge ELSE jar[browserOf[q.tab]].challenge,
     !.device = IF q.kind = "login" THEN jar[browserOf[q.tab]].device ELSE 0]

InFlight == {r \in Requests : requests[r].pc # "idle"}

\* Bound: no more sign-ins than the id pools can serve.
RoomForSignIn ==
  /\ Cardinality(InFlight) < Cardinality(FreshChallenges)
  /\ Cardinality(InFlight) < Cardinality(FreshSessions)

RoomForCeremony ==
  begun + Cardinality({r \in InFlight : requests[r].kind = "webauthnStart"}) < MaxCeremonies

RoomForDevice ==
  minted + Cardinality({r \in InFlight : requests[r].remember
                                              /\ requests[r].kind # "login"}) < MaxDevices

SignIn(r, t, u, remember) ==
  /\ requests[r].pc = "idle"
  /\ CanSignIn(t)
  /\ RoomForSignIn
  /\ requests' = [requests EXCEPT ![r] =
       Sent([IdleRequest EXCEPT !.kind = "login", !.tab = t,
                                !.userId = u, !.remember = remember])]
  /\ form' = [form EXCEPT ![t].signingIn = TRUE]
  /\ UNCHANGED <<challenges, ceremonies, begun, touches, signCount,
                 unusedCodes, devices, minted, sessions, browserOf, jar, left, lost, abandoned>>

\* submitTotp, submitRecovery, and the first call of submitWebAuthn.  by:
\* whose code is typed; another user's is a wrong one.
Verify(r, t, method, by, remember) ==
  /\ requests[r].pc = "idle"
  /\ CanVerify(t)
  /\ method \in AvailableMethods(challenges[form[t].challenge].userId)
  /\ Cardinality(InFlight) < Cardinality(FreshSessions)
  /\ method = "webauthn" => RoomForCeremony
  /\ remember => RoomForDevice /\ method # "recovery"
  /\ requests' = [requests EXCEPT ![r] =
       Sent([IdleRequest EXCEPT
         !.kind = IF method = "webauthn" THEN "webauthnStart" ELSE method,
         !.tab = t, !.challenge = form[t].challenge, !.by = by, !.remember = remember])]
  /\ form' = [form EXCEPT ![t].mfaSubmitting = TRUE]
  /\ UNCHANGED <<challenges, ceremonies, begun, touches, signCount,
                 unusedCodes, devices, minted, sessions, browserOf, jar, left, lost, abandoned>>

\* resetToCredentials leaves mfaSubmitting as it is.
BackToSignIn(t) ==
  /\ CanLeaveChallenge(t)
  /\ form' = [form EXCEPT ![t].screen = "credentials", ![t].challenge = NoChallenge]
  /\ UNCHANGED <<serverVars, browserOf, jar, left, lost, abandoned>>

\* From the dashboard: logout clears the tokens and the challenge cookie, and
\* the sign-in page mounts afresh.  Bound: only when the tab awaits nothing.
SignOut(t) ==
  /\ form[t].screen = "dashboard"
  /\ \A r \in Requests : requests[r].tab = t => r \in left
  /\ form' = [form EXCEPT ![t] = FreshForm]
  /\ jar' = [jar EXCEPT ![browserOf[t]].challenge = NoChallenge,
                        ![browserOf[t]].session = Nobody]
  /\ UNCHANGED <<serverVars, browserOf, left, lost, abandoned>>

-----------------------------------------------------------------------------
(* Answers *)

Answered(r, a) ==
  requests[r].pc = "answered" /\ requests[r].answer = a /\ r \notin left

Free(r) == requests' = [requests EXCEPT ![r] = IdleRequest]

\* Set-Cookie of the answers: setAuthCookies (and the end of the challenge, a
\* device token) with a session, the new challenge with MFA_REQUIRED.
TokensStored(q) ==
  LET b == browserOf[q.tab]
  IN  [jar EXCEPT ![b].session = q.userId,
                  ![b].challenge = IF q.kind = "login" THEN @ ELSE NoChallenge,
                  ![b].device = IF q.token = 0 THEN @ ELSE q.token]

ChallengeStored(q) == [jar EXCEPT ![browserOf[q.tab]].challenge = q.challenge]

\* completeLogin: the page is left, whatever it shows by now.
DeliverTokens(r) ==
  LET q == requests[r]
  IN  /\ Answered(r, "tokens")
      /\ jar' = TokensStored(q)
      /\ form' = [form EXCEPT ![q.tab] = [FreshForm EXCEPT
           !.screen = "dashboard",
           !.signingIn = q.kind # "login" /\ form[q.tab].signingIn,
           !.mfaSubmitting = q.kind = "login" /\ form[q.tab].mfaSubmitting]]
      /\ Free(r)
      /\ UNCHANGED <<challenges, ceremonies, begun, touches, signCount,
                     unusedCodes, devices, minted, sessions, browserOf, left, lost, abandoned>>

\* MFA_REQUIRED.  A page that has been left ignores all but the cookie.
DeliverChallenge(r) ==
  LET q == requests[r]
  IN  /\ Answered(r, "challenge")
      /\ jar' = ChallengeStored(q)
      /\ form' = [form EXCEPT ![q.tab] =
           IF @.screen = "dashboard" THEN [@ EXCEPT !.signingIn = FALSE]
           ELSE [@ EXCEPT !.screen = "challenge", !.challenge = q.challenge, !.signingIn = FALSE]]
      /\ Free(r)
      /\ UNCHANGED <<challenges, ceremonies, begun, touches, signCount,
                     unusedCodes, devices, minted, sessions, browserOf, left, lost, abandoned>>

\* `finally': the button works again.
Settle(r) ==
  form' = [form EXCEPT
    ![requests[r].tab].mfaSubmitting = requests[r].kind = "login" /\ @,
    ![requests[r].tab].signingIn = requests[r].kind # "login" /\ @]

Stop(r) == Settle(r) /\ Free(r)

\* startAuthentication: the key of the challenge's user is touched and the
\* assertion sent for the challenge the call was made for, or the prompt is
\* cancelled.
DeliverOptions(r) ==
  LET q == requests[r]
  IN  /\ Answered(r, "options")
      /\ \/ /\ touches' = [touches EXCEPT ![q.userId] = @ + 1]
            /\ requests' = [requests EXCEPT ![r] =
                 Sent([q EXCEPT !.kind = "webauthn", !.by = q.userId, !.attempt = 1,
                                !.userId = Nobody, !.count = touches[q.userId] + 1])]
            /\ UNCHANGED form
         \/ Stop(r) /\ UNCHANGED touches
      /\ UNCHANGED <<challenges, ceremonies, begun, signCount,
                     unusedCodes, devices, minted, sessions, browserOf, jar, left, lost, abandoned>>

\* A 401 is retried once by apiFetch when the refresh it tries first works,
\* that is when the browser still has an older session.  The refresh is no
\* step of its own: a sign-out between it and the retry takes the challenge
\* cookie along, and a retry without it is refused as if it had not been made.
Unauthorized(r) ==
  LET q == requests[r]
      retry == q.attempt = 1 /\ jar[browserOf[q.tab]].session # Nobody
  IN  /\ Answered(r, "unauthorized")
      /\ IF retry
         THEN requests' = [requests EXCEPT ![r] = Sent([q EXCEPT !.attempt = 2,
                                                                 !.userId = Nobody])]
              /\ UNCHANGED form
         ELSE Stop(r)
      /\ UNCHANGED <<challenges, ceremonies, begun, touches, signCount,
                     unusedCodes, devices, minted, sessions, browserOf, jar, left, lost, abandoned>>

DeliverFailure(r) ==
  /\ Answered(r, "failed")
  /\ Stop(r)
  /\ UNCHANGED <<challenges, ceremonies, begun, touches, signCount,
                 unusedCodes, devices, minted, sessions, browserOf, jar, left, lost, abandoned>>

Deliver(r) ==
  DeliverTokens(r) \/ DeliverChallenge(r) \/ DeliverOptions(r)
  \/ Unauthorized(r) \/ DeliverFailure(r)

\* The request, or its answer, is lost on the way; of an answer the cookies
\* may have been stored before its body was lost.
Lose(r) ==
  LET q == requests[r]
  IN  /\ q.pc # "idle" /\ r \notin left
      /\ lost < MaxLost
      /\ lost' = lost + 1
      /\ Settle(r)
      /\ \/ /\ q.pc # "answered"
            /\ left' = left \cup {r}
            /\ abandoned' = IF q.kind \in SecondFactor THEN abandoned \cup {q.challenge}
                            ELSE abandoned
            /\ UNCHANGED <<requests, jar>>
         \/ /\ q.pc \in {"arrived", "answered"}
            /\ Free(r)
            /\ UNCHANGED <<left, abandoned, jar>>
         \/ /\ q.pc = "answered" /\ q.answer \in {"tokens", "challenge"}
            /\ jar' = IF q.answer = "tokens" THEN TokensStored(q) ELSE ChallengeStored(q)
            /\ Free(r)
            /\ UNCHANGED <<left, abandoned>>
      /\ UNCHANGED <<challenges, ceremonies, begun, touches, signCount,
                     unusedCodes, devices, minted, sessions, browserOf>>

\* The answer to a request that was left behind goes nowhere.
Discard(r) ==
  /\ r \in left /\ requests[r].pc = "answered"
  /\ Free(r)
  /\ left' = left \ {r}
  /\ UNCHANGED <<challenges, ceremonies, begun, touches, signCount,
                 unusedCodes, devices, minted, sessions, browserOf, jar, form, lost, abandoned>>

\* The browser drops the challenge cookie, whose lifetime is that of the
\* challenge.  (To lose the device cookie is to revoke the device.)
CookieLapses(b) ==
  /\ jar[b].challenge # NoChallenge
  /\ ~challenges[jar[b].challenge].live
  /\ jar' = [jar EXCEPT ![b].challenge = NoChallenge]
  /\ UNCHANGED <<serverVars, browserOf, form, left, lost, abandoned>>

-----------------------------------------------------------------------------
Server(r) == RequestStep(r) /\ UNCHANGED clientVars

Next ==
  \/ \E c \in Challenges : ChallengeLapses(c) /\ UNCHANGED clientVars
  \/ \E r \in Requests, t \in Tabs, u \in Users, b \in RememberMe : SignIn(r, t, u, b)
  \/ \E r \in Requests, t \in Tabs, m \in SecondFactor, by \in TotpUsers \cup KeyUsers,
       b \in BOOLEAN :
       Verify(r, t, m, by, b)
  \/ \E t \in Tabs : BackToSignIn(t) \/ SignOut(t)
  \/ \E r \in Requests : Server(r) \/ Deliver(r) \/ Lose(r) \/ Discard(r)
  \/ \E r \in Requests : RequestFails(r) /\ UNCHANGED clientVars
  \/ \E u \in Users : RevokeAllTrustedDevices(u) /\ UNCHANGED clientVars
  \/ \E b \in Browsers : CookieLapses(b)

Spec == Init /\ [][Next]_vars

-----------------------------------------------------------------------------
(* Properties *)

Opened(s, vias) == sessions[s].via \in vias

\* A session opened with a second factor belongs to the user whose password
\* opened its challenge, and the factor was that user's own: no interleaving
\* of two sign-ins in the same browser mixes their challenges or factors.
FactorOfOwner ==
  \A s \in SessionIds : Opened(s, SecondFactor) =>
    /\ sessions[s].by = sessions[s].userId
    /\ challenges[sessions[s].challenge].userId = sessions[s].userId
    /\ sessions[s].via \in AvailableMethods(sessions[s].userId)

\* A user with a second factor never gets a session for the password alone:
\* without a factor, the browser was trusted by an earlier session of the
\* same user, opened with a code or a key.
PasswordAloneIsNotEnough ==
  \A s \in SessionIds : Opened(s, {"password", "device"}) =>
    \/ factors[sessions[s].userId] = {}
    \/ \E s2 \in SessionIds : /\ sessions[s2].userId = sessions[s].userId
                             /\ Opened(s2, {"totp", "webauthn"})

\* The challenge is read at the start of a verification and deleted at its
\* end, and nothing on the server keeps two of them from completing it.  The
\* form does, by having one verification of a tab under way: a challenge
\* opens two sessions only if one of its verifications was left behind.
SecondSessionNeedsLoss ==
  \A s, s2 \in SessionIds :
    /\ Opened(s, SecondFactor) /\ Opened(s2, SecondFactor)
    /\ sessions[s].challenge = sessions[s2].challenge /\ s # s2
    => sessions[s].challenge \in abandoned

\* Of the sign-ins that present the same recovery code at the same time, in
\* two tabs or one after the other, at most one gets a session.
RecoveryCodeSpentOnce ==
  \A s, s2 \in SessionIds :
    /\ Opened(s, {"recovery"}) /\ Opened(s2, {"recovery"})
    /\ sessions[s].userId = sessions[s2].userId
    => s = s2

\* A challenge is completed only after it has been deleted from the cache: a
\* session and a live challenge never belong to the same sign-in, so a failure
\* between the deletion and the session costs a sign-in, never a reuse.
CompletedChallengesAreDead ==
  \A s \in SessionIds :
    Opened(s, SecondFactor) => ~challenges[sessions[s].challenge].live
=============================================================================
