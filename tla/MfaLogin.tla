------------------------------ MODULE MfaLogin ------------------------------
(***************************************************************************)
(* The second factor of a sign-in, on the server: from the right password  *)
(* (the end of AuthService.login) through the login challenge kept in the  *)
(* cache, to the session (MfaService.verify...Login, finishMfaLogin).      *)
(*                                                                         *)
(* A request is a record with a step field; each action is the code from   *)
(* one await to the effect of the next cache or database call, so that     *)
(* other requests run in between.  What the user supplies is abstracted to *)
(* whose factor it is: "by" is the owner of the code or key, Nobody for a  *)
(* wrong code.  Each user has one security key and one recovery code left. *)
(* A request carries the cookies of the browser at the moment it was sent. *)
(* Module LoginForm is the client that sends the requests.                 *)
(***************************************************************************)
EXTENDS Integers, FiniteSets

CONSTANTS
  Users, Nobody,
  Tabs,                 \* browser tabs with the sign-in page
  NoTab,                \* the tab of an idle request slot
  Browsers,             \* cookie jars
  Challenges, NoChallenge,   \* the UUIDs issueLoginChallenge may draw
  SessionIds,           \* the UUIDs issueTokens may draw
  Requests,             \* slots for concurrent requests
  TotpUsers, KeyUsers,  \* users who have enrolled an authenticator, a key
  RememberMe,           \* the values of the "Keep me signed in" box
  MaxCeremonies,        \* bound on the WebAuthn ceremonies begun
  MaxDevices            \* bound on the trusted-device tokens minted

ASSUME MfaLoginConstants ==
  /\ RememberMe \subseteq BOOLEAN
  /\ MaxCeremonies \in Nat /\ MaxDevices \in Nat
  /\ TotpUsers \subseteq Users /\ KeyUsers \subseteq Users
  /\ Nobody \notin Users /\ NoTab \notin Tabs /\ NoChallenge \notin Challenges

VARIABLES
  challenges,   \* mfa:login-challenge entries of the cache
  ceremonies,   \* mfa:ceremony entries: the expected challenge, 0 for none
  begun,        \* number of ceremonies begun
  touches,      \* touches[u]: signature counter inside u's security key
  signCount,    \* signCount[u]: its copy in the webauthn_credentials table
  unusedCodes,  \* users whose recovery code has not been used
  devices,      \* trusted_devices: <<user, token>>
  minted,       \* number of trusted-device tokens minted
  sessions,     \* sessions created
  requests      \* requests in flight

serverVars == <<challenges, ceremonies, begun, touches, signCount,
                unusedCodes, devices, minted, sessions, requests>>

-----------------------------------------------------------------------------
(* Types *)

\* Enrolments do not change here: module MfaSettings has their changes.
factors ==
  [u \in Users |-> {f \in {"totp", "webauthn"} :
                     u \in IF f = "totp" THEN TotpUsers ELSE KeyUsers}]

Owner == Users \cup {Nobody}

ChallengeRef == Challenges \cup {NoChallenge}

\* live: the cache still has the entry (it is deleted by the completion of
\* the sign-in, or it lapses after MFA_CHALLENGE_TTL).
ChallengeEntry == [userId : Owner, rememberMe : BOOLEAN, live : BOOLEAN]

NoEntry == [userId |-> Nobody, rememberMe |-> FALSE, live |-> FALSE]

Kinds == {"login", "totp", "recovery", "webauthnStart", "webauthn"}

\* cookie, device: the MFA_CHALLENGE and TRUSTED_DEVICE cookies sent along.
\* nonce, count: the assertion of a security key.  token: a device token to
\* hand out, 0 for none.
RequestRecord ==
  [pc : {"idle", "arrived", "touch", "challenge", "factor", "credential",
         "counter", "ceremony", "close", "trust", "issue", "answered"},
   kind : Kinds, tab : Tabs \cup {NoTab}, userId : Owner,
   challenge : ChallengeRef, cookie : ChallengeRef, device : Nat,
   by : Owner, nonce : Nat, count : Nat, remember : BOOLEAN, token : Nat,
   attempt : {1, 2},
   answer : {"none", "tokens", "challenge", "options", "unauthorized", "failed"}]

IdleRequest ==
  [pc |-> "idle", kind |-> "login", tab |-> NoTab, userId |-> Nobody,
   challenge |-> NoChallenge, cookie |-> NoChallenge, device |-> 0,
   by |-> Nobody, nonce |-> 0, count |-> 0, remember |-> FALSE, token |-> 0,
   attempt |-> 1, answer |-> "none"]

\* A session, and (history) how it was obtained: the challenge completed and
\* the owner of the factor supplied.
SessionRow ==
  [userId : Owner, via : {"none", "password", "device"} \cup Kinds,
   challenge : ChallengeRef, by : Owner, rememberMe : BOOLEAN]

NoRow == [userId |-> Nobody, via |-> "none", challenge |-> NoChallenge,
          by |-> Nobody, rememberMe |-> FALSE]

ServerTypeOK ==
  /\ challenges \in [Challenges -> ChallengeEntry]
  /\ ceremonies \in [Challenges -> 0..MaxCeremonies]
  /\ begun \in 0..MaxCeremonies
  /\ touches \in [Users -> Nat]
  /\ signCount \in [Users -> Nat]
  /\ unusedCodes \in SUBSET Users
  /\ devices \in SUBSET (Users \X (1..MaxDevices))
  /\ minted \in 0..MaxDevices
  /\ sessions \in [SessionIds -> SessionRow]
  /\ requests \in [Requests -> RequestRecord]

ServerInit ==
  /\ challenges = [c \in Challenges |-> NoEntry]
  /\ ceremonies = [c \in Challenges |-> 0]
  /\ begun = 0
  /\ touches = [u \in Users |-> 0]
  /\ signCount = [u \in Users |-> 0]
  /\ unusedCodes = TotpUsers \cup KeyUsers
  /\ devices = {}
  /\ minted = 0
  /\ sessions = [s \in SessionIds |-> NoRow]
  /\ requests = [r \in Requests |-> IdleRequest]

-----------------------------------------------------------------------------
(* Helpers *)

Continue(r, step) == requests' = [requests EXCEPT ![r].pc = step]

Answer(r, a) == requests' = [requests EXCEPT ![r].pc = "answered", ![r].answer = a]

\* The last answer of a call carries the user and a device token, no more.
Finish(r, a) ==
  LET q == requests[r]
  IN  requests' = [requests EXCEPT ![r] =
        [IdleRequest EXCEPT !.pc = "answered", !.answer = a, !.kind = q.kind,
                            !.tab = q.tab, !.userId = q.userId, !.token = q.token]]

At(r, step, kinds) == requests[r].pc = step /\ requests[r].kind \in kinds

SecondFactor == {"totp", "recovery", "webauthn"}

FreshChallenges == {c \in Challenges : challenges[c].userId = Nobody}

FreshSessions == {s \in SessionIds : sessions[s] = NoRow}

\* Mutation: the device is looked up by its fingerprint alone.
TrustedDeviceAny(u, token) == \E v \in Users : <<v, token>> \in devices

TrustedDevice(u, token) == <<u, token>> \in devices

-----------------------------------------------------------------------------
(* login, after the password check *)

\* isDeviceTrusted looks the cookie's token up for this user.
LoginRead(r) ==
  LET u == requests[r].userId
  IN  /\ At(r, "arrived", {"login"})
      /\ Continue(r, IF factors[u] = {} THEN "issue"
                     ELSE IF TrustedDevice(u, requests[r].device) THEN "touch"
                     ELSE "challenge")
      /\ UNCHANGED <<challenges, ceremonies, begun, touches,
                     signCount, unusedCodes, devices, minted, sessions>>

\* touchTrustedDevice is an update by key: it throws if the row is gone.
TouchDevice(r) ==
  /\ At(r, "touch", {"login"})
  /\ IF TrustedDevice(requests[r].userId, requests[r].device)
     THEN requests' = [requests EXCEPT ![r].pc = "issue", ![r].device = 0]
     ELSE Finish(r, "failed")
  /\ UNCHANGED <<challenges, ceremonies, begun, touches,
                 signCount, unusedCodes, devices, minted, sessions>>

\* issueLoginChallenge, and the cookie the answer sets.
IssueLoginChallenge(r) ==
  /\ At(r, "challenge", {"login"})
  /\ \E c \in FreshChallenges :
       /\ challenges' = [challenges EXCEPT ![c] =
            [userId |-> requests[r].userId, rememberMe |-> requests[r].remember,
             live |-> TRUE]]
       /\ requests' = [requests EXCEPT ![r].pc = "answered",
                                       ![r].answer = "challenge", ![r].challenge = c]
  /\ UNCHANGED <<ceremonies, begun, touches,
                 signCount, unusedCodes, devices, minted, sessions>>

-----------------------------------------------------------------------------
(* The verification endpoints *)

\* requireMfaChallenge
ChallengeCookieMatches(r) ==
  requests[r].challenge # NoChallenge /\ requests[r].cookie = requests[r].challenge

\* The middleware, then getChallengeUser.
VerifyRead(r) ==
  LET c == requests[r].challenge
  IN  /\ At(r, "arrived", SecondFactor \cup {"webauthnStart"})
      /\ IF ChallengeCookieMatches(r) /\ challenges[c].live
         THEN requests' = [requests EXCEPT ![r].pc = "factor", ![r].cookie = NoChallenge,
                                           ![r].userId = challenges[c].userId]
         ELSE Answer(r, "unauthorized")
      /\ UNCHANGED <<challenges, ceremonies, begun, touches,
                     signCount, unusedCodes, devices, minted, sessions>>

\* verifyTotp against the stored secret of the challenge's user.
CheckTotp(r) ==
  LET u == requests[r].userId
  IN  /\ At(r, "factor", {"totp"})
      /\ IF "totp" \in factors[u] /\ requests[r].by = u
         THEN Continue(r, "close") ELSE Answer(r, "unauthorized")
      /\ UNCHANGED <<challenges, ceremonies, begun, touches,
                     signCount, unusedCodes, devices, minted, sessions>>

\* Mutation: the claim is not restricted to codes that are still unused.
ClaimableUsed(r) == requests[r].by = requests[r].userId

\* Mutation: the claim is not restricted to the user's own codes.
ClaimableAnyones(r) == requests[r].by \in unusedCodes

\* consumeRecoveryCode: one UPDATE ... WHERE userId, codeHash, usedAt null.
Claimable(r) == requests[r].by = requests[r].userId /\ requests[r].by \in unusedCodes

ConsumeRecoveryCode(r) ==
  /\ At(r, "factor", {"recovery"})
  /\ IF Claimable(r)
     THEN /\ unusedCodes' = unusedCodes \ {requests[r].by}
          /\ Continue(r, "close")
     ELSE Answer(r, "unauthorized") /\ UNCHANGED unusedCodes
  /\ UNCHANGED <<challenges, ceremonies, begun, touches,
                 signCount, devices, minted, sessions>>

\* The ceremony is stored under the id of the login challenge: a second one
\* replaces the first.
BeginWebAuthnLogin(r) ==
  LET c == requests[r].challenge
  IN  /\ At(r, "factor", {"webauthnStart"})
      /\ begun' = begun + 1
      /\ ceremonies' = [ceremonies EXCEPT ![c] = begun + 1]
      /\ requests' = [requests EXCEPT ![r].pc = "answered", ![r].answer = "options",
                                      ![r].nonce = begun + 1]
      /\ UNCHANGED <<challenges, touches,
                     signCount, unusedCodes, devices, minted, sessions>>

\* The assertion must answer the expected challenge of the ceremony read now.
ReadCeremony(r) ==
  LET expected == ceremonies[requests[r].challenge]
  IN  /\ At(r, "factor", {"webauthn"})
      /\ IF expected # 0 /\ requests[r].nonce = expected
         THEN Continue(r, "credential") ELSE Answer(r, "unauthorized")
      /\ UNCHANGED <<challenges, ceremonies, begun, touches,
                     signCount, unusedCodes, devices, minted, sessions>>

\* getCredentialForUser, then verifyAuthenticationResponse with the stored
\* counter: the library refuses a counter that has not grown.
CheckCredential(r) ==
  LET u == requests[r].userId
  IN  /\ At(r, "credential", {"webauthn"})
      /\ IF "webauthn" \in factors[u] /\ requests[r].by = u
            /\ requests[r].count > signCount[u]
         THEN Continue(r, "counter") ELSE Answer(r, "unauthorized")
      /\ UNCHANGED <<challenges, ceremonies, begun, touches,
                     signCount, unusedCodes, devices, minted, sessions>>

UpdateCredentialCounter(r) ==
  /\ At(r, "counter", {"webauthn"})
  /\ signCount' = [signCount EXCEPT ![requests[r].userId] = requests[r].count]
  /\ Continue(r, "ceremony")
  /\ UNCHANGED <<challenges, ceremonies, begun, touches,
                 unusedCodes, devices, minted, sessions>>

DeleteCeremony(r) ==
  /\ At(r, "ceremony", {"webauthn"})
  /\ ceremonies' = [ceremonies EXCEPT ![requests[r].challenge] = 0]
  /\ Continue(r, "close")
  /\ UNCHANGED <<challenges, begun, touches, signCount,
                 unusedCodes, devices, minted, sessions>>

\* Mutation: the challenge is left to lapse.
DeleteChallengeNever(r) ==
  /\ At(r, "close", SecondFactor)
  /\ Continue(r, IF requests[r].remember /\ requests[r].kind # "recovery"
                 THEN "trust" ELSE "issue")
  /\ UNCHANGED <<challenges, ceremonies, begun, touches, signCount,
                 unusedCodes, devices, minted, sessions>>

\* loginChallenges.delete.  Only a code or a key may trust the device.
DeleteChallenge(r) ==
  /\ At(r, "close", SecondFactor)
  /\ challenges' = [challenges EXCEPT ![requests[r].challenge].live = FALSE]
  /\ Continue(r, IF requests[r].remember /\ requests[r].kind # "recovery"
                 THEN "trust" ELSE "issue")
  /\ UNCHANGED <<ceremonies, begun, touches, signCount,
                 unusedCodes, devices, minted, sessions>>

\* Mutation: the row is written before the new token is drawn.
TrustDeviceStale(r) ==
  /\ At(r, "trust", SecondFactor)
  /\ minted' = minted + 1
  /\ devices' = devices \cup {<<requests[r].userId, minted>>}
  /\ requests' = [requests EXCEPT ![r].pc = "issue", ![r].token = minted + 1]
  /\ UNCHANGED <<challenges, ceremonies, begun, touches, signCount,
                 unusedCodes, sessions>>

TrustDevice(r) ==
  /\ At(r, "trust", SecondFactor)
  /\ minted' = minted + 1
  /\ devices' = devices \cup {<<requests[r].userId, minted + 1>>}
  /\ requests' = [requests EXCEPT ![r].pc = "issue", ![r].token = minted + 1]
  /\ UNCHANGED <<challenges, ceremonies, begun, touches,
                 signCount, unusedCodes, sessions>>

\* issueTokens.  finishMfaLogin passes rememberMe = false whatever the
\* challenge says; login passes what the user asked for.
IssueTokens(r) ==
  LET q == requests[r]
  IN  /\ q.pc = "issue"
      /\ \E s \in FreshSessions :
           sessions' = [sessions EXCEPT ![s] =
                [userId |-> q.userId,
                 via |-> IF q.kind # "login" THEN q.kind
                         ELSE IF factors[q.userId] = {} THEN "password" ELSE "device",
                 challenge |-> q.challenge, by |-> q.by,
                 rememberMe |-> q.kind = "login" /\ q.remember]]
      /\ Finish(r, "tokens")
      /\ UNCHANGED <<challenges, ceremonies, begun, touches,
                     signCount, unusedCodes, devices, minted>>

\* A statement fails or times out and the request is answered with a 500.
\* A failure that leaves nothing written is no different from a refusal.
RequestFails(r) ==
  /\ requests[r].pc \in {"ceremony", "close", "trust", "issue"}
  /\ Finish(r, "failed")
  /\ UNCHANGED <<challenges, ceremonies, begun, touches,
                 signCount, unusedCodes, devices, minted, sessions>>

\* MFA_CHALLENGE_TTL has passed.
ChallengeLapses(c) ==
  /\ challenges[c].live
  /\ challenges' = [challenges EXCEPT ![c].live = FALSE]
  /\ UNCHANGED <<ceremonies, begun, touches, signCount,
                 unusedCodes, devices, minted, sessions, requests>>

\* disable deletes the user's trusted devices (module MfaSettings).
RevokeAllTrustedDevices(u) ==
  /\ \E d \in devices : d[1] = u
  /\ devices' = {d \in devices : d[1] # u}
  /\ UNCHANGED <<challenges, ceremonies, begun, touches,
                 signCount, unusedCodes, minted, sessions, requests>>

RequestStep(r) ==
  \/ LoginRead(r) \/ TouchDevice(r) \/ IssueLoginChallenge(r)
  \/ VerifyRead(r) \/ CheckTotp(r) \/ ConsumeRecoveryCode(r)
  \/ BeginWebAuthnLogin(r) \/ ReadCeremony(r) \/ CheckCredential(r)
  \/ UpdateCredentialCounter(r) \/ DeleteCeremony(r) \/ DeleteChallenge(r)
  \/ TrustDevice(r) \/ IssueTokens(r)
=============================================================================
