--------------------------- MODULE LoginFormProofs ---------------------------
(***************************************************************************)
(* Theorems about module LoginForm: whose factor opens a session, when a   *)
(* challenge or a recovery code opens a second one, and what a trusted     *)
(* device rests on, for any number of tabs, browsers, requests, users,     *)
(* challenges and lost answers.  The bounds MaxCeremonies and MaxDevices   *)
(* play a part in the type theorem only: SignIn and Verify leave room for  *)
(* what they may use.                                                      *)
(***************************************************************************)
EXTENDS LoginForm, FiniteSetTheorems, TLAPS

\* The state that lasts, as an argument.
World ==
  [challenges |-> challenges, unused |-> unusedCodes, devices |-> devices,
   minted |-> minted, sessions |-> sessions]

-----------------------------------------------------------------------------
(* Types, without the bounds *)

Answers == {"none", "tokens", "challenge", "options", "unauthorized", "failed"}

Steps ==
  {"idle", "arrived", "touch", "challenge", "factor", "credential",
   "counter", "ceremony", "close", "trust", "issue", "answered"}

WorldType(w) ==
  /\ w.challenges \in [Challenges -> ChallengeEntry]
  /\ w.unused \in SUBSET Users
  /\ w.devices \in SUBSET (Users \X (Nat \ {0}))
  /\ w.minted \in Nat
  /\ w.sessions \in [SessionIds -> SessionRow]

TypeInv ==
  /\ WorldType(World)
  /\ ceremonies \in [Challenges -> Nat]
  /\ begun \in Nat
  /\ touches \in [Users -> Nat]
  /\ signCount \in [Users -> Nat]
  /\ requests \in [Requests -> RequestRecord]
  /\ browserOf \in [Tabs -> Browsers]
  /\ jar \in [Browsers -> Jar]
  /\ form \in [Tabs -> Form]
  /\ left \in SUBSET Requests
  /\ abandoned \in SUBSET ChallengeRef

-----------------------------------------------------------------------------
(* The invariant *)

\* A session of u that a code or a key has opened.
Vouched(u, w) ==
  \E s \in SessionIds : w.sessions[s].userId = u /\ w.sessions[s].via \in {"totp", "webauthn"}

\* Where token d is a device of u, u has shown a second factor.
Earned(d, w) ==
  /\ d <= w.minted
  /\ \A u \in Users : <<u, d>> \in w.devices => Vouched(u, w)

WorldOK(w) ==
  /\ \A c \in Challenges : w.challenges[c].live => w.challenges[c].userId # Nobody
  /\ \A u \in Users, d \in Nat : <<u, d>> \in w.devices => d <= w.minted

\* A verification that has read its challenge, and one whose factor was right.
Under(x) == x.kind \in SecondFactor /\ x.pc \in
  {"factor", "credential", "counter", "ceremony", "close", "trust", "issue"}

Passed(x) == x.kind \in SecondFactor /\ x.pc \in
  {"counter", "ceremony", "close", "trust", "issue"}

\* A verification works for the user of its challenge, with a factor of his,
\* and completes only a challenge that it has deleted.
VerificationOK(x, w) ==
  /\ Under(x) \/ (x.kind = "webauthnStart" /\ x.pc = "factor") =>
       /\ x.challenge \in Challenges /\ x.userId \in Users
       /\ w.challenges[x.challenge].userId = x.userId
  /\ Passed(x) => x.by = x.userId /\ x.kind \in AvailableMethods(x.userId)
  /\ Passed(x) /\ x.pc \in {"trust", "issue"} => ~w.challenges[x.challenge].live
  /\ Passed(x) /\ x.kind = "recovery" => x.userId \notin w.unused

\* A sign-in skips the second factor only on a device that has earned it.
SignInOK(x, w) ==
  /\ x.kind = "login" /\ x.pc \in {"arrived", "touch", "challenge", "issue"} =>
       x.userId \in Users
  /\ x.kind = "login" /\ x.pc = "issue" /\ factors[x.userId] # {} => Vouched(x.userId, w)
  /\ Earned(x.device, w)

\* A new device token names the user who has shown his factor, and leaves the
\* server with the session only.
TokenOK(x, w) ==
  /\ x.token <= w.minted
  /\ x.pc = "trust" => x.kind \in {"totp", "webauthn"}
  /\ x.token # 0 =>
       /\ x.pc = "issue" \/ (x.pc = "answered" /\ x.answer \in {"tokens", "failed"})
       /\ x.pc = "issue" =>
            /\ x.kind \in {"totp", "webauthn"}
            /\ \A u \in Users : <<u, x.token>> \in w.devices => u = x.userId
       /\ x.pc = "answered" /\ x.answer = "tokens" => Earned(x.token, w)

\* What answers belong to which calls.
AnswerOK(x) ==
  /\ x.pc = "answered" /\ x.answer = "options" =>
       x.kind = "webauthnStart" /\ x.userId \in Users
  /\ x.pc = "answered" /\ x.answer = "unauthorized" => x.kind # "login"

RequestOK(x, w) ==
  VerificationOK(x, w) /\ SignInOK(x, w) /\ TokenOK(x, w) /\ AnswerOK(x)

\* What a session rests on.
SessionOK(z, w) ==
  /\ z.via \in SecondFactor =>
       /\ z.userId \in Users /\ z.by = z.userId /\ z.via \in AvailableMethods(z.userId)
       /\ z.challenge \in Challenges
       /\ w.challenges[z.challenge].userId = z.userId /\ ~w.challenges[z.challenge].live
  /\ z.via = "recovery" => z.userId \notin w.unused
  /\ z.via = "password" => factors[z.userId] = {}
  /\ z.via = "device" => Vouched(z.userId, w)

\* A challenge that has opened a session is under no verification, unless one
\* was abandoned, and a recovery code that has is presented by none.
Apart(z, x) ==
  /\ z.via \in SecondFactor /\ Under(x) =>
       x.challenge # z.challenge \/ z.challenge \in abandoned
  /\ z.via = "recovery" /\ Passed(x) /\ x.kind = "recovery" => x.userId # z.userId

\* No recovery code is taken by two requests.
TakenOnce ==
  \A r, r2 \in Requests :
    LET x == requests[r]
        y == requests[r2]
    IN  /\ Passed(x) /\ x.kind = "recovery" /\ Passed(y) /\ y.kind = "recovery"
        /\ x.userId = y.userId
        => r = r2

\* A call that is not a sign-in is the only one that its tab waits for, and
\* shows there.
Verifying(x) == x.pc # "idle" /\ x.kind # "login"

TabsOK ==
  /\ \A r \in Requests :
       /\ requests[r].pc # "idle" => requests[r].tab \in Tabs
       /\ r \notin left /\ Verifying(requests[r]) => form[requests[r].tab].mfaSubmitting
  /\ \A r, r2 \in Requests \ left :
       (/\ Verifying(requests[r]) /\ Verifying(requests[r2])
        /\ requests[r].tab = requests[r2].tab)
       => r = r2

\* The challenge of a verification that was left behind is abandoned.
Pending(x) == x.kind \in SecondFactor /\ x.pc # "answered"

LeftOK ==
  \A r \in left :
    /\ requests[r].pc # "idle"
    /\ Pending(requests[r]) => requests[r].challenge \in abandoned

\* Tab t shows challenge c, or one of its calls is about it.
Holds(t, c) ==
  \/ t \in Tabs /\ form[t].challenge = c
  \/ \E r \in Requests : requests[r].tab = t /\ requests[r].challenge = c

\* A challenge is known to one tab only, and to none before it is issued.
HeldOnce ==
  \A c \in Challenges, t, t2 \in Tabs \cup {NoTab} :
    /\ Holds(t, c) /\ Holds(t2, c) => t = t2
    /\ Holds(t, c) => challenges[c].userId # Nobody

RequestsOK == \A r \in Requests : RequestOK(requests[r], World)

SessionsOK == \A s \in SessionIds : SessionOK(sessions[s], World)

ApartOK == \A s \in SessionIds, r \in Requests : Apart(sessions[s], requests[r])

JarsOK == \A b \in Browsers : Earned(jar[b].device, World)

PairsOK == TakenOnce /\ SecondSessionNeedsLoss /\ RecoveryCodeSpentOnce

Inv ==
  /\ TypeInv /\ WorldOK(World) /\ RequestsOK /\ SessionsOK /\ ApartOK /\ JarsOK
  /\ PairsOK /\ TabsOK /\ LeftOK /\ HeldOnce

-----------------------------------------------------------------------------
USE MfaLoginConstants

(* Records *)

Fields(steps, kinds, tabs, owners, refs, tries, replies) ==
  [pc : steps, kind : kinds, tab : tabs, userId : owners, challenge : refs,
   cookie : refs, device : Nat, by : owners, nonce : Nat, count : Nat,
   remember : BOOLEAN, token : Nat, attempt : tries, answer : replies]

LEMMA RequestIsFields ==
  RequestRecord = Fields(Steps, Kinds, Tabs \cup {NoTab}, Owner, ChallengeRef, {1, 2}, Answers)
  BY Zenon DEF RequestRecord, Fields, Steps, Answers

\* The ways a request is updated.
Moved(x, p) == [x EXCEPT !.pc = p]
Replied(x, a) == [x EXCEPT !.pc = "answered", !.answer = a]
Finished(x, a, kind, t, u, n) ==
  [x EXCEPT !.pc = "answered", !.answer = a, !.kind = kind, !.tab = t, !.userId = u,
            !.token = n]
Touched(x) == [x EXCEPT !.pc = "issue", !.device = 0]
Challenged(x, c) == [x EXCEPT !.pc = "answered", !.answer = "challenge", !.challenge = c]
Recognized(x, c, u) == [x EXCEPT !.pc = "factor", !.cookie = c, !.userId = u]
Offered(x, n) == [x EXCEPT !.pc = "answered", !.answer = "options", !.nonce = n]
Trusting(x, n) == [x EXCEPT !.pc = "issue", !.token = n]
Posted(x, c, n) ==
  [x EXCEPT !.pc = "arrived", !.answer = "none", !.cookie = c, !.device = n]
SignInCall(x, t, u, b) == [x EXCEPT !.kind = "login", !.tab = t, !.userId = u, !.remember = b]
VerifyCall(x, kind, t, c, u, b) ==
  [x EXCEPT !.kind = kind, !.tab = t, !.challenge = c, !.by = u, !.remember = b]
AssertCall(x, by, u, n) ==
  [x EXCEPT !.kind = "webauthn", !.by = by, !.attempt = 1, !.userId = u, !.count = n]
RetryCall(x, u) == [x EXCEPT !.attempt = 2, !.userId = u]

LEMMA FieldsUpdated ==
  ASSUME NEW steps, NEW kinds, NEW tabs, NEW owners, NEW refs, NEW tries, NEW replies,
         {"answered", "issue", "factor", "arrived"} \subseteq steps,
         {"login", "webauthn"} \subseteq kinds, {1, 2} \subseteq tries,
         {"none", "challenge", "options"} \subseteq replies,
         NEW x \in Fields(steps, kinds, tabs, owners, refs, tries, replies)
  PROVE  LET F == Fields(steps, kinds, tabs, owners, refs, tries, replies)
         IN  /\ \A p \in steps : Moved(x, p) \in F
             /\ \A a \in replies : Replied(x, a) \in F
             /\ \A a \in replies, kind \in kinds, t \in tabs, u \in owners, n \in Nat :
                  Finished(x, a, kind, t, u, n) \in F
             /\ Touched(x) \in F
             /\ \A c \in refs : Challenged(x, c) \in F
             /\ \A c \in refs, u \in owners : Recognized(x, c, u) \in F
             /\ \A n \in Nat : Offered(x, n) \in F
             /\ \A n \in Nat : Trusting(x, n) \in F
             /\ \A c \in refs, n \in Nat : Posted(x, c, n) \in F
             /\ \A t \in tabs, u \in owners, b \in BOOLEAN : SignInCall(x, t, u, b) \in F
             /\ \A kind \in kinds, t \in tabs, c \in refs, u \in owners, b \in BOOLEAN :
                  VerifyCall(x, kind, t, c, u, b) \in F
             /\ \A by \in owners, u \in owners, n \in Nat : AssertCall(x, by, u, n) \in F
             /\ \A u \in owners : RetryCall(x, u) \in F
  <1> DEFINE F == Fields(steps, kinds, tabs, owners, refs, tries, replies)
  <1>1. \A p \in steps : Moved(x, p) \in F
    BY DEF Fields, Moved
  <1>2. \A a \in replies : Replied(x, a) \in F
    BY DEF Fields, Replied
  <1>3. \A a \in replies, kind \in kinds, t \in tabs, u \in owners, n \in Nat :
          Finished(x, a, kind, t, u, n) \in F
    BY ZenonT(60) DEF Fields, Finished
  <1>4. Touched(x) \in F
    BY DEF Fields, Touched
  <1>5. \A c \in refs : Challenged(x, c) \in F
    BY DEF Fields, Challenged
  <1>6. \A c \in refs, u \in owners : Recognized(x, c, u) \in F
    BY DEF Fields, Recognized
  <1>7. \A n \in Nat : Offered(x, n) \in F
    BY DEF Fields, Offered
  <1>8. \A n \in Nat : Trusting(x, n) \in F
    BY DEF Fields, Trusting
  <1>9. \A c \in refs, n \in Nat : Posted(x, c, n) \in F
    BY ZenonT(60) DEF Fields, Posted
  <1>10. \A t \in tabs, u \in owners, b \in BOOLEAN : SignInCall(x, t, u, b) \in F
    BY ZenonT(60) DEF Fields, SignInCall
  <1>11. \A kind \in kinds, t \in tabs, c \in refs, u \in owners, b \in BOOLEAN :
           VerifyCall(x, kind, t, c, u, b) \in F
    BY ZenonT(60) DEF Fields, VerifyCall
  <1>12. \A by \in owners, u \in owners, n \in Nat : AssertCall(x, by, u, n) \in F
    BY ZenonT(60) DEF Fields, AssertCall
  <1>13. \A u \in owners : RetryCall(x, u) \in F
    BY DEF Fields, RetryCall
  <1> QED
    BY <1>1, <1>2, <1>3, <1>4, <1>5, <1>6, <1>7, <1>8, <1>9, <1>10, <1>11, <1>12, <1>13

\* A request stays a request.
LEMMA RequestUpdated ==
  ASSUME NEW x \in RequestRecord
  PROVE  /\ \A p \in Steps : Moved(x, p) \in RequestRecord
         /\ \A a \in Answers : Replied(x, a) \in RequestRecord
         /\ \A a \in Answers, kind \in Kinds, t \in Tabs \cup {NoTab}, u \in Owner, n \in Nat :
              Finished(x, a, kind, t, u, n) \in RequestRecord
         /\ Touched(x) \in RequestRecord
         /\ \A c \in ChallengeRef : Challenged(x, c) \in RequestRecord
         /\ \A c \in ChallengeRef, u \in Owner : Recognized(x, c, u) \in RequestRecord
         /\ \A n \in Nat : Offered(x, n) \in RequestRecord
         /\ \A n \in Nat : Trusting(x, n) \in RequestRecord
         /\ \A c \in ChallengeRef, n \in Nat : Posted(x, c, n) \in RequestRecord
         /\ \A t \in Tabs \cup {NoTab}, u \in Owner, b \in BOOLEAN :
              SignInCall(x, t, u, b) \in RequestRecord
         /\ \A kind \in Kinds, t \in Tabs \cup {NoTab}, c \in ChallengeRef, u \in Owner,
               b \in BOOLEAN : VerifyCall(x, kind, t, c, u, b) \in RequestRecord
         /\ \A by \in Owner, u \in Owner, n \in Nat : AssertCall(x, by, u, n) \in RequestRecord
         /\ \A u \in Owner : RetryCall(x, u) \in RequestRecord
  <1> DEFINE steps == Steps
             kinds == Kinds
             tabs == Tabs \cup {NoTab}
             owners == Owner
             refs == ChallengeRef
             tries == {1, 2}
             replies == Answers
             F == Fields(steps, kinds, tabs, owners, refs, tries, replies)
  <1>1. F = RequestRecord
    BY RequestIsFields, Zenon
  <1>2. /\ {"answered", "issue", "factor", "arrived"} \subseteq steps
        /\ {"login", "webauthn"} \subseteq kinds /\ {1, 2} \subseteq tries
        /\ {"none", "challenge", "options"} \subseteq replies
    BY DEF Steps, Kinds, Answers
  <1>3. x \in F
    BY <1>1, Zenon
  <1> HIDE DEF tabs, tries
  <1>4. /\ \A p \in steps : Moved(x, p) \in F
        /\ \A a \in replies : Replied(x, a) \in F
        /\ \A a \in replies, kind \in kinds, t \in tabs, u \in owners, n \in Nat :
             Finished(x, a, kind, t, u, n) \in F
        /\ Touched(x) \in F
        /\ \A c \in refs : Challenged(x, c) \in F
        /\ \A c \in refs, u \in owners : Recognized(x, c, u) \in F
    BY <1>2, <1>3, FieldsUpdated, Zenon
  <1>5. /\ \A n \in Nat : Offered(x, n) \in F
        /\ \A n \in Nat : Trusting(x, n) \in F
        /\ \A c \in refs, n \in Nat : Posted(x, c, n) \in F
        /\ \A t \in tabs, u \in owners, b \in BOOLEAN : SignInCall(x, t, u, b) \in F
        /\ \A kind \in kinds, t \in tabs, c \in refs, u \in owners, b \in BOOLEAN :
             VerifyCall(x, kind, t, c, u, b) \in F
        /\ \A by \in owners, u \in owners, n \in Nat : AssertCall(x, by, u, n) \in F
        /\ \A u \in owners : RetryCall(x, u) \in F
    BY <1>2, <1>3, FieldsUpdated, Zenon
  <1> QED
    BY <1>1, <1>4, <1>5, Zenon DEF tabs

\* The fields of an updated request that the invariant speaks of.
LEMMA MovedFields ==
  ASSUME NEW x \in RequestRecord, NEW p
  PROVE  LET y == Moved(x, p)
         IN  /\ y.pc = p /\ y.kind = x.kind /\ y.tab = x.tab
             /\ y.userId = x.userId /\ y.challenge = x.challenge /\ y.device = x.device
             /\ y.by = x.by /\ y.token = x.token /\ y.answer = x.answer
  BY DEF RequestRecord, Moved

LEMMA RepliedFields ==
  ASSUME NEW x \in RequestRecord, NEW a
  PROVE  LET y == Replied(x, a)
         IN  /\ y.pc = "answered" /\ y.kind = x.kind /\ y.tab = x.tab
             /\ y.userId = x.userId /\ y.challenge = x.challenge /\ y.device = x.device
             /\ y.by = x.by /\ y.token = x.token /\ y.answer = a
  BY DEF RequestRecord, Replied

LEMMA FinishedFields ==
  ASSUME NEW x \in RequestRecord, NEW a, NEW kind, NEW t, NEW u, NEW n
  PROVE  LET y == Finished(x, a, kind, t, u, n)
         IN  /\ y.pc = "answered" /\ y.kind = kind /\ y.tab = t
             /\ y.userId = u /\ y.challenge = x.challenge /\ y.device = x.device
             /\ y.by = x.by /\ y.token = n /\ y.answer = a
  BY DEF RequestRecord, Finished

LEMMA TouchedFields ==
  ASSUME NEW x \in RequestRecord
  PROVE  LET y == Touched(x)
         IN  /\ y.pc = "issue" /\ y.kind = x.kind /\ y.tab = x.tab
             /\ y.userId = x.userId /\ y.challenge = x.challenge /\ y.device = 0
             /\ y.by = x.by /\ y.token = x.token /\ y.answer = x.answer
  BY DEF RequestRecord, Touched

LEMMA ChallengedFields ==
  ASSUME NEW x \in RequestRecord, NEW c
  PROVE  LET y == Challenged(x, c)
         IN  /\ y.pc = "answered" /\ y.kind = x.kind /\ y.tab = x.tab
             /\ y.userId = x.userId /\ y.challenge = c /\ y.device = x.device
             /\ y.by = x.by /\ y.token = x.token /\ y.answer = "challenge"
  BY DEF RequestRecord, Challenged

LEMMA RecognizedFields ==
  ASSUME NEW x \in RequestRecord, NEW c, NEW u
  PROVE  LET y == Recognized(x, c, u)
         IN  /\ y.pc = "factor" /\ y.kind = x.kind /\ y.tab = x.tab
             /\ y.userId = u /\ y.challenge = x.challenge /\ y.device = x.device
             /\ y.by = x.by /\ y.token = x.token /\ y.answer = x.answer
  BY DEF RequestRecord, Recognized

LEMMA OfferedFields ==
  ASSUME NEW x \in RequestRecord, NEW n
  PROVE  LET y == Offered(x, n)
         IN  /\ y.pc = "answered" /\ y.kind = x.kind /\ y.tab = x.tab
             /\ y.userId = x.userId /\ y.challenge = x.challenge /\ y.device = x.device
             /\ y.by = x.by /\ y.token = x.token /\ y.answer = "options"
  BY DEF RequestRecord, Offered

LEMMA TrustingFields ==
  ASSUME NEW x \in RequestRecord, NEW n
  PROVE  LET y == Trusting(x, n)
         IN  /\ y.pc = "issue" /\ y.kind = x.kind /\ y.tab = x.tab
             /\ y.userId = x.userId /\ y.challenge = x.challenge /\ y.device = x.device
             /\ y.by = x.by /\ y.token = n /\ y.answer = x.answer
  BY DEF RequestRecord, Trusting

LEMMA PostedFields ==
  ASSUME NEW x \in RequestRecord, NEW c, NEW n
  PROVE  LET y == Posted(x, c, n)
         IN  /\ y.pc = "arrived" /\ y.kind = x.kind /\ y.tab = x.tab
             /\ y.userId = x.userId /\ y.challenge = x.challenge /\ y.device = n
             /\ y.by = x.by /\ y.token = x.token /\ y.answer = "none"
  BY DEF RequestRecord, Posted

LEMMA SignInCallFields ==
  ASSUME NEW x \in RequestRecord, NEW t, NEW u, NEW b
  PROVE  LET y == SignInCall(x, t, u, b)
         IN  /\ y.pc = x.pc /\ y.kind = "login" /\ y.tab = t
             /\ y.userId = u /\ y.challenge = x.challenge /\ y.device = x.device
             /\ y.by = x.by /\ y.token = x.token /\ y.answer = x.answer
  BY DEF RequestRecord, SignInCall

LEMMA VerifyCallFields ==
  ASSUME NEW x \in RequestRecord, NEW kind, NEW t, NEW c, NEW u, NEW b
  PROVE  LET y == VerifyCall(x, kind, t, c, u, b)
         IN  /\ y.pc = x.pc /\ y.kind = kind /\ y.tab = t
             /\ y.userId = x.userId /\ y.challenge = c /\ y.device = x.device
             /\ y.by = u /\ y.token = x.token /\ y.answer = x.answer
  BY DEF RequestRecord, VerifyCall

LEMMA AssertCallFields ==
  ASSUME NEW x \in RequestRecord, NEW by, NEW u, NEW n
  PROVE  LET y == AssertCall(x, by, u, n)
         IN  /\ y.pc = x.pc /\ y.kind = "webauthn" /\ y.tab = x.tab
             /\ y.userId = u /\ y.challenge = x.challenge /\ y.device = x.device
             /\ y.by = by /\ y.token = x.token /\ y.answer = x.answer
  BY DEF RequestRecord, AssertCall

LEMMA RetryCallFields ==
  ASSUME NEW x \in RequestRecord, NEW u
  PROVE  LET y == RetryCall(x, u)
         IN  /\ y.pc = x.pc /\ y.kind = x.kind /\ y.tab = x.tab
             /\ y.userId = u /\ y.challenge = x.challenge /\ y.device = x.device
             /\ y.by = x.by /\ y.token = x.token /\ y.answer = x.answer
  BY DEF RequestRecord, RetryCall

LEMMA IdleIs ==
  /\ IdleRequest \in RequestRecord
  /\ IdleRequest.pc = "idle" /\ IdleRequest.kind = "login" /\ IdleRequest.tab = NoTab
  /\ IdleRequest.userId = Nobody /\ IdleRequest.challenge = NoChallenge
  /\ IdleRequest.device = 0 /\ IdleRequest.by = Nobody /\ IdleRequest.token = 0
  /\ IdleRequest.answer = "none"
  BY DEF IdleRequest, RequestRecord, Kinds, Owner, ChallengeRef

-----------------------------------------------------------------------------
(* What time does to the world *)

\* The world goes on: challenges keep their users and do not come back to
\* life, codes are used up, new devices have new tokens, sessions stay.
Later(w, v) ==
  /\ \A c \in Challenges : w.challenges[c].userId # Nobody =>
       /\ v.challenges[c].userId = w.challenges[c].userId
       /\ v.challenges[c].live => w.challenges[c].live
  /\ v.unused \subseteq w.unused
  /\ w.minted <= v.minted
  /\ \A u \in Users, d \in Nat : d <= w.minted /\ <<u, d>> \in v.devices => <<u, d>> \in w.devices
  /\ \A s \in SessionIds : w.sessions[s] # NoRow => v.sessions[s] = w.sessions[s]

LEMMA VouchedStays ==
  ASSUME NEW w, NEW v, Later(w, v), NEW u, Vouched(u, w)
  PROVE  Vouched(u, v)
  <1> PICK s \in SessionIds :
        w.sessions[s].userId = u /\ w.sessions[s].via \in {"totp", "webauthn"}
    BY DEF Vouched
  <1>1. NoRow.via = "none"
    BY DEF NoRow
  <1>2. v.sessions[s] = w.sessions[s]
    BY <1>1 DEF Later
  <1> QED
    BY <1>2 DEF Vouched

LEMMA EarnedStays ==
  ASSUME NEW w, NEW v, WorldType(w), WorldType(v), Later(w, v), NEW d \in Nat, Earned(d, w)
  PROVE  Earned(d, v)
  <1>1. d <= v.minted
    BY DEF Earned, Later, WorldType
  <1>2. ASSUME NEW u \in Users, <<u, d>> \in v.devices
        PROVE  Vouched(u, v)
    <2>1. <<u, d>> \in w.devices
      BY <1>2 DEF Earned, Later
    <2> QED
      BY <2>1, VouchedStays DEF Earned
  <1> QED
    BY <1>1, <1>2 DEF Earned

LEMMA RequestTypes ==
  ASSUME NEW x \in RequestRecord
  PROVE  /\ x.kind \in Kinds /\ x.tab \in Tabs \cup {NoTab} /\ x.userId \in Owner
         /\ x.challenge \in ChallengeRef /\ x.device \in Nat /\ x.by \in Owner
         /\ x.count \in Nat /\ x.remember \in BOOLEAN /\ x.token \in Nat
  BY DEF RequestRecord

LEMMA RequestStays ==
  ASSUME NEW w, NEW v, WorldType(w), WorldType(v), Later(w, v),
         NEW x \in RequestRecord, RequestOK(x, w)
  PROVE  RequestOK(x, v)
  <1>1. Nobody \notin Users
    OBVIOUS
  <1>2. VerificationOK(x, v)
    BY <1>1 DEF RequestOK, VerificationOK, Later, Passed, Under
  <1>3. SignInOK(x, v)
    BY RequestTypes, VouchedStays, EarnedStays DEF RequestOK, SignInOK
  <1>4. TokenOK(x, v)
    <2>1. x.token <= v.minted
      BY RequestTypes DEF RequestOK, TokenOK, Later, WorldType
    <2>2. ASSUME x.token # 0, x.pc = "issue", NEW u \in Users, <<u, x.token>> \in v.devices
          PROVE  u = x.userId
      BY <2>2, RequestTypes DEF RequestOK, TokenOK, Later
    <2>3. ASSUME x.token # 0, x.pc = "answered", x.answer = "tokens"
          PROVE  Earned(x.token, v)
      BY <2>3, RequestTypes, EarnedStays DEF RequestOK, TokenOK
    <2> QED
      BY <2>1, <2>2, <2>3 DEF RequestOK, TokenOK
  <1> QED
    BY <1>2, <1>3, <1>4 DEF RequestOK

LEMMA SessionStays ==
  ASSUME NEW w, NEW v, Later(w, v), NEW z, SessionOK(z, w)
  PROVE  SessionOK(z, v)
  <1>1. z.via = "device" => Vouched(z.userId, v)
    BY VouchedStays DEF SessionOK
  <1> QED
    BY <1>1 DEF SessionOK, Later

LEMMA WorldIs ==
  /\ World.challenges = challenges /\ World.unused = unusedCodes /\ World.devices = devices
  /\ World.minted = minted /\ World.sessions = sessions
  /\ World'.challenges = challenges' /\ World'.unused = unusedCodes'
  /\ World'.devices = devices' /\ World'.minted = minted' /\ World'.sessions = sessions'
  BY DEF World

worldVars == <<challenges, unusedCodes, devices, minted, sessions>>

\* A step that leaves the world alone.
LEMMA SameWorld ==
  ASSUME Inv, UNCHANGED worldVars
  PROVE  World' = World /\ Later(World, World') /\ WorldType(World') /\ WorldOK(World')
  <1>1. World' = World
    BY DEF World, worldVars
  <1>2. WorldType(World) /\ WorldOK(World)
    BY DEF Inv, TypeInv
  <1>3. Later(World, World)
    BY <1>2 DEF Later, WorldType
  <1> QED
    BY <1>1, <1>2, <1>3

-----------------------------------------------------------------------------
(* What a step keeps *)

Becomes(r, y) == requests' = [requests EXCEPT ![r] = y]

CountersType ==
  /\ ceremonies \in [Challenges -> Nat] /\ begun \in Nat
  /\ touches \in [Users -> Nat] /\ signCount \in [Users -> Nat]

LEMMA Unfolded ==
  ASSUME Inv, NEW r \in Requests
  PROVE  /\ requests \in [Requests -> RequestRecord] /\ requests[r] \in RequestRecord
         /\ WorldType(World) /\ WorldOK(World) /\ RequestOK(requests[r], World)
         /\ CountersType
         /\ requests[r].pc # "idle" => requests[r].tab \in Tabs
         /\ requests[r].kind \in Kinds /\ requests[r].userId \in Owner
         /\ requests[r].challenge \in ChallengeRef
  <1>1. /\ requests \in [Requests -> RequestRecord] /\ requests[r] \in RequestRecord
        /\ WorldType(World) /\ CountersType
    BY DEF Inv, TypeInv, CountersType
  <1>2. /\ WorldOK(World) /\ RequestOK(requests[r], World)
        /\ requests[r].pc # "idle" => requests[r].tab \in Tabs
    BY DEF Inv, RequestsOK, TabsOK
  <1> QED
    BY <1>1, <1>2, RequestTypes

LEMMA BecomesIs ==
  ASSUME Inv, NEW r \in Requests, NEW y \in RequestRecord, Becomes(r, y)
  PROVE  /\ \A q \in Requests : requests'[q] = IF q = r THEN y ELSE requests[q]
         /\ requests' \in [Requests -> RequestRecord]
  BY DEF Inv, TypeInv, Becomes

LEMMA RequestsKept ==
  ASSUME Inv, NEW r \in Requests, NEW y \in RequestRecord, Becomes(r, y),
         WorldType(World'), Later(World, World'), RequestOK(y, World')
  PROVE  RequestsOK'
  <1> SUFFICES ASSUME NEW q \in Requests PROVE RequestOK(requests'[q], World')
    BY DEF RequestsOK
  <1>1. CASE q = r
    BY <1>1, BecomesIs
  <1>2. CASE q # r
    <2>1. RequestOK(requests[q], World')
      BY Unfolded, RequestStays
    <2> QED
      BY <1>2, <2>1, BecomesIs
  <1> QED
    BY <1>1, <1>2

LEMMA JarsKept ==
  ASSUME Inv, WorldType(World'), Later(World, World'), jar' = jar
  PROVE  JarsOK'
  <1> SUFFICES ASSUME NEW b \in Browsers PROVE Earned(jar[b].device, World')
    BY DEF JarsOK
  <1>1. jar[b].device \in Nat
    BY DEF Inv, TypeInv, Jar
  <1> QED
    BY <1>1, EarnedStays DEF Inv, TypeInv, JarsOK

LEMMA SessionsKept ==
  ASSUME Inv, Later(World, World'), sessions' = sessions
  PROVE  SessionsOK'
  BY SessionStays DEF Inv, SessionsOK

\* A call of a tab goes on as a call of that tab.
Resumes(x, y) == x.pc # "idle" /\ y.tab = x.tab /\ (Verifying(y) => x.kind # "login")

LEMMA TabsKept ==
  ASSUME Inv, NEW r \in Requests, NEW y \in RequestRecord, Becomes(r, y),
         Resumes(requests[r], y), form' = form, left' = left
  PROVE  TabsOK'
  <1>1. \A q \in Requests :
          /\ requests'[q].pc # "idle" => requests[q].pc # "idle"
          /\ requests'[q].tab = requests[q].tab
          /\ Verifying(requests'[q]) => Verifying(requests[q])
    BY BecomesIs DEF Resumes, Verifying
  <1> QED
    BY <1>1 DEF Inv, TabsOK

\* When an answer is taken, only the tab of its call may be free again.
LEMMA TabsFreed ==
  ASSUME Inv, NEW r \in Requests, Becomes(r, IdleRequest), left' = left \ {r},
         \A t \in Tabs : form[t].mfaSubmitting =>
           \/ form'[t].mfaSubmitting
           \/ r \notin left /\ Verifying(requests[r]) /\ t = requests[r].tab
  PROVE  TabsOK'
  <1>1. /\ ~Verifying(IdleRequest) /\ IdleRequest.pc = "idle"
        /\ \A q \in Requests : requests'[q] = IF q = r THEN IdleRequest ELSE requests[q]
    BY IdleIs, BecomesIs DEF Verifying
  <1>2. ASSUME NEW q \in Requests, q \notin left', Verifying(requests'[q])
        PROVE  form'[requests'[q].tab].mfaSubmitting
    <2>1. q # r /\ q \notin left /\ requests'[q] = requests[q] /\ Verifying(requests[q])
      BY <1>1, <1>2
    <2>2. /\ form[requests[q].tab].mfaSubmitting /\ requests[q].tab \in Tabs
          /\ ~(r \notin left /\ Verifying(requests[r]) /\ requests[q].tab = requests[r].tab)
      BY <2>1 DEF Inv, TabsOK, Verifying
    <2> QED
      BY <2>1, <2>2
  <1> QED
    BY <1>1, <1>2 DEF Inv, TabsOK

\* A call that was left behind goes on as it was.
Abides(x, y) ==
  y.pc # "idle" /\ (Pending(y) => Pending(x) /\ y.challenge = x.challenge)

LEMMA LeftKept ==
  ASSUME Inv, NEW r \in Requests, NEW y \in RequestRecord, Becomes(r, y),
         r \in left => Abides(requests[r], y), UNCHANGED <<left, abandoned>>
  PROVE  LeftOK'
  <1>1. \A q \in left : Abides(requests[q], requests'[q])
    BY BecomesIs DEF Inv, TypeInv, LeftOK, Abides
  <1> QED
    BY <1>1 DEF Inv, LeftOK, Abides

KeepsChallenge(x, y) == y.challenge = NoChallenge \/ (y.challenge = x.challenge /\ y.tab = x.tab)

\* A tab learns of no challenge that it did not hold.
LEMMA HeldKept ==
  ASSUME Inv, Later(World, World'),
         \A c \in Challenges, t \in Tabs \cup {NoTab} : Holds(t, c)' => Holds(t, c)
  PROVE  HeldOnce'
  <1>1. \A c \in Challenges : challenges[c].userId # Nobody => challenges'[c].userId # Nobody
    BY WorldIs DEF Later
  <1> QED
    BY <1>1 DEF Inv, HeldOnce

LEMMA HoldsLess ==
  ASSUME Inv, NEW r \in Requests, NEW y \in RequestRecord, Becomes(r, y),
         y.challenge \in Challenges => Holds(y.tab, y.challenge),
         \A t \in Tabs : form'[t].challenge \in Challenges => Holds(t, form'[t].challenge)
  PROVE  \A c \in Challenges, t \in Tabs \cup {NoTab} : Holds(t, c)' => Holds(t, c)
  BY BecomesIs DEF Holds

\* No request comes to work on a challenge or to take a code.
Follows(x, y) ==
  /\ Under(y) => Under(x) /\ y.challenge = x.challenge
  /\ Passed(y) /\ y.kind = "recovery" => Passed(x) /\ x.kind = "recovery" /\ y.userId = x.userId

LEMMA CrossKept ==
  ASSUME Inv, NEW r \in Requests, NEW y \in RequestRecord, Becomes(r, y),
         Follows(requests[r], y), sessions' = sessions, abandoned' = abandoned
  PROVE  ApartOK' /\ PairsOK'
  <1>1. \A q \in Requests : Follows(requests[q], requests'[q])
    BY BecomesIs DEF Follows
  <1>2. ApartOK'
    BY <1>1 DEF Inv, ApartOK, Apart, Follows
  <1>3. TakenOnce'
    BY <1>1 DEF Inv, PairsOK, TakenOnce, Follows
  <1> QED
    BY <1>2, <1>3 DEF Inv, PairsOK, SecondSessionNeedsLoss, RecoveryCodeSpentOnce, Opened

\* A request that does is on its own.
LEMMA CrossJoined ==
  ASSUME Inv, NEW r \in Requests, NEW y \in RequestRecord, Becomes(r, y),
         sessions' = sessions, abandoned' = abandoned,
         \A s \in SessionIds : Apart(sessions[s], y),
         Passed(y) /\ y.kind = "recovery" => \A q \in Requests \ {r} :
           Passed(requests[q]) /\ requests[q].kind = "recovery" => requests[q].userId # y.userId
  PROVE  ApartOK' /\ PairsOK'
  <1>1. \A q \in Requests : requests'[q] = IF q = r THEN y ELSE requests[q]
    BY BecomesIs
  <1>2. ApartOK'
    BY <1>1 DEF Inv, ApartOK, Apart
  <1>3. TakenOnce'
    BY <1>1 DEF Inv, PairsOK, TakenOnce
  <1> QED
    BY <1>2, <1>3 DEF Inv, PairsOK, SecondSessionNeedsLoss, RecoveryCodeSpentOnce, Opened

\* A step of the server that opens no session and issues no challenge.
LEMMA JoinStep ==
  ASSUME Inv, NEW r \in Requests, NEW y \in RequestRecord, Becomes(r, y),
         WorldType(World'), WorldOK(World'), Later(World, World'), CountersType',
         RequestOK(y, World'), sessions' = sessions, UNCHANGED clientVars,
         Resumes(requests[r], y), KeepsChallenge(requests[r], y), ApartOK', PairsOK',
         r \in left => Abides(requests[r], y)
  PROVE  Inv'
  <1>1. TypeInv'
    BY BecomesIs DEF Inv, TypeInv, CountersType, clientVars
  <1>2. RequestsOK' /\ JarsOK' /\ SessionsOK'
    BY RequestsKept, JarsKept, SessionsKept DEF clientVars
  <1>3. TabsOK' /\ LeftOK'
    BY TabsKept, LeftKept DEF clientVars
  <1>4. /\ \A t \in Tabs : form'[t].challenge \in Challenges => Holds(t, form'[t].challenge)
        /\ y.challenge \in Challenges => Holds(y.tab, y.challenge)
    BY DEF Holds, KeepsChallenge, clientVars
  <1>5. HeldOnce'
    BY <1>4, HoldsLess, HeldKept
  <1> QED
    BY <1>1, <1>2, <1>3, <1>5 DEF Inv

LEMMA ServerStep ==
  ASSUME Inv, NEW r \in Requests, NEW y \in RequestRecord, Becomes(r, y),
         WorldType(World'), WorldOK(World'), Later(World, World'), CountersType',
         RequestOK(y, World'), sessions' = sessions, UNCHANGED clientVars,
         Resumes(requests[r], y), KeepsChallenge(requests[r], y), Follows(requests[r], y),
         r \in left => Abides(requests[r], y)
  PROVE  Inv'
  <1>1. ApartOK' /\ PairsOK'
    BY CrossKept DEF clientVars
  <1> QED
    BY <1>1, JoinStep

\* A step that no request takes.
LEMMA WorldStep ==
  ASSUME Inv, WorldType(World'), WorldOK(World'), Later(World, World'), CountersType',
         UNCHANGED <<requests, sessions, clientVars>>
  PROVE  Inv'
  <1>1. TypeInv'
    BY DEF Inv, TypeInv, CountersType, clientVars
  <1>2. RequestsOK'
    BY Unfolded, RequestStays DEF RequestsOK
  <1>3. JarsOK' /\ SessionsOK'
    BY JarsKept, SessionsKept DEF clientVars
  <1>4. TabsOK' /\ LeftOK' /\ ApartOK' /\ PairsOK'
    BY DEF Inv, TabsOK, LeftOK, ApartOK, Apart, PairsOK, TakenOnce, SecondSessionNeedsLoss,
           RecoveryCodeSpentOnce, Opened, clientVars
  <1>5. HeldOnce'
    BY HeldKept DEF Holds, clientVars
  <1> QED
    BY <1>1, <1>2, <1>3, <1>4, <1>5 DEF Inv

-----------------------------------------------------------------------------
(* Steps of a sign-in *)

\* A step that moves a request on.
LEMMA MoveStep ==
  ASSUME Inv, NEW r \in Requests, NEW p \in Steps, Continue(r, p), p # "idle",
         requests[r].pc \notin {"idle", "answered"},
         WorldType(World'), WorldOK(World'), Later(World, World'), CountersType',
         sessions' = sessions, UNCHANGED clientVars,
         RequestOK(Moved(requests[r], p), World'), Follows(requests[r], Moved(requests[r], p))
  PROVE  Inv'
  <1> DEFINE x == requests[r]
             y == Moved(x, p)
  <1>1. y \in RequestRecord /\ Becomes(r, y)
    BY Unfolded, RequestUpdated DEF Continue, Becomes, Moved
  <1>2. y.pc = p /\ y.tab = x.tab /\ y.kind = x.kind /\ y.challenge = x.challenge
    BY Unfolded, MovedFields
  <1>3. RequestOK(y, World') /\ Follows(x, y)
    OBVIOUS
  <1> HIDE DEF y
  <1>4. Resumes(x, y) /\ KeepsChallenge(x, y) /\ Abides(x, y)
    BY <1>2 DEF Resumes, KeepsChallenge, Verifying, Abides, Pending
  <1> QED
    BY <1>1, <1>3, <1>4, ServerStep

\* A step that refuses a verification.
LEMMA RefuseStep ==
  ASSUME Inv, NEW r \in Requests, Answer(r, "unauthorized"), requests[r].kind # "login",
         requests[r].pc \in {"arrived", "factor", "credential"},
         UNCHANGED <<worldVars, clientVars>>, CountersType'
  PROVE  Inv'
  <1> DEFINE x == requests[r]
             y == Replied(x, "unauthorized")
  <1>1. y \in RequestRecord /\ Becomes(r, y)
    BY Unfolded, RequestUpdated DEF Answer, Becomes, Replied, Answers
  <1>2. /\ y.pc = "answered" /\ y.kind = x.kind /\ y.tab = x.tab
        /\ y.challenge = x.challenge /\ y.device = x.device
        /\ y.token = x.token /\ y.answer = "unauthorized"
    BY Unfolded, RepliedFields
  <1>3. RequestOK(x, World)
    BY Unfolded
  <1>4. World' = World /\ Later(World, World') /\ WorldType(World') /\ WorldOK(World')
    BY SameWorld
  <1> HIDE DEF x, y
  <1>5. RequestOK(y, World)
    BY <1>2, <1>3 DEF x, RequestOK, VerificationOK, SignInOK, TokenOK, AnswerOK, Under, Passed
  <1>6. Resumes(x, y) /\ KeepsChallenge(x, y) /\ Follows(x, y) /\ Abides(x, y)
    BY <1>2
    DEF x, Resumes, KeepsChallenge, Verifying, Follows, Under, Passed, Abides, Pending
  <1> QED
    BY <1>1, <1>4, <1>5, <1>6, ServerStep DEF x, worldVars, clientVars

\* A last answer that opens no session.
LEMMA FailStep ==
  ASSUME Inv, NEW r \in Requests, Finish(r, "failed"), requests[r].pc # "idle",
         UNCHANGED <<worldVars, clientVars>>, CountersType'
  PROVE  Inv'
  <1> DEFINE x == requests[r]
             y == Finished(IdleRequest, "failed", x.kind, x.tab, x.userId, x.token)
  <1>1. y \in RequestRecord
    <2>1. /\ x.kind \in Kinds /\ x.tab \in Tabs \cup {NoTab} /\ x.userId \in Owner
          /\ x.token \in Nat
      BY Unfolded, RequestTypes
    <2>2. "failed" \in Answers
      BY DEF Answers
    <2> HIDE DEF x
    <2> QED
      BY <2>1, <2>2, IdleIs, RequestUpdated
  <1>2. Becomes(r, y)
    BY Zenon DEF Finish, Becomes, Finished
  <1>3. /\ y.pc = "answered" /\ y.kind = x.kind /\ y.tab = x.tab
        /\ y.challenge = NoChallenge /\ y.device = 0
        /\ y.token = x.token /\ y.answer = "failed"
    BY IdleIs, FinishedFields
  <1>4. RequestOK(x, World) /\ WorldType(World)
    BY Unfolded
  <1>5. World' = World /\ Later(World, World') /\ WorldType(World') /\ WorldOK(World')
    BY SameWorld
  <1> HIDE DEF x, y
  <1>6. Earned(0, World)
    BY <1>4 DEF Earned, WorldType
  <1>7. RequestOK(y, World)
    BY <1>3, <1>4, <1>6 DEF RequestOK, VerificationOK, SignInOK, TokenOK, AnswerOK, Under, Passed
  <1>8. Resumes(x, y) /\ KeepsChallenge(x, y) /\ Follows(x, y) /\ Abides(x, y)
    BY <1>3
    DEF x, Resumes, KeepsChallenge, Verifying, Follows, Under, Passed, Abides, Pending
  <1> QED
    BY <1>1, <1>2, <1>5, <1>7, <1>8, ServerStep DEF x, worldVars, clientVars

LEMMA LoginReadStep ==
  ASSUME Inv, NEW r \in Requests, LoginRead(r), UNCHANGED clientVars
  PROVE  Inv'
  <1> DEFINE x == requests[r]
             p == IF factors[x.userId] = {} THEN "issue"
                  ELSE IF TrustedDevice(x.userId, x.device) THEN "touch" ELSE "challenge"
             y == Moved(x, p)
  <1>1. x.pc = "arrived" /\ x.kind = "login" /\ Continue(r, p) /\ RequestOK(x, World)
    BY Unfolded DEF LoginRead, At
  <1>2. /\ p \in Steps /\ p \in {"issue", "touch", "challenge"}
        /\ p = "issue" => factors[x.userId] = {}
    BY DEF Steps
  <1>3. World' = World /\ Later(World, World') /\ WorldType(World') /\ WorldOK(World')
    BY SameWorld DEF LoginRead, worldVars
  <1> HIDE DEF p
  <1>4. /\ y.pc = p /\ y.kind = "login" /\ y.userId = x.userId /\ y.device = x.device
        /\ y.token = x.token
    BY <1>1, Unfolded, MovedFields
  <1>5. CountersType' /\ sessions' = sessions
    BY Unfolded DEF LoginRead, CountersType
  <1> HIDE DEF x, y
  <1>6. RequestOK(y, World)
    BY <1>1, <1>2, <1>4
    DEF RequestOK, VerificationOK, SignInOK, TokenOK, AnswerOK, Under, Passed, SecondFactor
  <1>7. Follows(x, y)
    BY <1>4 DEF Follows, Under, Passed, SecondFactor
  <1> QED
    BY <1>1, <1>2, <1>3, <1>5, <1>6, <1>7, MoveStep DEF x, y

LEMMA TouchDeviceStep ==
  ASSUME Inv, NEW r \in Requests, TouchDevice(r), UNCHANGED clientVars
  PROVE  Inv'
  <1> DEFINE x == requests[r]
  <1>1. /\ x.pc = "touch" /\ x.kind = "login" /\ RequestOK(x, World) /\ WorldType(World)
        /\ CountersType' /\ sessions' = sessions
    BY Unfolded DEF TouchDevice, At, CountersType
  <1>2. World' = World /\ Later(World, World') /\ WorldType(World') /\ WorldOK(World')
    BY SameWorld DEF TouchDevice, worldVars
  <1>3. CASE TrustedDevice(x.userId, x.device)
    <2> DEFINE y == Touched(x)
    <2>1. y \in RequestRecord /\ Becomes(r, y)
      BY <1>3, Unfolded, RequestUpdated DEF TouchDevice, Becomes, Touched
    <2>2. /\ y.pc = "issue" /\ y.kind = "login" /\ y.userId = x.userId /\ y.device = 0
          /\ y.token = x.token /\ y.tab = x.tab /\ y.challenge = x.challenge
      BY <1>1, Unfolded, TouchedFields
    <2>3. Vouched(x.userId, World)
      BY <1>1, <1>3, WorldIs DEF RequestOK, SignInOK, Earned, TrustedDevice
    <2>4. Earned(0, World)
      BY <1>1 DEF Earned, WorldType
    <2> HIDE DEF x, y
    <2>5. RequestOK(y, World)
      BY <1>1, <2>2, <2>3, <2>4
      DEF RequestOK, VerificationOK, SignInOK, TokenOK, AnswerOK, Under, Passed, SecondFactor
    <2>6. Resumes(x, y) /\ KeepsChallenge(x, y) /\ Follows(x, y) /\ Abides(x, y)
      BY <1>1, <2>2
      DEF Resumes, KeepsChallenge, Verifying, Follows, Under, Passed, SecondFactor, Abides,
          Pending
    <2> QED
      BY <1>1, <1>2, <2>1, <2>5, <2>6, ServerStep DEF x, clientVars
  <1>4. CASE ~TrustedDevice(x.userId, x.device)
    BY <1>1, <1>4, FailStep DEF TouchDevice, worldVars
  <1> QED
    BY <1>3, <1>4

LEMMA IssueLoginChallengeStep ==
  ASSUME Inv, NEW r \in Requests, IssueLoginChallenge(r), UNCHANGED clientVars
  PROVE  Inv'
  <1> DEFINE x == requests[r]
  <1> PICK c \in FreshChallenges :
        /\ challenges' = [challenges EXCEPT ![c] =
             [userId |-> x.userId, rememberMe |-> x.remember, live |-> TRUE]]
        /\ requests' = [requests EXCEPT ![r].pc = "answered",
                                        ![r].answer = "challenge", ![r].challenge = c]
    BY DEF IssueLoginChallenge
  <1> DEFINE e == [userId |-> x.userId, rememberMe |-> x.remember, live |-> TRUE]
             y == Challenged(x, c)
  <1>1. /\ x.pc = "challenge" /\ x.kind = "login" /\ RequestOK(x, World) /\ WorldType(World)
        /\ CountersType' /\ WorldOK(World) /\ x \in RequestRecord
        /\ UNCHANGED <<unusedCodes, devices, minted, sessions>>
    BY Unfolded DEF IssueLoginChallenge, At, CountersType
  <1>2. c \in Challenges /\ challenges[c].userId = Nobody /\ c # NoChallenge
    BY DEF FreshChallenges
  <1>3. x.userId \in Users /\ x.userId # Nobody /\ x.remember \in BOOLEAN
    BY <1>1, RequestTypes DEF RequestOK, SignInOK
  <1>4. e \in ChallengeEntry /\ e.userId = x.userId
    BY <1>3 DEF ChallengeEntry, Owner
  <1> HIDE DEF e
  <1>5. \A d \in Challenges : challenges'[d] = IF d = c THEN e ELSE challenges[d]
    BY <1>1, WorldIs DEF e, WorldType
  <1>6. WorldType(World')
    <2>1. challenges' \in [Challenges -> ChallengeEntry]
      BY <1>1, <1>4, WorldIs DEF e, WorldType
    <2> QED
      BY <1>1, <2>1, WorldIs DEF WorldType
  <1>7. Later(World, World') /\ WorldOK(World')
    <2>1. WorldOK(World')
      BY <1>1, <1>3, <1>4, <1>5, WorldIs DEF WorldOK
    <2> QED
      BY <1>1, <1>2, <1>5, <2>1, WorldIs DEF Later, WorldType
  <1>8. y \in RequestRecord /\ Becomes(r, y)
    BY <1>1, <1>2, RequestUpdated, Unfolded DEF Becomes, Challenged, ChallengeRef
  <1>9. /\ y.pc = "answered" /\ y.kind = "login" /\ y.tab = x.tab /\ y.device = x.device
        /\ y.token = x.token /\ y.answer = "challenge" /\ y.challenge = c
    BY <1>1, ChallengedFields
  <1>10. Earned(x.device, World')
    BY <1>1, <1>6, <1>7, EarnedStays, RequestTypes DEF RequestOK, SignInOK
  <1> HIDE DEF y
  <1>11. RequestOK(y, World')
    BY <1>1, <1>9, <1>10, WorldIs
    DEF RequestOK, VerificationOK, SignInOK, TokenOK, AnswerOK, Under, Passed, SecondFactor
  <1>12. Resumes(x, y) /\ Follows(x, y) /\ Abides(x, y)
    BY <1>1, <1>9
    DEF Resumes, Verifying, Follows, Under, Passed, SecondFactor, Abides, Pending
  <1>13. HeldOnce'
    <2>1. \A t \in Tabs \cup {NoTab} : ~Holds(t, c)
      BY <1>2 DEF Inv, HeldOnce
    <2>2. \A t \in Tabs \cup {NoTab} : Holds(t, c)' => t = x.tab
      BY <1>8, <1>9, <2>1, BecomesIs DEF Holds, clientVars
    <2>3. \A d \in Challenges, t \in Tabs \cup {NoTab} : d # c /\ Holds(t, d)' => Holds(t, d)
      BY <1>8, <1>9, BecomesIs DEF Holds, clientVars
    <2>4. \A d \in Challenges : d # c => challenges'[d] = challenges[d]
      BY <1>5
    <2>5. challenges'[c].userId # Nobody
      BY <1>2, <1>3, <1>4, <1>5
    <2>6. ASSUME NEW d \in Challenges, NEW t \in Tabs \cup {NoTab}, NEW t2 \in Tabs \cup {NoTab},
                 Holds(t, d)', Holds(t2, d)'
          PROVE  t = t2 /\ challenges'[d].userId # Nobody
      <3>1. CASE d = c
        BY <2>2, <2>5, <2>6, <3>1
      <3>2. CASE d # c
        BY <2>3, <2>4, <2>6, <3>2 DEF Inv, HeldOnce
      <3> QED
        BY <3>1, <3>2
    <2> QED
      BY <2>6 DEF HeldOnce
  <1>14. TypeInv'
    BY <1>1, <1>6, <1>8, BecomesIs DEF Inv, TypeInv, CountersType, clientVars
  <1> HIDE DEF x
  <1>15. RequestsOK' /\ JarsOK' /\ SessionsOK'
    BY <1>1, <1>6, <1>7, <1>8, <1>11, RequestsKept, JarsKept, SessionsKept DEF clientVars
  <1>16. TabsOK' /\ LeftOK' /\ ApartOK' /\ PairsOK'
    BY <1>1, <1>8, <1>12, TabsKept, LeftKept, CrossKept DEF x, clientVars
  <1> QED
    BY <1>7, <1>13, <1>14, <1>15, <1>16 DEF Inv

-----------------------------------------------------------------------------
(* Steps of a verification *)

LEMMA VerifyReadStep ==
  ASSUME Inv, NEW r \in Requests, VerifyRead(r), UNCHANGED clientVars
  PROVE  Inv'
  <1> DEFINE x == requests[r]
             c == x.challenge
  <1>1. /\ x.pc = "arrived" /\ x.kind \in SecondFactor \cup {"webauthnStart"}
        /\ RequestOK(x, World) /\ WorldType(World) /\ WorldOK(World) /\ x \in RequestRecord
        /\ CountersType' /\ sessions' = sessions /\ UNCHANGED worldVars
    BY Unfolded DEF VerifyRead, At, CountersType, worldVars
  <1>2. World' = World /\ Later(World, World') /\ WorldType(World') /\ WorldOK(World')
    BY <1>1, SameWorld
  <1>3. CASE ChallengeCookieMatches(r) /\ challenges[c].live
    <2> DEFINE u == challenges[c].userId
               y == Recognized(x, NoChallenge, u)
    <2>1. c \in Challenges /\ challenges[c].live
      BY <1>1, <1>3, RequestTypes DEF ChallengeCookieMatches, ChallengeRef
    <2>2. u \in Users /\ u \in Owner
      BY <1>1, <2>1, WorldIs DEF WorldOK, WorldType, ChallengeEntry, Owner
    <2>3. Becomes(r, y)
      BY <1>3, Unfolded DEF VerifyRead, Becomes, Recognized
    <2> HIDE DEF u
    <2>4. y \in RequestRecord
      BY <1>1, <2>2, RequestUpdated DEF ChallengeRef
    <2>5. /\ y.pc = "factor" /\ y.kind = x.kind /\ y.tab = x.tab /\ y.userId = u
          /\ y.challenge = c /\ y.device = x.device /\ y.token = x.token
      BY <1>1, RecognizedFields
    <2> HIDE DEF y
    <2>6. RequestOK(y, World)
      BY <1>1, <2>1, <2>2, <2>5, WorldIs
      DEF u, RequestOK, VerificationOK, SignInOK, TokenOK, AnswerOK, Under, Passed, SecondFactor
    <2>7. Resumes(x, y) /\ KeepsChallenge(x, y) /\ ~Passed(y) /\ Abides(x, y)
      BY <1>1, <2>5
      DEF Resumes, KeepsChallenge, Verifying, Passed, SecondFactor, Abides, Pending
    <2>8. \A s \in SessionIds : Apart(sessions[s], y)
      <3>1. \A s \in SessionIds : SessionOK(sessions[s], World)
        BY DEF Inv, SessionsOK
      <3> QED
        BY <2>1, <2>5, <2>7, <3>1, WorldIs DEF Apart, SessionOK
    <2>9. ApartOK' /\ PairsOK'
      BY <1>1, <2>3, <2>4, <2>7, <2>8, CrossJoined DEF clientVars
    <2> HIDE DEF x
    <2> QED
      BY <1>1, <1>2, <2>3, <2>4, <2>6, <2>7, <2>9, JoinStep DEF x, clientVars
  <1>4. CASE ~(ChallengeCookieMatches(r) /\ challenges[c].live)
    <2>1. Answer(r, "unauthorized") /\ x.kind # "login"
      BY <1>1, <1>4 DEF VerifyRead, SecondFactor
    <2> QED
      BY <1>1, <2>1, RefuseStep
  <1> QED
    BY <1>3, <1>4

LEMMA CheckTotpStep ==
  ASSUME Inv, NEW r \in Requests, CheckTotp(r), UNCHANGED clientVars
  PROVE  Inv'
  <1> DEFINE x == requests[r]
             y == Moved(x, "close")
  <1>1. /\ x.pc = "factor" /\ x.kind = "totp" /\ RequestOK(x, World)
        /\ CountersType' /\ sessions' = sessions /\ UNCHANGED worldVars
    BY Unfolded DEF CheckTotp, At, CountersType, worldVars
  <1>2. World' = World /\ Later(World, World') /\ WorldType(World') /\ WorldOK(World')
    BY <1>1, SameWorld
  <1>3. CASE "totp" \in factors[x.userId] /\ x.by = x.userId
    <2>1. Continue(r, "close")
      BY <1>3 DEF CheckTotp
    <2>2. /\ y.pc = "close" /\ y.kind = "totp" /\ y.userId = x.userId /\ y.by = x.by
          /\ y.challenge = x.challenge /\ y.device = x.device /\ y.token = x.token
      BY <1>1, Unfolded, MovedFields
    <2>3. "totp" \in AvailableMethods(x.userId) /\ "close" \in Steps
      BY <1>3 DEF AvailableMethods, Steps
    <2> HIDE DEF x, y
    <2>4. RequestOK(y, World)
      BY <1>1, <1>3, <2>2, <2>3
      DEF RequestOK, VerificationOK, SignInOK, TokenOK, AnswerOK, Under, Passed, SecondFactor
    <2>5. Follows(x, y)
      BY <1>1, <2>2 DEF Follows, Under, Passed, SecondFactor
    <2> QED
      BY <1>1, <1>2, <2>1, <2>3, <2>4, <2>5, MoveStep DEF x, y
  <1>4. CASE ~("totp" \in factors[x.userId] /\ x.by = x.userId)
    <2>1. Answer(r, "unauthorized")
      BY <1>4 DEF CheckTotp
    <2> QED
      BY <1>1, <2>1, RefuseStep
  <1> QED
    BY <1>3, <1>4

LEMMA ConsumeRecoveryCodeStep ==
  ASSUME Inv, NEW r \in Requests, ConsumeRecoveryCode(r), UNCHANGED clientVars
  PROVE  Inv'
  <1> DEFINE x == requests[r]
             y == Moved(x, "close")
  <1>1. /\ x.pc = "factor" /\ x.kind = "recovery" /\ RequestOK(x, World)
        /\ CountersType' /\ WorldType(World) /\ WorldOK(World)
        /\ UNCHANGED <<challenges, devices, minted, sessions>>
    BY Unfolded DEF ConsumeRecoveryCode, At, CountersType
  <1>2. CASE Claimable(r)
    <2>1. /\ unusedCodes' = unusedCodes \ {x.by} /\ Continue(r, "close")
          /\ x.by = x.userId /\ x.userId \in unusedCodes
      BY <1>2 DEF ConsumeRecoveryCode, Claimable
    <2>2. y \in RequestRecord /\ Becomes(r, y)
      BY <2>1, Unfolded, RequestUpdated DEF Continue, Becomes, Moved, Steps
    <2>3. /\ y.pc = "close" /\ y.kind = "recovery" /\ y.userId = x.userId /\ y.by = x.by
          /\ y.challenge = x.challenge /\ y.device = x.device /\ y.token = x.token
          /\ y.tab = x.tab
      BY <1>1, Unfolded, MovedFields
    <2>4. "recovery" \in AvailableMethods(x.userId)
      BY DEF AvailableMethods
    <2>5. WorldType(World') /\ WorldOK(World')
      BY <1>1, <2>1, WorldIs DEF WorldType, WorldOK
    <2>6. Later(World, World')
      BY <1>1, <2>1, WorldIs DEF WorldType, Later
    <2>7. Earned(x.device, World')
      BY <1>1, <2>5, <2>6, EarnedStays, RequestTypes, Unfolded DEF RequestOK, SignInOK
    <2> HIDE DEF x, y
    <2>8. RequestOK(y, World')
      BY <1>1, <2>1, <2>3, <2>4, <2>7, WorldIs
      DEF RequestOK, VerificationOK, SignInOK, TokenOK, AnswerOK, Under, Passed, SecondFactor
    <2>9. Under(x) /\ Resumes(x, y) /\ KeepsChallenge(x, y) /\ Abides(x, y)
      BY <1>1, <2>3
      DEF Resumes, KeepsChallenge, Verifying, Under, SecondFactor, Abides, Pending
    <2>10. \A s \in SessionIds : Apart(sessions[s], y)
      <3>1. \A s \in SessionIds : SessionOK(sessions[s], World) /\ Apart(sessions[s], x)
        BY DEF Inv, SessionsOK, ApartOK, x
      <3> QED
        BY <2>1, <2>3, <2>9, <3>1, WorldIs DEF Apart, SessionOK
    <2>11. \A q \in Requests \ {r} :
             Passed(requests[q]) /\ requests[q].kind = "recovery" => requests[q].userId # y.userId
      BY <2>1, <2>3, Unfolded, WorldIs DEF RequestOK, VerificationOK
    <2>12. ApartOK' /\ PairsOK'
      BY <1>1, <2>2, <2>10, <2>11, CrossJoined DEF clientVars
    <2> QED
      BY <1>1, <2>2, <2>5, <2>6, <2>8, <2>9, <2>12, JoinStep DEF x, clientVars
  <1>3. CASE ~Claimable(r)
    <2>1. Answer(r, "unauthorized") /\ unusedCodes' = unusedCodes
      BY <1>3 DEF ConsumeRecoveryCode
    <2> QED
      BY <1>1, <2>1, RefuseStep DEF worldVars
  <1> QED
    BY <1>2, <1>3

LEMMA BeginWebAuthnLoginStep ==
  ASSUME Inv, NEW r \in Requests, BeginWebAuthnLogin(r), UNCHANGED clientVars
  PROVE  Inv'
  <1> DEFINE x == requests[r]
             y == Offered(x, begun + 1)
  <1>1. /\ x.pc = "factor" /\ x.kind = "webauthnStart" /\ RequestOK(x, World)
        /\ sessions' = sessions /\ UNCHANGED worldVars /\ CountersType /\ x \in RequestRecord
    BY Unfolded DEF BeginWebAuthnLogin, At, worldVars
  <1>2. World' = World /\ Later(World, World') /\ WorldType(World') /\ WorldOK(World')
    BY <1>1, SameWorld
  <1>3. CountersType'
    <2>1. begun + 1 \in Nat
      BY <1>1 DEF CountersType
    <2>2. /\ begun' = begun + 1 /\ ceremonies' = [ceremonies EXCEPT ![x.challenge] = begun + 1]
          /\ UNCHANGED <<touches, signCount>>
      BY DEF BeginWebAuthnLogin
    <2>3. \A n \in Nat : \A c : [ceremonies EXCEPT ![c] = n] \in [Challenges -> Nat]
      BY <1>1 DEF CountersType
    <2> QED
      BY <1>1, <2>1, <2>2, <2>3 DEF CountersType
  <1>4. Becomes(r, y)
    BY Unfolded DEF BeginWebAuthnLogin, Becomes, Offered
  <1>5. begun + 1 \in Nat
    BY <1>1 DEF CountersType
  <1>6. y \in RequestRecord
    BY <1>1, <1>5, RequestUpdated
  <1>7. /\ y.pc = "answered" /\ y.kind = "webauthnStart" /\ y.userId = x.userId
        /\ y.challenge = x.challenge /\ y.device = x.device /\ y.token = x.token
        /\ y.tab = x.tab /\ y.answer = "options"
    BY <1>1, OfferedFields
  <1> HIDE DEF x, y
  <1>8. RequestOK(y, World)
    BY <1>1, <1>7
    DEF RequestOK, VerificationOK, SignInOK, TokenOK, AnswerOK, Under, Passed, SecondFactor
  <1>9. Resumes(x, y) /\ KeepsChallenge(x, y) /\ Follows(x, y) /\ Abides(x, y)
    BY <1>1, <1>7
    DEF Resumes, KeepsChallenge, Verifying, Follows, Under, Passed, SecondFactor, Abides, Pending
  <1> QED
    BY <1>1, <1>2, <1>3, <1>4, <1>6, <1>8, <1>9, ServerStep DEF x, clientVars

LEMMA ReadCeremonyStep ==
  ASSUME Inv, NEW r \in Requests, ReadCeremony(r), UNCHANGED clientVars
  PROVE  Inv'
  <1> DEFINE x == requests[r]
             y == Moved(x, "credential")
  <1>1. /\ x.pc = "factor" /\ x.kind = "webauthn" /\ RequestOK(x, World)
        /\ CountersType' /\ sessions' = sessions /\ UNCHANGED worldVars
        /\ Continue(r, "credential") \/ Answer(r, "unauthorized")
    BY Unfolded DEF ReadCeremony, At, CountersType, worldVars
  <1>2. World' = World /\ Later(World, World') /\ WorldType(World') /\ WorldOK(World')
    BY <1>1, SameWorld
  <1>3. /\ y.pc = "credential" /\ y.kind = "webauthn" /\ y.userId = x.userId
        /\ y.challenge = x.challenge /\ y.device = x.device /\ y.token = x.token
    BY <1>1, Unfolded, MovedFields
  <1>4. "credential" \in Steps
    BY DEF Steps
  <1> HIDE DEF x, y
  <1>5. RequestOK(y, World)
    BY <1>1, <1>3
    DEF RequestOK, VerificationOK, SignInOK, TokenOK, AnswerOK, Under, Passed, SecondFactor
  <1>6. Follows(x, y)
    BY <1>1, <1>3 DEF Follows, Under, Passed, SecondFactor
  <1>7. CASE Continue(r, "credential")
    BY <1>1, <1>2, <1>4, <1>5, <1>6, <1>7, MoveStep DEF x, y
  <1>8. CASE Answer(r, "unauthorized")
    BY <1>1, <1>8, RefuseStep DEF x
  <1> QED
    BY <1>1, <1>7, <1>8

LEMMA CheckCredentialStep ==
  ASSUME Inv, NEW r \in Requests, CheckCredential(r), UNCHANGED clientVars
  PROVE  Inv'
  <1> DEFINE x == requests[r]
             y == Moved(x, "counter")
  <1>1. /\ x.pc = "credential" /\ x.kind = "webauthn" /\ RequestOK(x, World)
        /\ CountersType' /\ sessions' = sessions /\ UNCHANGED worldVars
        /\ \/ "webauthn" \in factors[x.userId] /\ x.by = x.userId /\ Continue(r, "counter")
           \/ Answer(r, "unauthorized")
    BY Unfolded DEF CheckCredential, At, CountersType, worldVars
  <1>2. World' = World /\ Later(World, World') /\ WorldType(World') /\ WorldOK(World')
    BY <1>1, SameWorld
  <1>3. CASE "webauthn" \in factors[x.userId] /\ x.by = x.userId /\ Continue(r, "counter")
    <2>1. /\ y.pc = "counter" /\ y.kind = "webauthn" /\ y.userId = x.userId /\ y.by = x.by
          /\ y.challenge = x.challenge /\ y.device = x.device /\ y.token = x.token
      BY <1>1, Unfolded, MovedFields
    <2>2. "webauthn" \in AvailableMethods(x.userId) /\ "counter" \in Steps
      BY <1>3 DEF AvailableMethods, Steps
    <2> HIDE DEF x, y
    <2>3. RequestOK(y, World)
      BY <1>1, <1>3, <2>1, <2>2
      DEF RequestOK, VerificationOK, SignInOK, TokenOK, AnswerOK, Under, Passed, SecondFactor
    <2>4. Follows(x, y)
      BY <1>1, <2>1 DEF Follows, Under, Passed, SecondFactor
    <2> QED
      BY <1>1, <1>2, <1>3, <2>2, <2>3, <2>4, MoveStep DEF x, y
  <1>4. CASE Answer(r, "unauthorized")
    BY <1>1, <1>4, RefuseStep
  <1> QED
    BY <1>1, <1>3, <1>4

\* From one step to the next of a verification whose factor was right.
LEMMA PassOn ==
  ASSUME Inv, NEW r \in Requests, NEW p \in {"ceremony", "close"},
         requests[r].pc \in {"counter", "ceremony"}, requests[r].kind = "webauthn",
         Continue(r, p), UNCHANGED <<worldVars, clientVars>>, CountersType'
  PROVE  Inv'
  <1> DEFINE x == requests[r]
             y == Moved(x, p)
  <1>1. /\ y.pc = p /\ y.kind = "webauthn" /\ y.userId = x.userId /\ y.by = x.by
        /\ y.challenge = x.challenge /\ y.device = x.device /\ y.token = x.token
    BY Unfolded, MovedFields
  <1>2. p \in Steps /\ RequestOK(x, World)
    BY Unfolded DEF Steps
  <1>3. World' = World /\ Later(World, World') /\ WorldType(World') /\ WorldOK(World')
    BY SameWorld
  <1>4. x.pc \in {"counter", "ceremony"} /\ x.kind = "webauthn"
    OBVIOUS
  <1> HIDE DEF x, y
  <1>5. RequestOK(y, World)
    BY <1>1, <1>2, <1>4
    DEF RequestOK, VerificationOK, SignInOK, TokenOK, AnswerOK, Under, Passed, SecondFactor
  <1>6. Follows(x, y)
    BY <1>1, <1>4 DEF Follows, Under, Passed, SecondFactor
  <1> QED
    BY <1>2, <1>3, <1>4, <1>5, <1>6, MoveStep DEF x, y, worldVars

LEMMA UpdateCredentialCounterStep ==
  ASSUME Inv, NEW r \in Requests, UpdateCredentialCounter(r), UNCHANGED clientVars
  PROVE  Inv'
  <1>1. requests[r].count \in Nat
    BY Unfolded, RequestTypes
  <1>2. CountersType'
    BY <1>1, Unfolded DEF CountersType, UpdateCredentialCounter
  <1> QED
    BY <1>2, PassOn DEF UpdateCredentialCounter, At, worldVars

LEMMA DeleteCeremonyStep ==
  ASSUME Inv, NEW r \in Requests, DeleteCeremony(r), UNCHANGED clientVars
  PROVE  Inv'
  <1>1. CountersType'
    BY Unfolded DEF CountersType, DeleteCeremony
  <1> QED
    BY <1>1, PassOn DEF DeleteCeremony, At, worldVars

\* A challenge is deleted, or lapses.
LEMMA ChallengeDies ==
  ASSUME Inv, NEW c \in Challenges, challenges' = [challenges EXCEPT ![c].live = FALSE],
         UNCHANGED <<unusedCodes, devices, minted, sessions>>
  PROVE  /\ WorldType(World') /\ WorldOK(World') /\ Later(World, World')
         /\ ~World'.challenges[c].live
         /\ \A d \in Challenges : World'.challenges[d].userId = World.challenges[d].userId
  <1> DEFINE e == [challenges[c] EXCEPT !.live = FALSE]
  <1>1. WorldType(World) /\ WorldOK(World) /\ challenges[c] \in ChallengeEntry
    BY WorldIs DEF Inv, TypeInv, WorldType
  <1>2. e \in ChallengeEntry /\ e.userId = challenges[c].userId /\ ~e.live
    BY <1>1 DEF ChallengeEntry
  <1>3. challenges' = [challenges EXCEPT ![c] = e]
    OBVIOUS
  <1> HIDE DEF e
  <1>4. \A d \in Challenges : challenges'[d] = IF d = c THEN e ELSE challenges[d]
    BY <1>1, <1>3, WorldIs DEF WorldType
  <1>5. WorldType(World')
    BY <1>1, <1>2, <1>3, WorldIs DEF WorldType
  <1>6. WorldOK(World')
    BY <1>1, <1>2, <1>4, WorldIs DEF WorldOK
  <1>7. Later(World, World')
    BY <1>1, <1>2, <1>4, WorldIs DEF Later, WorldType
  <1> QED
    BY <1>2, <1>4, <1>5, <1>6, <1>7, WorldIs

LEMMA DeleteChallengeStep ==
  ASSUME Inv, NEW r \in Requests, DeleteChallenge(r), UNCHANGED clientVars
  PROVE  Inv'
  <1> DEFINE x == requests[r]
             p == IF x.remember /\ x.kind # "recovery" THEN "trust" ELSE "issue"
             y == Moved(x, p)
  <1>1. /\ x.pc = "close" /\ x.kind \in SecondFactor /\ RequestOK(x, World)
        /\ CountersType' /\ Continue(r, p)
        /\ challenges' = [challenges EXCEPT ![x.challenge].live = FALSE]
        /\ UNCHANGED <<unusedCodes, devices, minted, sessions>>
    BY Unfolded DEF DeleteChallenge, At, CountersType
  <1>2. /\ p \in Steps /\ p \in {"trust", "issue"}
        /\ p = "trust" => x.kind \in {"totp", "webauthn"}
    BY <1>1 DEF Steps, SecondFactor
  <1>3. Under(x) /\ Passed(x)
    BY <1>1 DEF Under, Passed
  <1>4. x.challenge \in Challenges
    BY <1>1, <1>3 DEF RequestOK, VerificationOK
  <1>5. /\ WorldType(World') /\ WorldOK(World') /\ Later(World, World')
        /\ ~World'.challenges[x.challenge].live
        /\ World'.challenges[x.challenge].userId = World.challenges[x.challenge].userId
    BY <1>1, <1>4, ChallengeDies
  <1> HIDE DEF p
  <1>6. /\ y.pc = p /\ y.kind = x.kind /\ y.userId = x.userId /\ y.by = x.by
        /\ y.challenge = x.challenge /\ y.device = x.device /\ y.token = x.token
    BY Unfolded, MovedFields
  <1>7. Earned(x.device, World')
    BY <1>1, <1>5, EarnedStays, RequestTypes, Unfolded DEF RequestOK, SignInOK
  <1> HIDE DEF x, y
  <1>8. RequestOK(y, World')
    BY <1>1, <1>2, <1>3, <1>5, <1>6, <1>7, WorldIs
    DEF RequestOK, VerificationOK, SignInOK, TokenOK, AnswerOK, Under, Passed, SecondFactor
  <1>9. Follows(x, y)
    BY <1>3, <1>6 DEF Follows
  <1> QED
    BY <1>1, <1>2, <1>5, <1>8, <1>9, MoveStep DEF x, y

LEMMA TrustDeviceStep ==
  ASSUME Inv, NEW r \in Requests, TrustDevice(r), UNCHANGED clientVars
  PROVE  Inv'
  <1> DEFINE x == requests[r]
             n == minted + 1
             y == Trusting(x, n)
  <1>1. /\ x.pc = "trust" /\ x.kind \in SecondFactor /\ RequestOK(x, World)
        /\ CountersType' /\ WorldType(World) /\ WorldOK(World) /\ x \in RequestRecord
        /\ minted' = n /\ devices' = devices \cup {<<x.userId, n>>}
        /\ UNCHANGED <<unusedCodes, challenges, sessions>>
    BY Unfolded DEF TrustDevice, At, CountersType
  <1>2. n \in Nat \ {0} /\ n > minted /\ minted \in Nat
    BY <1>1, WorldIs DEF WorldType
  <1>3. Becomes(r, y)
    BY Unfolded DEF TrustDevice, Becomes, Trusting
  <1> HIDE DEF n
  <1>4. y \in RequestRecord
    BY <1>1, <1>2, RequestUpdated
  <1>5. /\ y.pc = "issue" /\ y.kind = x.kind /\ y.userId = x.userId /\ y.by = x.by
        /\ y.challenge = x.challenge /\ y.device = x.device /\ y.token = n /\ y.tab = x.tab
    BY <1>1, TrustingFields
  <1>6. Passed(x) /\ Under(x) /\ x.userId \in Users /\ x.kind \in {"totp", "webauthn"}
    BY <1>1 DEF RequestOK, VerificationOK, TokenOK, Under, Passed
  <1> HIDE DEF x, y
  <1>7. WorldType(World')
    BY <1>1, <1>2, <1>6, WorldIs DEF WorldType
  <1>8. WorldOK(World')
    BY <1>1, <1>2, WorldIs DEF WorldOK
  <1>9. Later(World, World')
    BY <1>1, <1>2, WorldIs DEF Later, WorldType
  <1>10. \A u \in Users : <<u, n>> \in devices' => u = x.userId
    BY <1>1, <1>2, WorldIs DEF WorldOK
  <1>11. Earned(x.device, World')
    BY <1>1, <1>7, <1>9, EarnedStays, RequestTypes DEF RequestOK, SignInOK
  <1>12. RequestOK(y, World')
    <2>1. VerificationOK(y, World') /\ SignInOK(y, World') /\ AnswerOK(y)
      BY <1>1, <1>5, <1>6, <1>11, WorldIs
      DEF RequestOK, VerificationOK, SignInOK, AnswerOK, Under, Passed, SecondFactor
    <2>2. TokenOK(y, World')
      BY <1>1, <1>2, <1>5, <1>6, <1>10, WorldIs DEF TokenOK
    <2> QED
      BY <2>1, <2>2 DEF RequestOK
  <1>13. Resumes(x, y) /\ KeepsChallenge(x, y) /\ Follows(x, y) /\ Abides(x, y)
    BY <1>1, <1>5, <1>6 DEF Resumes, KeepsChallenge, Verifying, Follows, Abides, Pending
  <1> QED
    BY <1>1, <1>3, <1>4, <1>7, <1>8, <1>9, <1>12, <1>13, ServerStep DEF x, clientVars

LEMMA RequestFailsStep ==
  ASSUME Inv, NEW r \in Requests, RequestFails(r), UNCHANGED clientVars
  PROVE  Inv'
  <1>1. CountersType'
    BY Unfolded DEF CountersType, RequestFails
  <1> QED
    BY <1>1, FailStep DEF RequestFails, worldVars

LEMMA ChallengeLapsesStep ==
  ASSUME Inv, NEW c \in Challenges, ChallengeLapses(c), UNCHANGED clientVars
  PROVE  Inv'
  <1>1. CountersType'
    BY DEF Inv, TypeInv, CountersType, ChallengeLapses
  <1> QED
    BY <1>1, ChallengeDies, WorldStep DEF ChallengeLapses, clientVars

LEMMA RevokeAllTrustedDevicesStep ==
  ASSUME Inv, NEW u \in Users, RevokeAllTrustedDevices(u), UNCHANGED clientVars
  PROVE  Inv'
  <1>1. CountersType'
    BY DEF Inv, TypeInv, CountersType, RevokeAllTrustedDevices
  <1>2. /\ devices' \subseteq devices /\ UNCHANGED <<challenges, unusedCodes, minted, sessions>>
        /\ WorldType(World) /\ WorldOK(World)
    BY DEF RevokeAllTrustedDevices, Inv, TypeInv
  <1>3. WorldType(World') /\ WorldOK(World') /\ Later(World, World')
    BY <1>2, WorldIs DEF WorldType, WorldOK, Later
  <1> QED
    BY <1>1, <1>3, WorldStep DEF RevokeAllTrustedDevices, clientVars

\* The session is opened by the request that has passed.
LEMMA IssueTokensStep ==
  ASSUME Inv, NEW r \in Requests, IssueTokens(r), UNCHANGED clientVars
  PROVE  Inv'
  <1> DEFINE x == requests[r]
             way == IF x.kind # "login" THEN x.kind
                    ELSE IF factors[x.userId] = {} THEN "password" ELSE "device"
             remembered == x.kind = "login" /\ x.remember
             z == [userId |-> x.userId, via |-> way, challenge |-> x.challenge, by |-> x.by,
                   rememberMe |-> remembered]
             y == Finished(IdleRequest, "tokens", x.kind, x.tab, x.userId, x.token)
  <1> PICK s \in FreshSessions : sessions' = [sessions EXCEPT ![s] = z]
    BY Zenon DEF IssueTokens
  <1>1. /\ x.pc = "issue" /\ x \in RequestRecord /\ RequestOK(x, World)
        /\ WorldType(World) /\ WorldOK(World) /\ CountersType'
        /\ UNCHANGED <<challenges, unusedCodes, devices, minted>>
    BY Unfolded DEF IssueTokens, CountersType
  <1>2. s \in SessionIds /\ sessions[s] = NoRow /\ NoRow.via = "none"
    BY DEF FreshSessions, NoRow
  <1>3. way \in {"password", "device"} \cup Kinds /\ remembered \in BOOLEAN
    BY <1>1, RequestTypes
  <1>4. /\ x.kind # "login" => way = x.kind
        /\ way \in SecondFactor => x.kind \in SecondFactor /\ way = x.kind
        /\ way = "recovery" => x.kind = "recovery"
        /\ way = "password" => factors[x.userId] = {}
        /\ way = "device" => x.kind = "login" /\ factors[x.userId] # {}
    BY <1>1, RequestTypes DEF SecondFactor, Kinds
  <1>5. /\ y \in RequestRecord /\ Becomes(r, y)
        /\ y.pc = "answered" /\ y.kind = x.kind /\ y.tab = x.tab /\ y.userId = x.userId
        /\ y.challenge = NoChallenge /\ y.device = 0 /\ y.token = x.token
        /\ y.answer = "tokens"
    <2>1. y \in RequestRecord
      BY <1>1, IdleIs, RequestUpdated, RequestTypes DEF Answers
    <2>2. Becomes(r, y)
      BY Zenon DEF IssueTokens, Finish, Becomes, Finished
    <2> QED
      BY <2>1, <2>2, IdleIs, FinishedFields
  <1> HIDE DEF way, remembered
  <1>6. /\ z \in SessionRow /\ z.userId = x.userId /\ z.via = way /\ z.challenge = x.challenge
        /\ z.by = x.by
    BY <1>1, <1>3, RequestTypes DEF SessionRow
  <1> HIDE DEF z, y
  <1>7. \A t \in SessionIds : sessions'[t] = IF t = s THEN z ELSE sessions[t]
    BY <1>1, WorldIs DEF WorldType
  <1>8. WorldType(World')
    <2>1. sessions' \in [SessionIds -> SessionRow]
      BY <1>1, <1>6, WorldIs DEF WorldType
    <2> QED
      BY <1>1, <2>1, WorldIs DEF WorldType
  <1>9. WorldOK(World') /\ Later(World, World')
    BY <1>1, <1>2, <1>7, WorldIs DEF WorldType, WorldOK, Later
  <1>10. x.kind \in SecondFactor => Under(x) /\ Passed(x)
    BY <1>1 DEF Under, Passed
  <1>11. SessionOK(z, World')
    <2>1. way = "device" => Vouched(x.userId, World')
      BY <1>1, <1>4, <1>9, VouchedStays DEF RequestOK, SignInOK
    <2>2. way \in SecondFactor =>
            /\ x.userId \in Users /\ x.by = x.userId /\ way \in AvailableMethods(x.userId)
            /\ x.challenge \in Challenges
            /\ World.challenges[x.challenge].userId = x.userId
            /\ ~World.challenges[x.challenge].live
      BY <1>1, <1>4, <1>10 DEF RequestOK, VerificationOK
    <2>3. way = "recovery" => x.userId \notin World.unused
      BY <1>1, <1>4, <1>10 DEF RequestOK, VerificationOK, SecondFactor
    <2> HIDE DEF x
    <2> QED
      BY <1>1, <1>4, <1>6, <2>1, <2>2, <2>3, WorldIs DEF SessionOK
  <1>12. SessionsOK'
    BY <1>7, <1>9, <1>11, SessionStays, WorldIs DEF Inv, SessionsOK
  <1>13. RequestOK(y, World')
    <2>1. Earned(0, World')
      BY <1>8 DEF Earned, WorldType
    <2>2. ASSUME x.token # 0 PROVE Earned(x.token, World')
      <3>1. Vouched(x.userId, World')
        <4>1. way \in {"totp", "webauthn"}
          BY <1>1, <1>4, <2>2 DEF RequestOK, TokenOK
        <4>2. World'.sessions[s] = z
          BY <1>2, <1>7, WorldIs
        <4> QED
          BY <1>2, <1>6, <4>1, <4>2 DEF Vouched
      <3>2. \A u \in Users : <<u, x.token>> \in devices' => u = x.userId
        BY <1>1, <2>2, WorldIs DEF RequestOK, TokenOK
      <3> QED
        BY <1>1, <3>1, <3>2, WorldIs DEF Earned, RequestOK, TokenOK
    <2> HIDE DEF x
    <2> QED
      BY <1>1, <1>5, <2>1, <2>2, WorldIs
      DEF RequestOK, VerificationOK, SignInOK, TokenOK, AnswerOK, Under, Passed
  <1>14. /\ ~Under(y) /\ ~Passed(y) /\ Resumes(x, y) /\ KeepsChallenge(x, y)
         /\ Abides(x, y)
    BY <1>1, <1>5 DEF Under, Passed, Resumes, KeepsChallenge, Verifying, Abides, Pending
  <1>15. \A q \in Requests : requests'[q] = IF q = r THEN y ELSE requests[q]
    BY <1>5, BecomesIs
  <1>16. \A q \in Requests \ {r} : Apart(z, requests[q])
    <2> SUFFICES ASSUME NEW q \in Requests \ {r} PROVE Apart(z, requests[q])
      OBVIOUS
    <2>1. ASSUME z.via \in SecondFactor, Under(requests[q]), requests[q].challenge = z.challenge
          PROVE  z.challenge \in abandoned
      <3>1. x.kind \in SecondFactor /\ x.challenge \in Challenges
        BY <1>1, <1>4, <1>6, <1>10, <2>1 DEF RequestOK, VerificationOK
      <3>2. Verifying(x) /\ Verifying(requests[q])
        BY <1>1, <2>1, <3>1 DEF Verifying, Under, SecondFactor
      <3>3. x.tab \in Tabs /\ requests[q].tab \in Tabs
        BY <3>2, Unfolded DEF Verifying
      <3>4. Holds(x.tab, x.challenge) /\ Holds(requests[q].tab, x.challenge)
        BY <1>6, <2>1 DEF Holds
      <3>5. x.tab = requests[q].tab
        BY <3>1, <3>3, <3>4 DEF Inv, HeldOnce
      <3>6. r \in left \/ q \in left
        BY <3>2, <3>5 DEF Inv, TabsOK
      <3>7. Pending(x) /\ Pending(requests[q])
        BY <1>1, <2>1, <3>1 DEF Pending, Under
      <3> QED
        BY <1>6, <2>1, <3>6, <3>7 DEF Inv, LeftOK
    <2>2. ASSUME z.via = "recovery", Passed(requests[q]), requests[q].kind = "recovery",
                 requests[q].userId = z.userId
          PROVE  FALSE
      <3>1. Passed(x) /\ x.kind = "recovery"
        BY <1>4, <1>6, <1>10, <2>2 DEF SecondFactor
      <3> QED
        BY <1>6, <2>2, <3>1 DEF Inv, PairsOK, TakenOnce
    <2> QED
      BY <2>1, <2>2 DEF Apart
  <1>17. ApartOK'
    BY <1>7, <1>14, <1>15, <1>16 DEF Inv, ApartOK, Apart, clientVars
  <1>18. ASSUME NEW t \in SessionIds \ {s}
         PROVE  /\ sessions[t].via \in SecondFactor /\ z.via \in SecondFactor =>
                     sessions[t].challenge # z.challenge \/ z.challenge \in abandoned
                /\ sessions[t].via = "recovery" /\ z.via = "recovery" =>
                     sessions[t].userId # z.userId
    <2>1. Apart(sessions[t], x)
      BY DEF Inv, ApartOK
    <2> QED
      BY <1>4, <1>6, <1>10, <2>1 DEF Apart, SecondFactor
  <1>19. PairsOK'
    <2>1. TakenOnce'
      BY <1>14, <1>15 DEF Inv, PairsOK, TakenOnce
    <2>2. SecondSessionNeedsLoss'
      BY <1>7, <1>18 DEF Inv, PairsOK, SecondSessionNeedsLoss, Opened, clientVars
    <2>3. RecoveryCodeSpentOnce'
      BY <1>7, <1>18 DEF Inv, PairsOK, RecoveryCodeSpentOnce, Opened
    <2> QED
      BY <2>1, <2>2, <2>3 DEF PairsOK
  <1>20. TypeInv'
    BY <1>1, <1>5, <1>8, BecomesIs DEF Inv, TypeInv, CountersType, clientVars
  <1>21. RequestsOK' /\ JarsOK'
    BY <1>5, <1>8, <1>9, <1>13, RequestsKept, JarsKept DEF clientVars
  <1>22. TabsOK' /\ LeftOK'
    BY <1>5, <1>14, TabsKept, LeftKept DEF clientVars
  <1>23. HeldOnce'
    <2>1. \A t \in Tabs : form'[t].challenge \in Challenges => Holds(t, form'[t].challenge)
      BY DEF Holds, clientVars
    <2> QED
      BY <1>5, <1>9, <2>1, HoldsLess, HeldKept
  <1> QED
    BY <1>9, <1>12, <1>17, <1>19, <1>20, <1>21, <1>22, <1>23 DEF Inv

-----------------------------------------------------------------------------
(* Steps of the page *)

\* A step of the page, the world as it was.
LEMMA PageStep ==
  ASSUME Inv, NEW r \in Requests, NEW y \in RequestRecord, Becomes(r, y), UNCHANGED worldVars,
         CountersType', browserOf' = browserOf, form' \in [Tabs -> Form],
         jar' \in [Browsers -> Jar], JarsOK', TabsOK', LeftOK', RequestOK(y, World),
         left' \subseteq left, abandoned' = abandoned, Follows(requests[r], y),
         y.challenge \in Challenges => Holds(y.tab, y.challenge),
         \A t \in Tabs : form'[t].challenge \in Challenges => Holds(t, form'[t].challenge)
  PROVE  Inv'
  <1>1. World' = World /\ Later(World, World') /\ WorldType(World') /\ WorldOK(World')
    BY SameWorld
  <1>2. TypeInv'
    BY <1>1, BecomesIs DEF Inv, TypeInv, CountersType
  <1>3. sessions' = sessions
    BY DEF worldVars
  <1>4. RequestsOK' /\ SessionsOK' /\ ApartOK' /\ PairsOK'
    BY <1>1, <1>3, RequestsKept, SessionsKept, CrossKept
  <1>5. HeldOnce'
    BY <1>1, HoldsLess, HeldKept
  <1> QED
    BY <1>1, <1>2, <1>4, <1>5 DEF Inv

\* A new call of a tab.
LEMMA TabsJoined ==
  ASSUME Inv, NEW r \in Requests, NEW y \in RequestRecord, Becomes(r, y), y.tab \in Tabs,
         requests[r].pc = "idle",
         Verifying(y) => ~form[y.tab].mfaSubmitting /\ form'[y.tab].mfaSubmitting,
         \A t \in Tabs : form[t].mfaSubmitting => form'[t].mfaSubmitting,
         UNCHANGED <<left, abandoned>>
  PROVE  TabsOK' /\ LeftOK'
  <1>1. \A q \in Requests : requests'[q] = IF q = r THEN y ELSE requests[q]
    BY BecomesIs
  <1>2. \A q \in Requests \ {r} :
          /\ requests[q].pc # "idle" => requests[q].tab \in Tabs
          /\ q \notin left /\ Verifying(requests[q]) =>
               form[requests[q].tab].mfaSubmitting /\ form'[requests[q].tab].mfaSubmitting
    BY DEF Inv, TabsOK, Verifying
  <1>3. \A q \in Requests :
          /\ requests'[q].pc # "idle" => requests'[q].tab \in Tabs
          /\ q \notin left /\ Verifying(requests'[q]) => form'[requests'[q].tab].mfaSubmitting
    BY <1>1, <1>2
  <1>4. \A q, q2 \in Requests \ left :
          (/\ Verifying(requests'[q]) /\ Verifying(requests'[q2])
           /\ requests'[q].tab = requests'[q2].tab)
          => q = q2
    BY <1>1, <1>2 DEF Inv, TabsOK
  <1>5. r \notin left
    BY DEF Inv, LeftOK
  <1>6. LeftOK'
    BY <1>1, <1>5 DEF Inv, TypeInv, LeftOK
  <1> QED
    BY <1>3, <1>4, <1>6 DEF TabsOK

LEMMA NothingEarned ==
  ASSUME Inv
  PROVE  Earned(0, World)
  BY DEF Inv, TypeInv, Earned, WorldType

\* A call that is sent carries the device of its browser, if any.
LEMMA SentIs ==
  ASSUME Inv, NEW q \in RequestRecord, q.tab \in Tabs
  PROVE  /\ Sent(q) \in RequestRecord /\ Sent(q).pc = "arrived" /\ Sent(q).kind = q.kind
         /\ Sent(q).tab = q.tab /\ Sent(q).userId = q.userId
         /\ Sent(q).challenge = q.challenge /\ Sent(q).token = q.token
         /\ Earned(Sent(q).device, World)
  <1> DEFINE j == jar[browserOf[q.tab]]
             c == IF q.kind = "login" THEN NoChallenge ELSE j.challenge
             d == IF q.kind = "login" THEN j.device ELSE 0
  <1>1. Sent(q) = Posted(q, c, d)
    BY Zenon DEF Sent, Posted
  <1>2. j \in Jar /\ Earned(j.device, World)
    BY DEF Inv, TypeInv, JarsOK
  <1>3. c \in ChallengeRef /\ d \in Nat /\ Earned(d, World)
    BY <1>2, NothingEarned DEF Jar, ChallengeRef
  <1> HIDE DEF c, d
  <1>4. Posted(q, c, d) \in RequestRecord
    BY <1>3, RequestUpdated
  <1> QED
    BY <1>1, <1>3, <1>4, PostedFields

LEMMA ArrivedOK ==
  ASSUME Inv, NEW y \in RequestRecord, y.pc = "arrived", y.token = 0,
         y.kind = "login" => y.userId \in Users, Earned(y.device, World)
  PROVE  RequestOK(y, World) /\ ~Under(y) /\ ~Passed(y)
  <1>1. 0 <= World.minted
    BY DEF Inv, TypeInv, WorldType
  <1> QED
    BY <1>1
    DEF RequestOK, VerificationOK, SignInOK, TokenOK, AnswerOK, Under, Passed

LEMMA SignInStep ==
  ASSUME Inv, NEW r \in Requests, NEW t \in Tabs, NEW u \in Users, NEW b \in RememberMe,
         SignIn(r, t, u, b)
  PROVE  Inv'
  <1> DEFINE q == SignInCall(IdleRequest, t, u, b)
             y == Sent(q)
             f == [form[t] EXCEPT !.signingIn = TRUE]
  <1>1. /\ requests[r].pc = "idle" /\ Becomes(r, y) /\ form' = [form EXCEPT ![t].signingIn = TRUE]
        /\ UNCHANGED worldVars /\ UNCHANGED <<browserOf, jar, left, abandoned>>
    BY Zenon DEF SignIn, Becomes, SignInCall, worldVars
  <1>2. u \in Owner /\ b \in BOOLEAN
    BY DEF Owner
  <1>3. /\ q \in RequestRecord /\ q.kind = "login" /\ q.tab = t /\ q.userId = u
        /\ q.challenge = NoChallenge /\ q.token = 0
    BY <1>2, IdleIs, RequestUpdated, SignInCallFields
  <1> HIDE DEF q
  <1>4. /\ y \in RequestRecord /\ y.pc = "arrived" /\ y.kind = "login" /\ y.tab = t
        /\ y.userId = u /\ y.challenge = NoChallenge /\ y.token = 0 /\ Earned(y.device, World)
    BY <1>3, SentIs
  <1> HIDE DEF y
  <1>5. RequestOK(y, World) /\ ~Under(y) /\ ~Passed(y)
    BY <1>4, ArrivedOK
  <1>6. form[t] \in Form /\ CountersType'
    BY Unfolded DEF Inv, TypeInv, SignIn, CountersType
  <1>7. f \in Form /\ f.mfaSubmitting = form[t].mfaSubmitting /\ f.challenge = form[t].challenge
    BY <1>6 DEF Form
  <1>8. form' = [form EXCEPT ![t] = f]
    BY <1>1
  <1> HIDE DEF f
  <1>9. form' \in [Tabs -> Form] /\ \A v \in Tabs : form'[v] = IF v = t THEN f ELSE form[v]
    BY <1>7, <1>8 DEF Inv, TypeInv
  <1>10. TabsOK' /\ LeftOK'
    BY <1>1, <1>4, <1>7, <1>9, TabsJoined DEF Verifying
  <1>11. /\ \A v \in Tabs : form'[v].challenge \in Challenges => Holds(v, form'[v].challenge)
         /\ y.challenge \notin Challenges
    BY <1>4, <1>7, <1>9 DEF Holds
  <1>12. JarsOK'
    BY <1>1, SameWorld, JarsKept
  <1>13. jar' \in [Browsers -> Jar] /\ Follows(requests[r], y)
    BY <1>1, <1>5 DEF Inv, TypeInv, Follows
  <1> QED
    BY <1>1, <1>4, <1>5, <1>6, <1>9, <1>10, <1>11, <1>12, <1>13, PageStep

LEMMA VerifyStep ==
  ASSUME Inv, NEW r \in Requests, NEW t \in Tabs, NEW m \in SecondFactor,
         NEW by \in TotpUsers \cup KeyUsers, NEW b \in BOOLEAN, Verify(r, t, m, by, b)
  PROVE  Inv'
  <1> DEFINE kind == IF m = "webauthn" THEN "webauthnStart" ELSE m
             q == VerifyCall(IdleRequest, kind, t, form[t].challenge, by, b)
             y == Sent(q)
             f == [form[t] EXCEPT !.mfaSubmitting = TRUE]
  <1>1. /\ requests[r].pc = "idle" /\ Becomes(r, y) /\ CanVerify(t)
        /\ form' = [form EXCEPT ![t].mfaSubmitting = TRUE]
        /\ UNCHANGED worldVars /\ UNCHANGED <<browserOf, jar, left, abandoned>>
    BY Zenon DEF Verify, Becomes, VerifyCall, worldVars
  <1>2. form[t] \in Form /\ form[t].challenge \in ChallengeRef /\ CountersType'
    BY Unfolded DEF Inv, TypeInv, Form, Verify, CountersType
  <1>3. by \in Owner /\ kind \in Kinds /\ kind # "login"
    BY DEF Owner, SecondFactor, Kinds
  <1> HIDE DEF kind
  <1>4. /\ q \in RequestRecord /\ q.kind = kind /\ q.tab = t
        /\ q.challenge = form[t].challenge /\ q.token = 0
    BY <1>2, <1>3, IdleIs, RequestUpdated, VerifyCallFields
  <1> HIDE DEF q
  <1>5. /\ y \in RequestRecord /\ y.pc = "arrived" /\ y.kind = kind /\ y.tab = t
        /\ y.challenge = form[t].challenge /\ y.token = 0 /\ Earned(y.device, World)
    BY <1>4, SentIs
  <1> HIDE DEF y
  <1>6. RequestOK(y, World) /\ ~Under(y) /\ ~Passed(y)
    BY <1>3, <1>5, ArrivedOK
  <1>7. f \in Form /\ f.mfaSubmitting /\ f.challenge = form[t].challenge
    BY <1>2 DEF Form
  <1>8. form' = [form EXCEPT ![t] = f]
    BY <1>1
  <1> HIDE DEF f
  <1>9. form' \in [Tabs -> Form] /\ \A v \in Tabs : form'[v] = IF v = t THEN f ELSE form[v]
    BY <1>7, <1>8 DEF Inv, TypeInv
  <1>10. TabsOK' /\ LeftOK'
    BY <1>1, <1>5, <1>7, <1>9, TabsJoined DEF CanVerify
  <1>11. /\ \A v \in Tabs : form'[v].challenge \in Challenges => Holds(v, form'[v].challenge)
         /\ Holds(y.tab, y.challenge)
    BY <1>5, <1>7, <1>9 DEF Holds
  <1>12. JarsOK'
    BY <1>1, SameWorld, JarsKept
  <1>13. jar' \in [Browsers -> Jar] /\ Follows(requests[r], y)
    BY <1>1, <1>6 DEF Inv, TypeInv, Follows
  <1> QED
    BY <1>1, <1>2, <1>5, <1>6, <1>9, <1>10, <1>11, <1>12, <1>13, PageStep

LEMMA LeftStays ==
  ASSUME Inv, UNCHANGED <<requests, left, abandoned>>
  PROVE  /\ LeftOK' /\ left' \in SUBSET Requests /\ abandoned' \in SUBSET ChallengeRef
         /\ abandoned \subseteq abandoned'
  BY DEF Inv, TypeInv, LeftOK

\* A step in which no call moves.
LEMMA StillStep ==
  ASSUME Inv, UNCHANGED <<worldVars, requests, browserOf>>, CountersType',
         form' \in [Tabs -> Form], jar' \in [Browsers -> Jar], JarsOK', TabsOK', LeftOK',
         left' \in SUBSET Requests, abandoned' \in SUBSET ChallengeRef,
         abandoned \subseteq abandoned',
         \A t \in Tabs : form'[t].challenge \in Challenges =>
           form'[t].challenge = form[t].challenge
  PROVE  Inv'
  <1>1. World' = World /\ Later(World, World') /\ WorldType(World') /\ WorldOK(World')
    BY SameWorld
  <1>2. TypeInv'
    BY <1>1 DEF Inv, TypeInv, CountersType
  <1>3. RequestsOK' /\ SessionsOK' /\ ApartOK' /\ PairsOK'
    BY <1>1 DEF worldVars, Inv, RequestsOK, SessionsOK, ApartOK, Apart, PairsOK, TakenOnce,
                SecondSessionNeedsLoss, RecoveryCodeSpentOnce, Opened
  <1>4. HeldOnce'
    BY <1>1, HeldKept DEF Holds
  <1> QED
    BY <1>1, <1>2, <1>3, <1>4 DEF Inv

LEMMA BackToSignInStep ==
  ASSUME Inv, NEW t \in Tabs, BackToSignIn(t)
  PROVE  Inv'
  <1> DEFINE f == [form[t] EXCEPT !.screen = "credentials", !.challenge = NoChallenge]
  <1>1. /\ UNCHANGED <<worldVars, requests, browserOf>> /\ jar' = jar /\ CountersType'
        /\ form' = [form EXCEPT ![t] = f] /\ UNCHANGED <<requests, left, abandoned>>
    BY DEF BackToSignIn, serverVars, worldVars, Inv, TypeInv, CountersType
  <1>2. /\ f \in Form /\ f.mfaSubmitting = form[t].mfaSubmitting /\ f.challenge = NoChallenge
    <2>1. form[t] \in Form
      BY DEF Inv, TypeInv
    <2> QED
      BY <2>1, ZenonT(60) DEF Form, ChallengeRef
  <1> HIDE DEF f
  <1>3. form' \in [Tabs -> Form] /\ \A v \in Tabs : form'[v] = IF v = t THEN f ELSE form[v]
    BY <1>1, <1>2 DEF Inv, TypeInv
  <1>4. TabsOK'
    BY <1>1, <1>2, <1>3 DEF Inv, TabsOK, Verifying
  <1>5. JarsOK' /\ jar' \in [Browsers -> Jar]
    BY <1>1, SameWorld, JarsKept DEF Inv, TypeInv
  <1> QED
    BY <1>1, <1>2, <1>3, <1>4, <1>5, LeftStays, StillStep

\* The cookies of a browser change, but its device is earned.
LEMMA JarUpdated ==
  ASSUME Inv, UNCHANGED worldVars, NEW b \in Browsers, NEW j \in Jar, Earned(j.device, World),
         jar' = [jar EXCEPT ![b] = j]
  PROVE  JarsOK' /\ jar' \in [Browsers -> Jar]
  BY SameWorld DEF Inv, TypeInv, JarsOK

LEMMA SignOutStep ==
  ASSUME Inv, NEW t \in Tabs, SignOut(t)
  PROVE  Inv'
  <1> DEFINE b == browserOf[t]
             j == [jar[b] EXCEPT !.challenge = NoChallenge, !.session = Nobody]
  <1>1. /\ UNCHANGED <<worldVars, requests, browserOf>> /\ CountersType'
        /\ form' = [form EXCEPT ![t] = FreshForm]
        /\ \A r \in Requests : requests[r].tab = t => r \in left
        /\ UNCHANGED <<requests, left, abandoned>>
    BY DEF SignOut, serverVars, worldVars, Inv, TypeInv, CountersType
  <1>2. b \in Browsers /\ jar[b] \in Jar /\ Earned(jar[b].device, World)
    BY DEF Inv, TypeInv, JarsOK
  <1>3. jar' = [jar EXCEPT ![b] = j]
    BY <1>2 DEF SignOut, Inv, TypeInv
  <1>4. j \in Jar /\ j.device = jar[b].device
    BY <1>2 DEF Jar, ChallengeRef, Owner
  <1> HIDE DEF j, b
  <1>5. JarsOK' /\ jar' \in [Browsers -> Jar]
    BY <1>1, <1>2, <1>3, <1>4, JarUpdated
  <1>6. FreshForm \in Form /\ FreshForm.challenge = NoChallenge
    BY DEF FreshForm, Form, ChallengeRef
  <1>7. /\ form' \in [Tabs -> Form]
        /\ \A v \in Tabs : form'[v] = IF v = t THEN FreshForm ELSE form[v]
    BY <1>1, <1>6 DEF Inv, TypeInv
  <1>8. TabsOK'
    BY <1>1, <1>7 DEF Inv, TabsOK, Verifying
  <1> QED
    BY <1>1, <1>5, <1>6, <1>7, <1>8, LeftStays, StillStep

LEMMA CookieLapsesStep ==
  ASSUME Inv, NEW b \in Browsers, CookieLapses(b)
  PROVE  Inv'
  <1> DEFINE j == [jar[b] EXCEPT !.challenge = NoChallenge]
  <1>1. /\ UNCHANGED <<worldVars, requests, browserOf>> /\ form' = form /\ CountersType'
        /\ UNCHANGED <<requests, left, abandoned>>
    BY DEF CookieLapses, serverVars, worldVars, Inv, TypeInv, CountersType
  <1>2. jar[b] \in Jar /\ Earned(jar[b].device, World) /\ jar' = [jar EXCEPT ![b] = j]
    BY DEF Inv, TypeInv, JarsOK, CookieLapses
  <1>3. j \in Jar /\ j.device = jar[b].device
    BY <1>2 DEF Jar, ChallengeRef
  <1> HIDE DEF j
  <1>4. JarsOK' /\ jar' \in [Browsers -> Jar]
    BY <1>1, <1>2, <1>3, JarUpdated
  <1>5. TabsOK' /\ form' \in [Tabs -> Form]
    BY <1>1 DEF Inv, TypeInv, TabsOK, Verifying
  <1> QED
    BY <1>1, <1>4, <1>5, LeftStays, StillStep

-----------------------------------------------------------------------------
(* Answers that come back *)

\* An answer is taken and its call is over.
LEMMA FreeStep ==
  ASSUME Inv, NEW r \in Requests, Free(r), requests[r].pc # "idle", NEW f \in Form,
         form' = [form EXCEPT ![requests[r].tab] = f],
         form[requests[r].tab].mfaSubmitting =>
           f.mfaSubmitting \/ (r \notin left /\ Verifying(requests[r])),
         left' = left \ {r}, abandoned' = abandoned,
         f.challenge \in Challenges => Holds(requests[r].tab, f.challenge),
         UNCHANGED worldVars, CountersType', browserOf' = browserOf,
         jar' \in [Browsers -> Jar], JarsOK'
  PROVE  Inv'
  <1> DEFINE t == requests[r].tab
  <1>1. t \in Tabs /\ Becomes(r, IdleRequest) /\ IdleRequest \in RequestRecord
    BY Unfolded, IdleIs DEF Free, Becomes
  <1>2. form' \in [Tabs -> Form] /\ \A v \in Tabs : form'[v] = IF v = t THEN f ELSE form[v]
    BY <1>1 DEF Inv, TypeInv
  <1>3. TabsOK'
    BY <1>1, <1>2, TabsFreed
  <1>4. \A v \in Tabs : form'[v].challenge \in Challenges => Holds(v, form'[v].challenge)
    BY <1>2 DEF Holds
  <1>5. RequestOK(IdleRequest, World) /\ Follows(requests[r], IdleRequest)
    <2>1. 0 <= World.minted
      BY Unfolded DEF WorldType
    <2> QED
      BY <2>1, IdleIs, NothingEarned
      DEF RequestOK, VerificationOK, SignInOK, TokenOK, AnswerOK, Under, Passed, Follows
  <1>6. IdleRequest.challenge \notin Challenges
    BY IdleIs
  <1>7. LeftOK' /\ left' \subseteq left
    BY <1>1, BecomesIs DEF Inv, TypeInv, LeftOK
  <1> QED
    BY <1>1, <1>2, <1>3, <1>4, <1>5, <1>6, <1>7, PageStep

\* The button that works again.
LEMMA SettledIs ==
  ASSUME Inv, NEW r \in Requests, Settle(r), requests[r].pc # "idle"
  PROVE  \E f \in Form :
           /\ form' = [form EXCEPT ![requests[r].tab] = f]
           /\ form[requests[r].tab].mfaSubmitting => f.mfaSubmitting \/ Verifying(requests[r])
           /\ f.challenge = form[requests[r].tab].challenge
  <1> DEFINE x == requests[r]
             submitting == x.kind = "login" /\ form[x.tab].mfaSubmitting
             signing == x.kind # "login" /\ form[x.tab].signingIn
             f == [form[x.tab] EXCEPT !.mfaSubmitting = submitting, !.signingIn = signing]
  <1>1. x.tab \in Tabs /\ form[x.tab] \in Form /\ form \in [Tabs -> Form]
    BY Unfolded DEF Inv, TypeInv
  <1>2. form' = [form EXCEPT ![x.tab] = f]
    BY <1>1 DEF Settle
  <1>3. submitting \in BOOLEAN /\ signing \in BOOLEAN
    BY <1>1 DEF Form
  <1>4. form[x.tab].mfaSubmitting => submitting \/ Verifying(x)
    BY DEF Verifying
  <1> HIDE DEF submitting, signing
  <1>5. f \in Form /\ f.mfaSubmitting = submitting /\ f.challenge = form[x.tab].challenge
    BY <1>1, <1>3 DEF Form
  <1> HIDE DEF f
  <1> QED
    BY <1>2, <1>4, <1>5

\* The form waits no longer, and the answer, if there is one, is taken or lost.
LEMMA StopsWaiting ==
  ASSUME Inv, NEW r \in Requests, Settle(r), Free(r), requests[r].pc # "idle", r \notin left,
         UNCHANGED <<worldVars, browserOf, left, abandoned>>, CountersType',
         jar' \in [Browsers -> Jar], JarsOK'
  PROVE  Inv'
  <1> DEFINE x == requests[r]
  <1> PICK f \in Form :
        /\ form' = [form EXCEPT ![x.tab] = f]
        /\ form[x.tab].mfaSubmitting => f.mfaSubmitting \/ Verifying(x)
        /\ f.challenge = form[x.tab].challenge
    BY SettledIs
  <1>1. x.tab \in Tabs /\ Holds(x.tab, f.challenge)
    BY Unfolded DEF Holds
  <1>2. left' = left \ {r}
    OBVIOUS
  <1> QED
    BY <1>1, <1>2, FreeStep

LEMMA StopStep ==
  ASSUME Inv, NEW r \in Requests, Stop(r), requests[r].pc # "idle", r \notin left,
         UNCHANGED <<worldVars, browserOf, jar, left, abandoned>>, CountersType'
  PROVE  Inv'
  <1>1. JarsOK' /\ jar' \in [Browsers -> Jar]
    BY SameWorld, JarsKept DEF Inv, TypeInv
  <1> QED
    BY <1>1, StopsWaiting DEF Stop

\* The cookies of an answer.
LEMMA TokensStoredOK ==
  ASSUME Inv, NEW r \in Requests, requests[r].pc = "answered", requests[r].answer = "tokens",
         jar' = TokensStored(requests[r]), UNCHANGED worldVars
  PROVE  JarsOK' /\ jar' \in [Browsers -> Jar]
  <1> DEFINE x == requests[r]
             b == browserOf[x.tab]
             c == IF x.kind = "login" THEN jar[b].challenge ELSE NoChallenge
             d == IF x.token = 0 THEN jar[b].device ELSE x.token
             j == [jar[b] EXCEPT !.session = x.userId, !.challenge = c, !.device = d]
  <1>1. x \in RequestRecord /\ RequestOK(x, World)
    BY Unfolded
  <1>2. x.tab \in Tabs /\ b \in Browsers /\ jar[b] \in Jar
    BY <1>1, Unfolded DEF Inv, TypeInv
  <1>3. jar' = [jar EXCEPT ![b] = j]
    BY <1>2 DEF TokensStored, Inv, TypeInv
  <1>4. c \in ChallengeRef /\ d \in Nat /\ x.userId \in Owner
    BY <1>1, <1>2, RequestTypes DEF Jar, ChallengeRef
  <1>5. Earned(d, World)
    BY <1>1, <1>2 DEF Inv, JarsOK, RequestOK, TokenOK
  <1> HIDE DEF c, d
  <1>6. j \in Jar /\ j.device = d
    BY <1>2, <1>4 DEF Jar
  <1> HIDE DEF j
  <1> QED
    BY <1>2, <1>3, <1>5, <1>6, JarUpdated

LEMMA ChallengeStoredOK ==
  ASSUME Inv, NEW r \in Requests, requests[r].pc = "answered",
         jar' = ChallengeStored(requests[r]), UNCHANGED worldVars
  PROVE  JarsOK' /\ jar' \in [Browsers -> Jar]
  <1> DEFINE x == requests[r]
             b == browserOf[x.tab]
             j == [jar[b] EXCEPT !.challenge = x.challenge]
  <1>1. /\ x.tab \in Tabs /\ b \in Browsers /\ jar[b] \in Jar /\ x.challenge \in ChallengeRef
        /\ Earned(jar[b].device, World)
    BY Unfolded DEF Inv, TypeInv, JarsOK
  <1>2. jar' = [jar EXCEPT ![b] = j]
    BY <1>1 DEF ChallengeStored, Inv, TypeInv
  <1>3. j \in Jar /\ j.device = jar[b].device
    BY <1>1 DEF Jar
  <1> HIDE DEF j
  <1> QED
    BY <1>1, <1>2, <1>3, JarUpdated

LEMMA DeliverFailureStep ==
  ASSUME Inv, NEW r \in Requests, DeliverFailure(r)
  PROVE  Inv'
  <1>1. CountersType'
    BY Unfolded DEF CountersType, DeliverFailure
  <1> QED
    BY <1>1, StopStep DEF DeliverFailure, Answered, worldVars

LEMMA DeliverTokensStep ==
  ASSUME Inv, NEW r \in Requests, DeliverTokens(r)
  PROVE  Inv'
  <1> DEFINE x == requests[r]
             signing == x.kind # "login" /\ form[x.tab].signingIn
             submitting == x.kind = "login" /\ form[x.tab].mfaSubmitting
             f == [FreshForm EXCEPT !.screen = "dashboard", !.signingIn = signing,
                                    !.mfaSubmitting = submitting]
  <1>1. /\ x.pc = "answered" /\ x.answer = "tokens" /\ r \notin left
        /\ Free(r) /\ UNCHANGED worldVars /\ CountersType' /\ UNCHANGED <<left, abandoned>>
        /\ browserOf' = browserOf /\ form' = [form EXCEPT ![x.tab] = f]
        /\ jar' = TokensStored(x)
    BY Unfolded DEF DeliverTokens, Answered, worldVars, CountersType
  <1>2. form[x.tab] \in Form
    BY <1>1, Unfolded DEF Inv, TypeInv
  <1>3. JarsOK' /\ jar' \in [Browsers -> Jar]
    BY <1>1, TokensStoredOK
  <1>4. signing \in BOOLEAN /\ submitting \in BOOLEAN
    BY <1>2 DEF Form
  <1>5. form[x.tab].mfaSubmitting => submitting \/ Verifying(x)
    BY <1>1 DEF Verifying
  <1> HIDE DEF signing, submitting
  <1>6. f \in Form /\ f.mfaSubmitting = submitting /\ f.challenge = NoChallenge
    BY <1>4 DEF FreshForm, Form, ChallengeRef
  <1>7. left' = left \ {r}
    BY <1>1
  <1> HIDE DEF f
  <1> QED
    BY <1>1, <1>3, <1>5, <1>6, <1>7, FreeStep

LEMMA DeliverChallengeStep ==
  ASSUME Inv, NEW r \in Requests, DeliverChallenge(r)
  PROVE  Inv'
  <1> DEFINE x == requests[r]
             c == x.challenge
             g == form[x.tab]
             f == IF g.screen = "dashboard" THEN [g EXCEPT !.signingIn = FALSE]
                  ELSE [g EXCEPT !.screen = "challenge", !.challenge = c, !.signingIn = FALSE]
  <1>1. /\ x.pc = "answered" /\ c \in ChallengeRef /\ Free(r) /\ UNCHANGED worldVars
        /\ CountersType' /\ browserOf' = browserOf /\ UNCHANGED <<left, abandoned>>
        /\ r \notin left /\ jar' = ChallengeStored(x)
    BY Unfolded DEF DeliverChallenge, Answered, worldVars, CountersType
  <1>2. x.tab \in Tabs /\ g \in Form
    BY <1>1, Unfolded DEF Inv, TypeInv
  <1>3. form' = [form EXCEPT ![x.tab] = f]
    BY <1>2 DEF DeliverChallenge, Inv, TypeInv
  <1>4. Holds(x.tab, c) /\ Holds(x.tab, g.challenge)
    BY <1>2 DEF Holds
  <1>5. JarsOK' /\ jar' \in [Browsers -> Jar]
    BY <1>1, ChallengeStoredOK
  <1> HIDE DEF c, g
  <1>6. f \in Form /\ f.mfaSubmitting = g.mfaSubmitting /\ f.challenge \in {c, g.challenge}
    <2>1. [g EXCEPT !.signingIn = FALSE] \in Form
      BY <1>2 DEF Form
    <2>2. [g EXCEPT !.screen = "challenge", !.challenge = c, !.signingIn = FALSE] \in Form
      BY <1>1, <1>2 DEF Form
    <2> QED
      BY <1>2, <2>1, <2>2 DEF Form
  <1>7. left' = left \ {r}
    BY <1>1
  <1> HIDE DEF f
  <1> QED
    BY <1>1, <1>3, <1>4, <1>5, <1>6, <1>7, FreeStep DEF g

\* A call goes on as another call of its tab.
LEMMA SendAgain ==
  ASSUME Inv, NEW r \in Requests, NEW q \in RequestRecord, Becomes(r, Sent(q)),
         requests[r].pc # "idle", requests[r].kind # "login",
         q.tab = requests[r].tab, q.challenge = requests[r].challenge,
         q.kind # "login", q.token = 0, r \notin left,
         UNCHANGED <<worldVars, clientVars>>, CountersType'
  PROVE  Inv'
  <1> DEFINE x == requests[r]
             y == Sent(q)
  <1>1. x.tab \in Tabs
    BY Unfolded
  <1>2. /\ y \in RequestRecord /\ y.pc = "arrived" /\ y.kind # "login" /\ y.tab = x.tab
        /\ y.challenge = x.challenge /\ y.token = 0 /\ Earned(y.device, World)
    BY <1>1, SentIs
  <1> HIDE DEF y
  <1>3. RequestOK(y, World) /\ ~Under(y) /\ ~Passed(y)
    BY <1>2, ArrivedOK
  <1>4. Resumes(x, y) /\ KeepsChallenge(x, y) /\ Follows(x, y)
    BY <1>2, <1>3 DEF Resumes, KeepsChallenge, Follows
  <1>5. World' = World /\ Later(World, World') /\ WorldType(World') /\ WorldOK(World')
    BY SameWorld
  <1> QED
    BY <1>2, <1>3, <1>4, <1>5, ServerStep DEF y, worldVars

LEMMA DeliverOptionsStep ==
  ASSUME Inv, NEW r \in Requests, DeliverOptions(r)
  PROVE  Inv'
  <1> DEFINE x == requests[r]
             n == touches[x.userId] + 1
             q == AssertCall(x, x.userId, Nobody, n)
  <1>1. /\ x.pc = "answered" /\ x.answer = "options" /\ x \in RequestRecord
        /\ x.kind = "webauthnStart" /\ x.userId \in Users /\ x.token = 0 /\ r \notin left
    BY Unfolded DEF DeliverOptions, Answered, RequestOK, AnswerOK, TokenOK
  <1>2. CASE Stop(r) /\ UNCHANGED touches
    <2>1. CountersType'
      BY <1>2, Unfolded DEF CountersType, DeliverOptions
    <2> QED
      BY <1>1, <1>2, <2>1, StopStep DEF DeliverOptions, worldVars
  <1>3. CASE /\ touches' = [touches EXCEPT ![x.userId] = @ + 1]
             /\ requests' = [requests EXCEPT ![r] =
                  Sent([x EXCEPT !.kind = "webauthn", !.by = x.userId, !.attempt = 1,
                                 !.userId = Nobody, !.count = touches[x.userId] + 1])]
             /\ UNCHANGED form
    <2>1. Becomes(r, Sent(q)) /\ UNCHANGED <<worldVars, clientVars>>
      BY <1>3, Zenon DEF DeliverOptions, Becomes, AssertCall, worldVars, clientVars
    <2>2. n \in Nat /\ CountersType'
      BY <1>1, <1>3, Unfolded DEF CountersType, DeliverOptions
    <2> HIDE DEF n
    <2>3. /\ q \in RequestRecord /\ q.kind = "webauthn" /\ q.tab = x.tab
          /\ q.challenge = x.challenge /\ q.token = 0
      BY <1>1, <2>2, RequestUpdated, AssertCallFields DEF Owner
    <2> HIDE DEF q
    <2> QED
      BY <1>1, <2>1, <2>2, <2>3, SendAgain
  <1> QED
    BY <1>2, <1>3 DEF DeliverOptions

LEMMA UnauthorizedStep ==
  ASSUME Inv, NEW r \in Requests, Unauthorized(r)
  PROVE  Inv'
  <1> DEFINE x == requests[r]
             q == RetryCall(x, Nobody)
  <1>1. /\ x.pc = "answered" /\ x.answer = "unauthorized" /\ x \in RequestRecord
        /\ x.kind # "login" /\ x.token = 0 /\ CountersType' /\ r \notin left
        /\ UNCHANGED worldVars /\ UNCHANGED <<browserOf, jar, left, lost, abandoned>>
    BY Unfolded
    DEF Unauthorized, Answered, RequestOK, AnswerOK, TokenOK, CountersType, worldVars
  <1>2. CASE Stop(r)
    BY <1>1, <1>2, StopStep
  <1>3. CASE requests' = [requests EXCEPT ![r] = Sent([x EXCEPT !.attempt = 2, !.userId = Nobody])]
             /\ UNCHANGED form
    <2>1. Becomes(r, Sent(q)) /\ form' = form
      BY <1>3, Zenon DEF Becomes, RetryCall
    <2>2. /\ q \in RequestRecord /\ q.kind = x.kind /\ q.tab = x.tab
          /\ q.challenge = x.challenge /\ q.token = 0
      BY <1>1, RequestUpdated, RetryCallFields DEF Owner
    <2> HIDE DEF q
    <2>3. UNCHANGED clientVars
      BY <1>1, <2>1 DEF clientVars
    <2> QED
      BY <1>1, <2>1, <2>2, <2>3, SendAgain
  <1> QED
    BY <1>2, <1>3 DEF Unauthorized

\* A verification whose answer will not be awaited any more.
LEMMA LeaveBehindStep ==
  ASSUME Inv, NEW r \in Requests, r \notin left, requests[r].pc \notin {"idle", "answered"},
         Settle(r), left' = left \cup {r},
         abandoned' = IF requests[r].kind \in SecondFactor
                      THEN abandoned \cup {requests[r].challenge} ELSE abandoned,
         UNCHANGED <<requests, jar, worldVars, browserOf>>, CountersType'
  PROVE  Inv'
  <1> DEFINE x == requests[r]
  <1> PICK f \in Form :
        /\ form' = [form EXCEPT ![x.tab] = f]
        /\ form[x.tab].mfaSubmitting => f.mfaSubmitting \/ Verifying(x)
        /\ f.challenge = form[x.tab].challenge
    BY SettledIs
  <1>1. x.tab \in Tabs /\ x.challenge \in ChallengeRef
    BY Unfolded
  <1>2. /\ form' \in [Tabs -> Form]
        /\ \A v \in Tabs : form'[v] = IF v = x.tab THEN f ELSE form[v]
    BY <1>1 DEF Inv, TypeInv
  <1>3. JarsOK' /\ jar' \in [Browsers -> Jar]
    BY SameWorld, JarsKept DEF Inv, TypeInv
  <1>4. /\ left' \in SUBSET Requests /\ abandoned' \in SUBSET ChallengeRef
        /\ abandoned \subseteq abandoned'
    BY <1>1 DEF Inv, TypeInv
  <1>5. LeftOK'
    BY <1>4 DEF Inv, TypeInv, LeftOK, Pending
  <1>6. TabsOK'
    <2>1. \A q \in Requests : requests'[q].pc # "idle" => requests'[q].tab \in Tabs
      BY DEF Inv, TabsOK
    <2>2. ASSUME NEW q \in Requests \ left', Verifying(requests[q])
          PROVE  form'[requests[q].tab].mfaSubmitting
      <3>1. q # r /\ q \notin left /\ requests[q].tab \in Tabs
            /\ form[requests[q].tab].mfaSubmitting
        BY <2>2 DEF Inv, TabsOK, Verifying
      <3>2. Verifying(x) => requests[q].tab # x.tab
        BY <2>2, <3>1 DEF Inv, TabsOK
      <3> QED
        BY <1>2, <3>1, <3>2
    <2> QED
      BY <2>1, <2>2 DEF Inv, TabsOK
  <1> QED
    BY <1>2, <1>3, <1>4, <1>5, <1>6, StillStep

LEMMA LoseStep ==
  ASSUME Inv, NEW r \in Requests, Lose(r)
  PROVE  Inv'
  <1> DEFINE x == requests[r]
  <1>1. /\ x.pc # "idle" /\ r \notin left /\ Settle(r) /\ UNCHANGED <<worldVars, browserOf>>
        /\ CountersType'
    BY Unfolded DEF Lose, worldVars, CountersType
  <1>2. CASE /\ x.pc # "answered"
             /\ left' = left \cup {r}
             /\ abandoned' = IF x.kind \in SecondFactor THEN abandoned \cup {x.challenge}
                             ELSE abandoned
             /\ UNCHANGED <<requests, jar>>
    BY <1>1, <1>2, LeaveBehindStep
  <1>3. CASE Free(r) /\ UNCHANGED <<left, abandoned, jar>>
    <2>1. JarsOK' /\ jar' \in [Browsers -> Jar]
      BY <1>1, <1>3, SameWorld, JarsKept DEF Inv, TypeInv
    <2> QED
      BY <1>1, <1>3, <2>1, StopsWaiting
  <1>4. CASE /\ x.pc = "answered" /\ x.answer \in {"tokens", "challenge"}
             /\ jar' = IF x.answer = "tokens" THEN TokensStored(x) ELSE ChallengeStored(x)
             /\ Free(r)
             /\ UNCHANGED <<left, abandoned>>
    <2>1. JarsOK' /\ jar' \in [Browsers -> Jar]
      BY <1>1, <1>4, TokensStoredOK, ChallengeStoredOK
    <2> QED
      BY <1>1, <1>4, <2>1, StopsWaiting
  <1> QED
    BY <1>2, <1>3, <1>4 DEF Lose

LEMMA DiscardStep ==
  ASSUME Inv, NEW r \in Requests, Discard(r)
  PROVE  Inv'
  <1> DEFINE x == requests[r]
             f == form[x.tab]
  <1>1. /\ x.pc # "idle" /\ Free(r) /\ left' = left \ {r} /\ abandoned' = abandoned
        /\ UNCHANGED worldVars /\ browserOf' = browserOf /\ jar' = jar /\ form' = form
        /\ CountersType'
    BY Unfolded DEF Discard, worldVars, CountersType
  <1>2. x.tab \in Tabs /\ f \in Form /\ form \in [Tabs -> Form]
    BY <1>1, Unfolded DEF Inv, TypeInv
  <1>3. form' = [form EXCEPT ![x.tab] = f] /\ Holds(x.tab, f.challenge)
    BY <1>1, <1>2 DEF Holds
  <1>4. JarsOK' /\ jar' \in [Browsers -> Jar]
    BY <1>1, SameWorld, JarsKept DEF Inv, TypeInv
  <1> QED
    BY <1>1, <1>2, <1>3, <1>4, FreeStep

-----------------------------------------------------------------------------
(* The invariant holds *)

LEMMA InitWorld ==
  ASSUME Init
  PROVE  /\ WorldType(World) /\ WorldOK(World) /\ CountersType /\ World.minted = 0
         /\ World.devices = {}
  <1>1. NoEntry \in ChallengeEntry /\ ~NoEntry.live
    BY DEF NoEntry, ChallengeEntry, Owner
  <1>2. NoRow \in SessionRow
    BY DEF NoRow, SessionRow, Owner, ChallengeRef
  <1>3. /\ challenges = [c \in Challenges |-> NoEntry] /\ devices = {} /\ minted = 0
        /\ unusedCodes \subseteq Users /\ sessions = [s \in SessionIds |-> NoRow]
    BY DEF Init, ServerInit
  <1>4. WorldType(World) /\ WorldOK(World)
    BY <1>1, <1>2, <1>3, WorldIs DEF WorldType, WorldOK
  <1>5. CountersType
    BY DEF Init, ServerInit, CountersType
  <1> QED
    BY <1>3, <1>4, <1>5, WorldIs

LEMMA InitInv == Init => Inv
  <1> SUFFICES ASSUME Init
               PROVE  Inv
    OBVIOUS
  <1>1. /\ WorldType(World) /\ WorldOK(World) /\ CountersType /\ World.minted = 0
        /\ World.devices = {}
    BY InitWorld
  <1>2. /\ IdleRequest \in RequestRecord /\ IdleRequest.pc = "idle"
        /\ IdleRequest.kind = "login" /\ IdleRequest.device = 0 /\ IdleRequest.token = 0
        /\ IdleRequest.challenge = NoChallenge
    BY IdleIs DEF IdleRequest
  <1>3. /\ requests \in [Requests -> RequestRecord]
        /\ \A r \in Requests : requests[r] = IdleRequest
    BY <1>2 DEF Init, ServerInit
  <1>4. \A s \in SessionIds : sessions[s] = NoRow /\ NoRow.via = "none"
    BY DEF Init, ServerInit, NoRow
  <1>5. /\ form \in [Tabs -> Form] /\ browserOf \in [Tabs -> Browsers]
        /\ \A t \in Tabs : form[t].challenge = NoChallenge
    BY DEF Init, FreshForm, Form, ChallengeRef
  <1>6. jar \in [Browsers -> Jar] /\ \A b \in Browsers : jar[b].device = 0
    BY DEF Init, EmptyJar, Jar, ChallengeRef, Owner
  <1>7. Earned(0, World)
    BY <1>1 DEF Earned
  <1>8. TypeInv
    BY <1>1, <1>3, <1>5, <1>6 DEF TypeInv, CountersType, Init
  <1>9. RequestOK(IdleRequest, World)
    BY <1>1, <1>2, <1>7
    DEF RequestOK, VerificationOK, SignInOK, TokenOK, AnswerOK, Under, Passed
  <1>10. RequestsOK /\ JarsOK
    BY <1>3, <1>6, <1>7, <1>9 DEF RequestsOK, JarsOK
  <1>11. SessionsOK /\ ApartOK /\ SecondSessionNeedsLoss /\ RecoveryCodeSpentOnce
    BY <1>4 DEF SessionsOK, SessionOK, ApartOK, Apart, SecondSessionNeedsLoss,
                RecoveryCodeSpentOnce, Opened, SecondFactor
  <1>12. TakenOnce /\ TabsOK /\ LeftOK
    BY <1>2, <1>3 DEF TakenOnce, TabsOK, LeftOK, Passed, Verifying, Init
  <1>13. HeldOnce
    BY <1>2, <1>3, <1>5 DEF HeldOnce, Holds
  <1> QED
    BY <1>1, <1>8, <1>10, <1>11, <1>12, <1>13 DEF Inv, PairsOK

\* The calls on the server, and the answers.
LEMMA ServerKeeps ==
  ASSUME Inv, NEW r \in Requests, Server(r)
  PROVE  Inv'
  <1>1. RequestStep(r) /\ UNCHANGED clientVars
    BY DEF Server
  <1>2. CASE LoginRead(r)
    BY <1>1, <1>2, LoginReadStep
  <1>3. CASE TouchDevice(r)
    BY <1>1, <1>3, TouchDeviceStep
  <1>4. CASE IssueLoginChallenge(r)
    BY <1>1, <1>4, IssueLoginChallengeStep
  <1>5. CASE VerifyRead(r)
    BY <1>1, <1>5, VerifyReadStep
  <1>6. CASE CheckTotp(r)
    BY <1>1, <1>6, CheckTotpStep
  <1>7. CASE ConsumeRecoveryCode(r)
    BY <1>1, <1>7, ConsumeRecoveryCodeStep
  <1>8. CASE BeginWebAuthnLogin(r)
    BY <1>1, <1>8, BeginWebAuthnLoginStep
  <1>9. CASE ReadCeremony(r)
    BY <1>1, <1>9, ReadCeremonyStep
  <1>10. CASE CheckCredential(r)
    BY <1>1, <1>10, CheckCredentialStep
  <1>11. CASE UpdateCredentialCounter(r)
    BY <1>1, <1>11, UpdateCredentialCounterStep
  <1>12. CASE DeleteCeremony(r)
    BY <1>1, <1>12, DeleteCeremonyStep
  <1>13. CASE DeleteChallenge(r)
    BY <1>1, <1>13, DeleteChallengeStep
  <1>14. CASE TrustDevice(r)
    BY <1>1, <1>14, TrustDeviceStep
  <1>15. CASE IssueTokens(r)
    BY <1>1, <1>15, IssueTokensStep
  <1> QED
    BY <1>1, <1>2, <1>3, <1>4, <1>5, <1>6, <1>7, <1>8, <1>9, <1>10, <1>11, <1>12, <1>13,
       <1>14, <1>15
    DEF RequestStep

LEMMA DeliverKeeps ==
  ASSUME Inv, NEW r \in Requests, Deliver(r)
  PROVE  Inv'
  BY DeliverTokensStep, DeliverChallengeStep, DeliverOptionsStep, UnauthorizedStep,
     DeliverFailureStep
  DEF Deliver

LEMMA NextKeeps ==
  ASSUME Inv, [Next]_vars
  PROVE  Inv'
  <1>1. ASSUME NEW c \in Challenges, ChallengeLapses(c), UNCHANGED clientVars
        PROVE  Inv'
    BY <1>1, ChallengeLapsesStep
  <1>2. ASSUME NEW r \in Requests, NEW t \in Tabs, NEW u \in Users, NEW b \in RememberMe,
               SignIn(r, t, u, b)
        PROVE  Inv'
    BY <1>2, SignInStep
  <1>3. ASSUME NEW r \in Requests, NEW t \in Tabs, NEW m \in SecondFactor,
               NEW by \in TotpUsers \cup KeyUsers, NEW b \in BOOLEAN, Verify(r, t, m, by, b)
        PROVE  Inv'
    BY <1>3, VerifyStep
  <1>4. ASSUME NEW t \in Tabs, BackToSignIn(t) \/ SignOut(t)
        PROVE  Inv'
    BY <1>4, BackToSignInStep, SignOutStep
  <1>5. ASSUME NEW r \in Requests, Server(r) \/ Deliver(r) \/ Lose(r) \/ Discard(r)
        PROVE  Inv'
    BY <1>5, ServerKeeps, DeliverKeeps, LoseStep, DiscardStep
  <1>6. ASSUME NEW r \in Requests, RequestFails(r), UNCHANGED clientVars
        PROVE  Inv'
    BY <1>6, RequestFailsStep
  <1>7. ASSUME NEW u \in Users, RevokeAllTrustedDevices(u), UNCHANGED clientVars
        PROVE  Inv'
    BY <1>7, RevokeAllTrustedDevicesStep
  <1>8. ASSUME NEW b \in Browsers, CookieLapses(b)
        PROVE  Inv'
    BY <1>8, CookieLapsesStep
  <1>9. ASSUME UNCHANGED vars
        PROVE  Inv'
    <2>1. /\ UNCHANGED <<worldVars, requests, browserOf>> /\ form' = form /\ jar' = jar
          /\ UNCHANGED <<ceremonies, begun, touches, signCount>>
          /\ UNCHANGED <<requests, left, abandoned>>
      BY <1>9 DEF vars, serverVars, clientVars, worldVars
    <2>2. CountersType' /\ TabsOK' /\ JarsOK'
      BY <2>1, SameWorld DEF Inv, TypeInv, CountersType, TabsOK, JarsOK
    <2> QED
      BY <2>1, <2>2, LeftStays, StillStep DEF Inv, TypeInv
  <1> QED
    BY <1>1, <1>2, <1>3, <1>4, <1>5, <1>6, <1>7, <1>8, <1>9 DEF Next

LEMMA Invariance == Spec => []Inv
  <1>1. Inv /\ [Next]_vars => Inv'
    BY NextKeeps
  <1> QED
    BY InitInv, <1>1, PTL DEF Spec

-----------------------------------------------------------------------------
(* The bounds: the calls that may yet begin a ceremony or mint a token *)

\* A call that may begin a ceremony, and one that may mint a device token.
Waits(x) ==
  /\ x.kind = "webauthnStart"
  /\ x.pc \in {"arrived", "factor"} \/ (x.pc = "answered" /\ x.answer = "unauthorized")

Mints(x) == x.remember /\ x.kind # "login" /\ x.pc \notin {"idle", "issue"}

Waiting == {r \in Requests : Waits(requests[r])}
Minting == {r \in Requests : Mints(requests[r])}

\* What is begun and minted, with what may yet be, stays within the bounds.
Rooms ==
  /\ IsFiniteSet(InFlight)
  /\ begun + Cardinality(Waiting) <= MaxCeremonies
  /\ minted + Cardinality(Minting) <= MaxDevices
  /\ \A c \in Challenges : ceremonies[c] <= begun
  /\ \A r \in Requests : requests[r].pc = "trust" => requests[r].remember

Losses == lost \in 0..MaxLost

LEMMA Fewer ==
  ASSUME NEW S, IsFiniteSet(S), NEW T, T \subseteq S
  PROVE  /\ IsFiniteSet(T) /\ Cardinality(T) \in Nat /\ Cardinality(S) \in Nat
         /\ Cardinality(T) <= Cardinality(S)
  <1>1. T \in SUBSET S
    OBVIOUS
  <1>2. IsFiniteSet(T) /\ Cardinality(T) <= Cardinality(S)
    BY <1>1, FS_Subset
  <1> QED
    BY <1>2, FS_CardinalityType

LEMMA FewerByOne ==
  ASSUME NEW S, IsFiniteSet(S), NEW T, T \subseteq S, NEW r \in S, r \notin T
  PROVE  Cardinality(T) + 1 <= Cardinality(S)
  <1>1. IsFiniteSet(S \ {r}) /\ Cardinality(S \ {r}) = Cardinality(S) - 1
    BY FS_RemoveElement
  <1>2. T \subseteq S \ {r}
    OBVIOUS
  <1>3. /\ Cardinality(T) \in Nat /\ Cardinality(S) \in Nat
        /\ Cardinality(T) <= Cardinality(S \ {r})
    BY <1>1, <1>2, Fewer
  <1> QED
    BY <1>1, <1>3

LEMMA OneMore ==
  ASSUME NEW S, IsFiniteSet(S), NEW r, NEW T, T \subseteq S \cup {r}
  PROVE  IsFiniteSet(T) /\ Cardinality(T) \in Nat /\ Cardinality(T) <= Cardinality(S) + 1
  <1>1. /\ IsFiniteSet(S \cup {r}) /\ Cardinality(S) \in Nat
        /\ Cardinality(S \cup {r}) = IF r \in S THEN Cardinality(S) ELSE Cardinality(S) + 1
    BY FS_AddElement, FS_CardinalityType
  <1>2. /\ IsFiniteSet(T) /\ Cardinality(T) \in Nat
        /\ Cardinality(T) <= Cardinality(S \cup {r})
    BY <1>1, Fewer
  <1> QED
    BY <1>1, <1>2

LEMMA RoomTypes ==
  ASSUME Inv, Rooms
  PROVE  /\ IsFiniteSet(Waiting) /\ IsFiniteSet(Minting)
         /\ Cardinality(Waiting) \in Nat /\ Cardinality(Minting) \in Nat
         /\ begun \in Nat /\ minted \in Nat /\ ceremonies \in [Challenges -> Nat]
  <1>1. Waiting \subseteq InFlight /\ Minting \subseteq InFlight
    BY DEF Waiting, Minting, InFlight, Waits, Mints
  <1> QED
    BY <1>1, Fewer, WorldIs DEF Rooms, Inv, TypeInv, WorldType

\* A call goes on, and asks for no more than before.
Eases(x, y) ==
  /\ x.pc # "idle"
  /\ Waits(y) => Waits(x)
  /\ Mints(y) => Mints(x)
  /\ y.pc = "trust" => y.remember

Eased(r) == \E y \in RequestRecord : Becomes(r, y) /\ Eases(requests[r], y)

LEMMA SetsEased ==
  ASSUME Inv, Rooms, NEW r \in Requests, NEW y \in RequestRecord, Becomes(r, y),
         Eases(requests[r], y)
  PROVE  /\ IsFiniteSet(InFlight') /\ Waiting' \subseteq Waiting /\ Minting' \subseteq Minting
         /\ \A q \in Requests : requests'[q].pc = "trust" => requests'[q].remember
         /\ r \in Waiting' => Waits(y)
         /\ r \in Minting' => Mints(y)
  <1>1. \A q \in Requests : requests'[q] = IF q = r THEN y ELSE requests[q]
    BY BecomesIs
  <1>2. InFlight' \subseteq InFlight
    BY <1>1 DEF InFlight, Eases
  <1>3. Waiting' \subseteq Waiting
    BY <1>1 DEF Waiting, Eases
  <1>4. Minting' \subseteq Minting
    BY <1>1 DEF Minting, Eases
  <1>5. \A q \in Requests : requests'[q].pc = "trust" => requests'[q].remember
    BY <1>1 DEF Rooms, Eases
  <1>6. IsFiniteSet(InFlight')
    BY <1>2, Fewer DEF Rooms
  <1>7. (r \in Waiting' => Waits(y)) /\ (r \in Minting' => Mints(y))
    BY <1>1 DEF Waiting, Minting
  <1> QED
    BY <1>3, <1>4, <1>5, <1>6, <1>7

LEMMA RoomsEased ==
  ASSUME Inv, Rooms, NEW r \in Requests, Eased(r), begun' = begun, minted' = minted,
         \A c \in Challenges : ceremonies'[c] <= begun
  PROVE  Rooms'
  <1> PICK y \in RequestRecord : Becomes(r, y) /\ Eases(requests[r], y)
    BY DEF Eased
  <1>1. /\ IsFiniteSet(InFlight') /\ Waiting' \subseteq Waiting /\ Minting' \subseteq Minting
        /\ \A q \in Requests : requests'[q].pc = "trust" => requests'[q].remember
    BY SetsEased
  <1>2. IsFiniteSet(Waiting) /\ IsFiniteSet(Minting) /\ begun \in Nat /\ minted \in Nat
    BY RoomTypes
  <1>3. /\ Cardinality(Waiting') \in Nat /\ Cardinality(Waiting) \in Nat
        /\ Cardinality(Waiting') <= Cardinality(Waiting)
    BY <1>1, <1>2, Fewer
  <1>4. /\ Cardinality(Minting') \in Nat /\ Cardinality(Minting) \in Nat
        /\ Cardinality(Minting') <= Cardinality(Minting)
    BY <1>1, <1>2, Fewer
  <1>5. begun' + Cardinality(Waiting') <= MaxCeremonies
    BY <1>2, <1>3 DEF Rooms
  <1>6. minted' + Cardinality(Minting') <= MaxDevices
    BY <1>2, <1>4 DEF Rooms
  <1> QED
    BY <1>1, <1>5, <1>6 DEF Rooms

\* A call that is sent has its room.
LEMMA RoomsJoined ==
  ASSUME Inv, Rooms, NEW r \in Requests, NEW y \in RequestRecord, Becomes(r, y),
         requests[r].pc = "idle", y.pc = "arrived",
         Waits(y) => RoomForCeremony, Mints(y) => RoomForDevice,
         UNCHANGED <<begun, minted, ceremonies>>
  PROVE  Rooms'
  <1> DEFINE starting == {q \in InFlight : requests[q].kind = "webauthnStart"}
             asking == {q \in InFlight : requests[q].remember /\ requests[q].kind # "login"}
  <1>1. \A q \in Requests : requests'[q] = IF q = r THEN y ELSE requests[q]
    BY BecomesIs
  <1>2. IsFiniteSet(InFlight) /\ begun \in Nat /\ minted \in Nat
    BY RoomTypes DEF Rooms
  <1>3. IsFiniteSet(InFlight')
    <2>1. InFlight' \subseteq InFlight \cup {r}
      BY <1>1 DEF InFlight
    <2> QED
      BY <1>2, <2>1, OneMore
  <1>4. begun + Cardinality(Waiting') <= MaxCeremonies
    <2>1. CASE Waits(y)
      <3>1. Waiting' \subseteq starting \cup {r}
        BY <1>1 DEF Waiting, InFlight, Waits
      <3>2. IsFiniteSet(starting)
        BY <1>2, Fewer
      <3>3. begun + Cardinality(starting) < MaxCeremonies
        BY <2>1 DEF RoomForCeremony
      <3> HIDE DEF starting
      <3>4. Cardinality(starting) \in Nat
        BY <3>2, FS_CardinalityType
      <3>5. Cardinality(Waiting') \in Nat /\ Cardinality(Waiting') <= Cardinality(starting) + 1
        BY <3>1, <3>2, OneMore
      <3> QED
        BY <1>2, <3>3, <3>4, <3>5
    <2>2. CASE ~Waits(y)
      <3>1. Waiting' \subseteq Waiting
        BY <1>1, <2>2 DEF Waiting
      <3>2. /\ Cardinality(Waiting') \in Nat /\ Cardinality(Waiting) \in Nat
            /\ Cardinality(Waiting') <= Cardinality(Waiting)
        BY <3>1, RoomTypes, Fewer
      <3> QED
        BY <1>2, <3>2 DEF Rooms
    <2> QED
      BY <2>1, <2>2
  <1>5. minted + Cardinality(Minting') <= MaxDevices
    <2>1. CASE Mints(y)
      <3>1. Minting' \subseteq asking \cup {r}
        BY <1>1 DEF Minting, InFlight, Mints
      <3>2. IsFiniteSet(asking)
        BY <1>2, Fewer
      <3>3. minted + Cardinality(asking) < MaxDevices
        BY <2>1 DEF RoomForDevice
      <3> HIDE DEF asking
      <3>4. Cardinality(asking) \in Nat
        BY <3>2, FS_CardinalityType
      <3>5. Cardinality(Minting') \in Nat /\ Cardinality(Minting') <= Cardinality(asking) + 1
        BY <3>1, <3>2, OneMore
      <3> QED
        BY <1>2, <3>3, <3>4, <3>5
    <2>2. CASE ~Mints(y)
      <3>1. Minting' \subseteq Minting
        BY <1>1, <2>2 DEF Minting
      <3>2. /\ Cardinality(Minting') \in Nat /\ Cardinality(Minting) \in Nat
            /\ Cardinality(Minting') <= Cardinality(Minting)
        BY <3>1, RoomTypes, Fewer
      <3> QED
        BY <1>2, <3>2 DEF Rooms
    <2> QED
      BY <2>1, <2>2
  <1>6. \A q \in Requests : requests'[q].pc = "trust" => requests'[q].remember
    BY <1>1 DEF Rooms
  <1> QED
    BY <1>3, <1>4, <1>5, <1>6 DEF Rooms

LEMMA RoomsStill ==
  ASSUME Rooms, UNCHANGED <<requests, begun, minted, ceremonies>>
  PROVE  Rooms'
  <1>1. InFlight' = InFlight /\ Waiting' = Waiting /\ Minting' = Minting
    BY DEF InFlight, Waiting, Minting
  <1> QED
    BY <1>1 DEF Rooms

\* What becomes of remember.
LEMMA RememberFields ==
  ASSUME NEW x \in RequestRecord
  PROVE  /\ \A p : Moved(x, p).remember = x.remember
         /\ \A a : Replied(x, a).remember = x.remember
         /\ \A a, kind, t, u, n : Finished(x, a, kind, t, u, n).remember = x.remember
         /\ Touched(x).remember = x.remember
         /\ \A c : Challenged(x, c).remember = x.remember
         /\ \A c, u : Recognized(x, c, u).remember = x.remember
         /\ \A n : Offered(x, n).remember = x.remember
         /\ \A n : Trusting(x, n).remember = x.remember
         /\ \A c, n : Posted(x, c, n).remember = x.remember
         /\ \A t, u, b : SignInCall(x, t, u, b).remember = b
         /\ \A kind, t, c, u, b : VerifyCall(x, kind, t, c, u, b).remember = b
         /\ \A by, u, n : AssertCall(x, by, u, n).remember = x.remember
         /\ \A u : RetryCall(x, u).remember = x.remember
  BY DEF RequestRecord, Moved, Replied, Finished, Touched, Challenged, Recognized, Offered,
         Trusting, Posted, SignInCall, VerifyCall, AssertCall, RetryCall

LEMMA IdleForgets == IdleRequest.remember = FALSE
  BY DEF IdleRequest

\* A step that moves a request on leaves it no more to begin or to mint.
LEMMA MovedEases ==
  ASSUME Inv, NEW r \in Requests, NEW p \in Steps, Continue(r, p),
         requests[r].pc \notin {"idle", "issue"}, requests[r].kind # "webauthnStart",
         p = "trust" => requests[r].remember
  PROVE  Eased(r)
  <1> DEFINE x == requests[r]
             y == Moved(x, p)
  <1>1. y \in RequestRecord /\ Becomes(r, y) /\ x \in RequestRecord
    BY Unfolded, RequestUpdated DEF Continue, Becomes, Moved
  <1>2. y.pc = p /\ y.kind = x.kind
    BY <1>1, MovedFields
  <1>3. y.remember = x.remember
    BY <1>1, RememberFields
  <1> HIDE DEF x, y
  <1>4. Eases(x, y)
    BY <1>2, <1>3 DEF Eases, Waits, Mints, x
  <1> QED
    BY <1>1, <1>4 DEF Eased, x

LEMMA RefusedEases ==
  ASSUME Inv, NEW r \in Requests, Answer(r, "unauthorized"),
         requests[r].pc \in {"arrived", "factor", "credential"},
         requests[r].kind = "webauthnStart" => requests[r].pc = "arrived"
  PROVE  Eased(r)
  <1> DEFINE x == requests[r]
             y == Replied(x, "unauthorized")
  <1>1. y \in RequestRecord /\ Becomes(r, y) /\ x \in RequestRecord
    BY Unfolded, RequestUpdated DEF Answer, Becomes, Replied, Answers
  <1>2. y.pc = "answered" /\ y.kind = x.kind
    BY <1>1, RepliedFields
  <1>3. y.remember = x.remember
    BY <1>1, RememberFields
  <1> HIDE DEF x, y
  <1>4. Eases(x, y)
    BY <1>2, <1>3 DEF Eases, Waits, Mints, x
  <1> QED
    BY <1>1, <1>4 DEF Eased, x

LEMMA FinishedEases ==
  ASSUME Inv, NEW r \in Requests, NEW a \in {"failed", "tokens"}, Finish(r, a),
         requests[r].pc # "idle"
  PROVE  Eased(r)
  <1> DEFINE x == requests[r]
             y == Finished(IdleRequest, a, x.kind, x.tab, x.userId, x.token)
  <1>1. y \in RequestRecord
    <2>1. /\ x.kind \in Kinds /\ x.tab \in Tabs \cup {NoTab} /\ x.userId \in Owner
          /\ x.token \in Nat
      BY Unfolded, RequestTypes
    <2>2. a \in Answers
      BY DEF Answers
    <2> HIDE DEF x
    <2> QED
      BY <2>1, <2>2, IdleIs, RequestUpdated
  <1>2. Becomes(r, y)
    BY Zenon DEF Finish, Becomes, Finished
  <1>3. y.pc = "answered" /\ y.answer = a
    BY IdleIs, FinishedFields
  <1>4. y.remember = FALSE
    BY IdleIs, RememberFields, IdleForgets
  <1> HIDE DEF y
  <1>5. Eases(x, y)
    BY <1>3, <1>4 DEF Eases, Waits, Mints
  <1> QED
    BY <1>1, <1>2, <1>5 DEF Eased

LEMMA FreedEases ==
  ASSUME NEW r \in Requests, Free(r), requests[r].pc # "idle"
  PROVE  Eased(r)
  <1>1. IdleRequest \in RequestRecord /\ Becomes(r, IdleRequest)
    BY IdleIs DEF Free, Becomes
  <1>2. Eases(requests[r], IdleRequest)
    BY IdleIs DEF Eases, Waits, Mints
  <1> QED
    BY <1>1, <1>2 DEF Eased

LEMMA SentRemember ==
  ASSUME NEW q \in RequestRecord
  PROVE  Sent(q).remember = q.remember
  <1> DEFINE c == IF q.kind = "login" THEN NoChallenge ELSE jar[browserOf[q.tab]].challenge
             d == IF q.kind = "login" THEN jar[browserOf[q.tab]].device ELSE 0
  <1>1. Sent(q) = Posted(q, c, d)
    BY Zenon DEF Sent, Posted
  <1> HIDE DEF c, d
  <1> QED
    BY <1>1, RememberFields

LEMMA ResentEases ==
  ASSUME Inv, NEW r \in Requests, NEW q \in RequestRecord, Becomes(r, Sent(q)),
         requests[r].pc = "answered", requests[r].kind # "login", q.tab = requests[r].tab,
         q.kind # "login", q.remember = requests[r].remember,
         q.kind = "webauthnStart" => Waits(requests[r])
  PROVE  Eased(r)
  <1> DEFINE x == requests[r]
             y == Sent(q)
  <1>1. q.tab \in Tabs
    BY Unfolded
  <1>2. y \in RequestRecord /\ y.pc = "arrived" /\ y.kind = q.kind
    BY <1>1, SentIs
  <1>3. y.remember = q.remember
    BY SentRemember
  <1> HIDE DEF y
  <1>4. Eases(x, y)
    BY <1>2, <1>3 DEF Eases, Waits, Mints
  <1> QED
    BY <1>2, <1>4 DEF Eased, y

\* The server's steps that begin and mint nothing.
LEMMA ServerEases ==
  ASSUME Inv, Rooms, NEW r \in Requests, RequestStep(r)
  PROVE  Eased(r) \/ BeginWebAuthnLogin(r) \/ TrustDevice(r)
  <1> DEFINE x == requests[r]
  <1>0. x \in RequestRecord
    BY Unfolded
  <1>1. CASE LoginRead(r)
    <2> DEFINE p == IF factors[x.userId] = {} THEN "issue"
                    ELSE IF TrustedDevice(x.userId, x.device) THEN "touch" ELSE "challenge"
    <2>1. x.pc = "arrived" /\ x.kind = "login" /\ Continue(r, p)
      BY <1>1 DEF LoginRead, At
    <2>2. p \in Steps /\ p # "trust"
      BY DEF Steps
    <2> HIDE DEF p
    <2> QED
      BY <2>1, <2>2, MovedEases
  <1>2. CASE TouchDevice(r)
    <2>1. x.pc = "touch" /\ x.kind = "login"
      BY <1>2 DEF TouchDevice, At
    <2>2. CASE TrustedDevice(x.userId, x.device)
      <3> DEFINE y == Touched(x)
      <3>1. y \in RequestRecord /\ Becomes(r, y)
        BY <1>2, <2>2, Unfolded, RequestUpdated DEF TouchDevice, Becomes, Touched
      <3>2. y.pc = "issue" /\ y.kind = "login"
        BY <1>0, <2>1, TouchedFields
      <3> HIDE DEF y
      <3>3. Eases(x, y)
        BY <2>1, <3>2 DEF Eases, Waits, Mints
      <3> QED
        BY <3>1, <3>3 DEF Eased
    <2>3. CASE ~TrustedDevice(x.userId, x.device)
      <3>1. Finish(r, "failed")
        BY <1>2, <2>3 DEF TouchDevice
      <3> QED
        BY <2>1, <3>1, FinishedEases
    <2> QED
      BY <2>2, <2>3
  <1>3. CASE IssueLoginChallenge(r)
    <2>1. PICK c \in FreshChallenges :
            requests' = [requests EXCEPT ![r].pc = "answered",
                                         ![r].answer = "challenge", ![r].challenge = c]
      BY <1>3 DEF IssueLoginChallenge
    <2> DEFINE y == Challenged(x, c)
    <2>2. c \in ChallengeRef
      BY DEF FreshChallenges, ChallengeRef
    <2>3. y \in RequestRecord
      BY <1>0, <2>2, RequestUpdated
    <2>4. Becomes(r, y)
      BY <2>1, Unfolded DEF Becomes, Challenged
    <2>5. x.pc = "challenge" /\ x.kind = "login"
      BY <1>3 DEF IssueLoginChallenge, At
    <2>6. y.pc = "answered" /\ y.kind = "login"
      BY <1>0, <2>5, ChallengedFields
    <2> HIDE DEF y
    <2>7. Eases(x, y)
      BY <2>5, <2>6 DEF Eases, Waits, Mints
    <2> QED
      BY <2>3, <2>4, <2>7 DEF Eased
  <1>4. CASE VerifyRead(r)
    <2> DEFINE c == x.challenge
               u == challenges[c].userId
               y == Recognized(x, NoChallenge, u)
    <2>1. x.pc = "arrived" /\ x.kind \in SecondFactor \cup {"webauthnStart"}
      BY <1>4 DEF VerifyRead, At
    <2>2. CASE ChallengeCookieMatches(r) /\ challenges[c].live
      <3>1. c \in Challenges
        BY <1>0, <2>2, RequestTypes DEF ChallengeCookieMatches, ChallengeRef
      <3>2. u \in Owner
        BY <3>1, Unfolded, WorldIs DEF WorldType, ChallengeEntry
      <3>3. Becomes(r, y)
        BY <1>4, <2>2, Unfolded DEF VerifyRead, Becomes, Recognized
      <3> HIDE DEF u
      <3>4. y \in RequestRecord
        BY <1>0, <3>2, RequestUpdated DEF ChallengeRef
      <3>5. y.pc = "factor" /\ y.kind = x.kind
        BY <1>0, RecognizedFields
      <3>6. y.remember = x.remember
        BY <1>0, RememberFields
      <3> HIDE DEF y
      <3>7. Eases(x, y)
        BY <2>1, <3>5, <3>6 DEF Eases, Waits, Mints
      <3> QED
        BY <3>3, <3>4, <3>7 DEF Eased
    <2>3. CASE ~(ChallengeCookieMatches(r) /\ challenges[c].live)
      <3>1. Answer(r, "unauthorized")
        BY <1>4, <2>3 DEF VerifyRead
      <3> QED
        BY <2>1, <3>1, RefusedEases
    <2> QED
      BY <2>2, <2>3
  <1>5. CASE CheckTotp(r)
    <2>1. x.pc = "factor" /\ x.kind = "totp" /\ "close" \in Steps
          /\ (Continue(r, "close") \/ Answer(r, "unauthorized"))
      BY <1>5 DEF CheckTotp, At, Steps
    <2> QED
      BY <2>1, MovedEases, RefusedEases
  <1>6. CASE ConsumeRecoveryCode(r)
    <2>1. x.pc = "factor" /\ x.kind = "recovery" /\ "close" \in Steps
          /\ (Continue(r, "close") \/ Answer(r, "unauthorized"))
      BY <1>6 DEF ConsumeRecoveryCode, At, Steps
    <2> QED
      BY <2>1, MovedEases, RefusedEases
  <1>7. CASE ReadCeremony(r)
    <2>1. x.pc = "factor" /\ x.kind = "webauthn" /\ "credential" \in Steps
          /\ (Continue(r, "credential") \/ Answer(r, "unauthorized"))
      BY <1>7 DEF ReadCeremony, At, Steps
    <2> QED
      BY <2>1, MovedEases, RefusedEases
  <1>8. CASE CheckCredential(r)
    <2>1. x.pc = "credential" /\ x.kind = "webauthn" /\ "counter" \in Steps
          /\ (Continue(r, "counter") \/ Answer(r, "unauthorized"))
      BY <1>8 DEF CheckCredential, At, Steps
    <2> QED
      BY <2>1, MovedEases, RefusedEases
  <1>9. CASE UpdateCredentialCounter(r) \/ DeleteCeremony(r)
    <2>1. /\ x.pc \in {"counter", "ceremony"} /\ x.kind = "webauthn"
          /\ {"ceremony", "close"} \subseteq Steps
          /\ Continue(r, "ceremony") \/ Continue(r, "close")
      BY <1>9 DEF UpdateCredentialCounter, DeleteCeremony, At, Steps
    <2> QED
      BY <2>1, MovedEases
  <1>10. CASE DeleteChallenge(r)
    <2> DEFINE p == IF x.remember /\ x.kind # "recovery" THEN "trust" ELSE "issue"
    <2>1. x.pc = "close" /\ x.kind \in SecondFactor /\ Continue(r, p)
      BY <1>10 DEF DeleteChallenge, At
    <2>2. p \in Steps /\ (p = "trust" => x.remember)
      BY DEF Steps
    <2>3. x.kind # "webauthnStart"
      BY <2>1 DEF SecondFactor
    <2> HIDE DEF p
    <2> QED
      BY <2>1, <2>2, <2>3, MovedEases
  <1>11. CASE IssueTokens(r)
    <2>1. x.pc = "issue" /\ Finish(r, "tokens")
      BY <1>11 DEF IssueTokens
    <2> QED
      BY <2>1, FinishedEases
  <1> QED
    BY <1>1, <1>2, <1>3, <1>4, <1>5, <1>6, <1>7, <1>8, <1>9, <1>10, <1>11 DEF RequestStep

\* A ceremony is begun by a call that waited for one.
LEMMA RoomsAtCeremony ==
  ASSUME Inv, Rooms, NEW r \in Requests, BeginWebAuthnLogin(r)
  PROVE  Rooms'
  <1> DEFINE x == requests[r]
             y == Offered(x, begun + 1)
  <1>1. /\ x.pc = "factor" /\ x.kind = "webauthnStart" /\ x \in RequestRecord
        /\ begun' = begun + 1 /\ minted' = minted
        /\ ceremonies' = [ceremonies EXCEPT ![x.challenge] = begun + 1]
    BY Unfolded DEF BeginWebAuthnLogin, At
  <1>2. /\ begun \in Nat /\ minted \in Nat /\ ceremonies \in [Challenges -> Nat]
        /\ IsFiniteSet(Waiting) /\ IsFiniteSet(Minting)
        /\ Cardinality(Waiting) \in Nat /\ Cardinality(Minting) \in Nat
    BY RoomTypes
  <1>3. Becomes(r, y)
    BY Unfolded DEF BeginWebAuthnLogin, Becomes, Offered
  <1>4. y \in RequestRecord
    BY <1>1, <1>2, RequestUpdated
  <1>5. y.pc = "answered" /\ y.kind = "webauthnStart" /\ y.answer = "options"
    BY <1>1, OfferedFields
  <1>6. y.remember = x.remember
    BY <1>1, RememberFields
  <1> HIDE DEF y
  <1>7. Eases(x, y) /\ Waits(x) /\ ~Waits(y)
    BY <1>1, <1>5, <1>6 DEF Eases, Waits, Mints
  <1>8. /\ IsFiniteSet(InFlight') /\ Waiting' \subseteq Waiting /\ Minting' \subseteq Minting
        /\ \A q \in Requests : requests'[q].pc = "trust" => requests'[q].remember
        /\ r \notin Waiting'
    BY <1>3, <1>4, <1>7, SetsEased
  <1>9. r \in Waiting
    BY <1>7 DEF Waiting
  <1>10. Cardinality(Waiting') + 1 <= Cardinality(Waiting) /\ Cardinality(Waiting') \in Nat
    BY <1>2, <1>8, <1>9, FewerByOne, Fewer
  <1>11. Cardinality(Minting') <= Cardinality(Minting) /\ Cardinality(Minting') \in Nat
    BY <1>2, <1>8, Fewer
  <1>12. begun' + Cardinality(Waiting') <= MaxCeremonies
    BY <1>1, <1>2, <1>10 DEF Rooms
  <1>13. minted' + Cardinality(Minting') <= MaxDevices
    BY <1>1, <1>2, <1>11 DEF Rooms
  <1>14. \A c \in Challenges : ceremonies'[c] <= begun'
    BY <1>1, <1>2 DEF Rooms
  <1> QED
    BY <1>8, <1>12, <1>13, <1>14 DEF Rooms

\* A token is minted by a call that asked for one.
LEMMA RoomsAtDevice ==
  ASSUME Inv, Rooms, NEW r \in Requests, TrustDevice(r)
  PROVE  Rooms'
  <1> DEFINE x == requests[r]
             n == minted + 1
             y == Trusting(x, n)
  <1>1. /\ x.pc = "trust" /\ x.kind \in SecondFactor /\ x \in RequestRecord
        /\ minted' = n /\ begun' = begun /\ ceremonies' = ceremonies
    BY Unfolded DEF TrustDevice, At
  <1>2. /\ begun \in Nat /\ minted \in Nat
        /\ IsFiniteSet(Waiting) /\ IsFiniteSet(Minting)
        /\ Cardinality(Waiting) \in Nat /\ Cardinality(Minting) \in Nat
    BY RoomTypes
  <1>3. Becomes(r, y) /\ n \in Nat
    <2>1. Becomes(r, y)
      BY Unfolded DEF TrustDevice, Becomes, Trusting
    <2> QED
      BY <1>2, <2>1
  <1>4. y \in RequestRecord
    BY <1>1, <1>3, RequestUpdated
  <1>5. y.pc = "issue" /\ y.kind = x.kind
    BY <1>1, TrustingFields
  <1> HIDE DEF y
  <1>6. x.remember /\ x.kind \notin {"login", "webauthnStart"}
    BY <1>1 DEF Rooms, SecondFactor
  <1>7. Eases(x, y) /\ Mints(x) /\ ~Mints(y)
    BY <1>1, <1>5, <1>6 DEF Eases, Waits, Mints
  <1>8. /\ IsFiniteSet(InFlight') /\ Waiting' \subseteq Waiting /\ Minting' \subseteq Minting
        /\ \A q \in Requests : requests'[q].pc = "trust" => requests'[q].remember
        /\ r \notin Minting'
    BY <1>3, <1>4, <1>7, SetsEased
  <1>9. r \in Minting
    BY <1>7 DEF Minting
  <1>10. Cardinality(Minting') + 1 <= Cardinality(Minting) /\ Cardinality(Minting') \in Nat
    BY <1>2, <1>8, <1>9, FewerByOne, Fewer
  <1>11. Cardinality(Waiting') <= Cardinality(Waiting) /\ Cardinality(Waiting') \in Nat
    BY <1>2, <1>8, Fewer
  <1>12. minted' + Cardinality(Minting') <= MaxDevices
    BY <1>1, <1>2, <1>10 DEF Rooms
  <1>13. begun' + Cardinality(Waiting') <= MaxCeremonies
    BY <1>1, <1>2, <1>11 DEF Rooms
  <1> QED
    BY <1>1, <1>8, <1>12, <1>13 DEF Rooms

LEMMA RoomsAtServer ==
  ASSUME Inv, Rooms, NEW r \in Requests, RequestStep(r)
  PROVE  Rooms'
  <1>1. CASE BeginWebAuthnLogin(r)
    BY <1>1, RoomsAtCeremony
  <1>2. CASE TrustDevice(r)
    BY <1>2, RoomsAtDevice
  <1>3. CASE ~BeginWebAuthnLogin(r) /\ ~TrustDevice(r)
    <2>1. Eased(r)
      BY <1>3, ServerEases
    <2>2. begun' = begun /\ minted' = minted
      BY <1>3
      DEF RequestStep, LoginRead, TouchDevice, IssueLoginChallenge, VerifyRead, CheckTotp,
          ConsumeRecoveryCode, ReadCeremony, CheckCredential, UpdateCredentialCounter,
          DeleteCeremony, DeleteChallenge, IssueTokens
    <2>3. \A c \in Challenges : ceremonies'[c] <= begun
      <3>1. CASE DeleteCeremony(r)
        <4>1. ceremonies' = [ceremonies EXCEPT ![requests[r].challenge] = 0]
          BY <3>1 DEF DeleteCeremony
        <4> QED
          BY <4>1, RoomTypes DEF Rooms
      <3>2. CASE ~DeleteCeremony(r)
        <4>1. ceremonies' = ceremonies
          BY <1>3, <3>2
          DEF RequestStep, LoginRead, TouchDevice, IssueLoginChallenge, VerifyRead, CheckTotp,
              ConsumeRecoveryCode, ReadCeremony, CheckCredential, UpdateCredentialCounter,
              DeleteChallenge, IssueTokens
        <4> QED
          BY <4>1 DEF Rooms
      <3> QED
        BY <3>1, <3>2
    <2> QED
      BY <2>1, <2>2, <2>3, RoomsEased
  <1> QED
    BY <1>1, <1>2, <1>3

\* A call leaves within the bounds that SignIn and Verify guard.
LEMMA RoomsAtSignIn ==
  ASSUME Inv, Rooms, NEW r \in Requests, NEW t \in Tabs, NEW u \in Users, NEW b \in RememberMe,
         SignIn(r, t, u, b)
  PROVE  Rooms'
  <1> DEFINE q == SignInCall(IdleRequest, t, u, b)
             y == Sent(q)
  <1>1. /\ requests[r].pc = "idle" /\ Becomes(r, y) /\ UNCHANGED <<begun, minted, ceremonies>>
    BY Zenon DEF SignIn, Becomes, SignInCall
  <1>2. u \in Owner /\ b \in BOOLEAN
    BY DEF Owner
  <1>3. q \in RequestRecord /\ q.kind = "login" /\ q.tab = t
    BY <1>2, IdleIs, RequestUpdated, SignInCallFields
  <1> HIDE DEF q
  <1>4. y \in RequestRecord /\ y.pc = "arrived" /\ y.kind = "login"
    BY <1>3, SentIs
  <1> HIDE DEF y
  <1>5. ~Waits(y) /\ ~Mints(y)
    BY <1>4 DEF Waits, Mints
  <1> QED
    BY <1>1, <1>4, <1>5, RoomsJoined

LEMMA RoomsAtVerify ==
  ASSUME Inv, Rooms, NEW r \in Requests, NEW t \in Tabs, NEW m \in SecondFactor,
         NEW by \in TotpUsers \cup KeyUsers, NEW b \in BOOLEAN, Verify(r, t, m, by, b)
  PROVE  Rooms'
  <1> DEFINE kind == IF m = "webauthn" THEN "webauthnStart" ELSE m
             q == VerifyCall(IdleRequest, kind, t, form[t].challenge, by, b)
             y == Sent(q)
  <1>1. /\ requests[r].pc = "idle" /\ Becomes(r, y)
        /\ UNCHANGED <<begun, minted, ceremonies>>
        /\ m = "webauthn" => RoomForCeremony
        /\ b => RoomForDevice
    BY Zenon DEF Verify, Becomes, VerifyCall
  <1>2. form[t] \in Form /\ form[t].challenge \in ChallengeRef
    BY DEF Inv, TypeInv, Form
  <1>3. by \in Owner /\ kind \in Kinds /\ (kind = "webauthnStart" => m = "webauthn")
    BY DEF Owner, SecondFactor, Kinds
  <1> HIDE DEF kind
  <1>4. q \in RequestRecord /\ q.kind = kind /\ q.tab = t
    BY <1>2, <1>3, IdleIs, RequestUpdated, VerifyCallFields
  <1>5. q.remember = b
    BY IdleIs, RememberFields
  <1> HIDE DEF q
  <1>6. y \in RequestRecord /\ y.pc = "arrived" /\ y.kind = kind
    BY <1>4, SentIs
  <1>7. y.remember = b
    BY <1>4, <1>5, SentRemember
  <1> HIDE DEF y
  <1>8. Waits(y) => RoomForCeremony
    BY <1>1, <1>3, <1>6 DEF Waits
  <1>9. Mints(y) => RoomForDevice
    BY <1>1, <1>7 DEF Mints
  <1> QED
    BY <1>1, <1>6, <1>8, <1>9, RoomsJoined

LEMMA StoppedEases ==
  ASSUME NEW r \in Requests, Stop(r), requests[r].pc # "idle"
  PROVE  Eased(r)
  BY FreedEases DEF Stop

LEMMA RoomsAtAnswer ==
  ASSUME Inv, Rooms, NEW r \in Requests, Deliver(r)
  PROVE  Rooms'
  <1> DEFINE x == requests[r]
  <1>1. x.pc = "answered" /\ x \in RequestRecord
    BY Unfolded DEF Deliver, DeliverTokens, DeliverChallenge, DeliverOptions, Unauthorized,
                    DeliverFailure, Answered
  <1>2. UNCHANGED <<begun, minted, ceremonies>>
    BY DEF Deliver, DeliverTokens, DeliverChallenge, DeliverOptions, Unauthorized,
           DeliverFailure
  <1>3. CASE Free(r)
    BY <1>1, <1>3, FreedEases, <1>2, RoomsEased DEF Rooms
  <1>4. CASE DeliverOptions(r) /\ ~Free(r)
    <2> DEFINE n == touches[x.userId] + 1
               q == AssertCall(x, x.userId, Nobody, n)
    <2>1. Becomes(r, Sent(q))
      BY <1>4, Zenon DEF DeliverOptions, Stop, Becomes, AssertCall
    <2>2. x.kind = "webauthnStart" /\ x.userId \in Users
      BY <1>4, Unfolded DEF DeliverOptions, Answered, RequestOK, AnswerOK
    <2>3. n \in Nat
      BY <2>2, Unfolded DEF CountersType
    <2> HIDE DEF n
    <2>4. q \in RequestRecord /\ q.kind = "webauthn" /\ q.tab = x.tab
      BY <1>1, <2>2, <2>3, RequestUpdated, AssertCallFields DEF Owner
    <2>5. q.remember = x.remember
      BY <1>1, RememberFields
    <2> HIDE DEF q
    <2>6. Eased(r)
      BY <1>1, <2>1, <2>2, <2>4, <2>5, ResentEases
    <2> QED
      BY <1>2, <2>6, RoomsEased DEF Rooms
  <1>5. CASE Unauthorized(r) /\ ~Free(r)
    <2> DEFINE q == RetryCall(x, Nobody)
    <2>1. Becomes(r, Sent(q))
      BY <1>5, Zenon DEF Unauthorized, Stop, Becomes, RetryCall
    <2>2. x.kind # "login" /\ x.answer = "unauthorized"
      BY <1>5, Unfolded DEF Unauthorized, Answered, RequestOK, AnswerOK
    <2>3. q \in RequestRecord /\ q.kind = x.kind /\ q.tab = x.tab
      BY <1>1, RequestUpdated, RetryCallFields DEF Owner
    <2>4. q.remember = x.remember
      BY <1>1, RememberFields
    <2> HIDE DEF q
    <2>5. q.kind = "webauthnStart" => Waits(x)
      BY <1>1, <2>2, <2>3 DEF Waits
    <2>6. Eased(r)
      BY <1>1, <2>1, <2>2, <2>3, <2>4, <2>5, ResentEases
    <2> QED
      BY <1>2, <2>6, RoomsEased DEF Rooms
  <1>6. Free(r) \/ DeliverOptions(r) \/ Unauthorized(r)
    BY DEF Deliver, DeliverTokens, DeliverChallenge, DeliverFailure, Stop
  <1> QED
    BY <1>3, <1>4, <1>5, <1>6

LEMMA RoomsAtFailure ==
  ASSUME Inv, Rooms, NEW r \in Requests, RequestFails(r)
  PROVE  Rooms'
  <1>1. Finish(r, "failed") /\ requests[r].pc # "idle" /\ UNCHANGED <<begun, minted, ceremonies>>
    BY DEF RequestFails
  <1>2. Eased(r)
    BY <1>1, FinishedEases
  <1> QED
    BY <1>1, <1>2, RoomsEased DEF Rooms

LEMMA RoomsAtLoss ==
  ASSUME Inv, Rooms, NEW r \in Requests, Lose(r) \/ Discard(r)
  PROVE  Rooms'
  <1>1. UNCHANGED <<begun, minted, ceremonies>>
    BY DEF Lose, Discard
  <1>2. requests[r].pc # "idle" /\ (Free(r) \/ requests' = requests)
    BY DEF Lose, Discard
  <1>3. CASE Free(r)
    BY <1>1, <1>2, <1>3, FreedEases, RoomsEased DEF Rooms
  <1>4. CASE requests' = requests
    BY <1>1, <1>4, RoomsStill
  <1> QED
    BY <1>2, <1>3, <1>4

LEMMA RoomsKept ==
  ASSUME Inv, Rooms, [Next]_vars
  PROVE  Rooms'
  <1>1. ASSUME NEW r \in Requests, NEW t \in Tabs, NEW u \in Users, NEW b \in RememberMe,
               SignIn(r, t, u, b)
        PROVE  Rooms'
    BY <1>1, RoomsAtSignIn
  <1>2. ASSUME NEW r \in Requests, NEW t \in Tabs, NEW m \in SecondFactor,
               NEW by \in TotpUsers \cup KeyUsers, NEW b \in BOOLEAN, Verify(r, t, m, by, b)
        PROVE  Rooms'
    BY <1>2, RoomsAtVerify
  <1>3. ASSUME NEW r \in Requests,
               Server(r) \/ Deliver(r) \/ RequestFails(r) \/ Lose(r) \/ Discard(r)
        PROVE  Rooms'
    BY <1>3, RoomsAtServer, RoomsAtAnswer, RoomsAtFailure, RoomsAtLoss DEF Server
  <1>4. ASSUME NEW c \in Challenges, ChallengeLapses(c)
        PROVE  Rooms'
    BY <1>4, RoomsStill DEF ChallengeLapses
  <1>5. ASSUME NEW t \in Tabs, BackToSignIn(t) \/ SignOut(t)
        PROVE  Rooms'
    BY <1>5, RoomsStill DEF BackToSignIn, SignOut, serverVars
  <1>6. ASSUME NEW u \in Users, RevokeAllTrustedDevices(u)
        PROVE  Rooms'
    BY <1>6, RoomsStill DEF RevokeAllTrustedDevices
  <1>7. ASSUME (\E b \in Browsers : CookieLapses(b)) \/ UNCHANGED vars
        PROVE  Rooms'
    BY <1>7, RoomsStill DEF CookieLapses, vars, serverVars
  <1> QED
    BY <1>1, <1>2, <1>3, <1>4, <1>5, <1>6, <1>7 DEF Next

LEMMA LossesKept ==
  ASSUME Losses, [Next]_vars
  PROVE  Losses'
  <1>1. ASSUME NEW r \in Requests, Lose(r)
        PROVE  Losses'
    BY <1>1, LoginFormConstants DEF Lose, Losses
  <1>2. ASSUME NEW r \in Requests, Deliver(r) \/ Discard(r)
        PROVE  lost' = lost
    BY <1>2 DEF Deliver, DeliverTokens, DeliverChallenge, DeliverOptions, Unauthorized,
                DeliverFailure, Discard
  <1>3. ASSUME NEW r \in Requests, NEW t \in Tabs, NEW u \in Users, NEW b \in RememberMe,
               SignIn(r, t, u, b)
        PROVE  lost' = lost
    BY <1>3 DEF SignIn
  <1>4. ASSUME NEW r \in Requests, NEW t \in Tabs, NEW m \in SecondFactor,
               NEW by \in TotpUsers \cup KeyUsers, NEW b \in BOOLEAN, Verify(r, t, m, by, b)
        PROVE  lost' = lost
    BY <1>4 DEF Verify
  <1>5. ASSUME NEW t \in Tabs, BackToSignIn(t) \/ SignOut(t)
        PROVE  lost' = lost
    BY <1>5 DEF BackToSignIn, SignOut
  <1>6. ASSUME NEW b \in Browsers, CookieLapses(b)
        PROVE  lost' = lost
    BY <1>6 DEF CookieLapses
  <1>7. clientVars' = clientVars \/ UNCHANGED vars => lost' = lost
    BY DEF clientVars, vars
  <1>8. (\E r \in Requests : Lose(r)) \/ lost' = lost
    BY <1>2, <1>3, <1>4, <1>5, <1>6, <1>7 DEF Next, Server
  <1> QED
    BY <1>1, <1>8 DEF Losses

LEMMA InitRooms == Init => Rooms /\ Losses
  <1> SUFFICES ASSUME Init PROVE Rooms /\ Losses
    OBVIOUS
  <1>0. Losses
    BY LoginFormConstants DEF Init, Losses
  <1>1. /\ begun = 0 /\ minted = 0 /\ ceremonies = [c \in Challenges |-> 0]
        /\ \A r \in Requests : requests[r] = IdleRequest
    BY DEF Init, ServerInit
  <1>2. \A r \in Requests : requests[r].pc = "idle"
    BY <1>1, IdleIs
  <1>3. InFlight = {} /\ Waiting = {} /\ Minting = {}
    BY <1>2 DEF InFlight, Waiting, Minting, Waits, Mints
  <1>4. IsFiniteSet({}) /\ Cardinality({}) = 0
    BY FS_EmptySet
  <1>5. \A c \in Challenges : ceremonies[c] <= begun
    BY <1>1
  <1>6. \A r \in Requests : requests[r].pc = "trust" => requests[r].remember
    BY <1>2
  <1> QED
    BY <1>0, <1>1, <1>3, <1>4, <1>5, <1>6 DEF Rooms

LEMMA TypesFromRooms ==
  ASSUME Inv, Rooms, Losses
  PROVE  TypeOK
  <1>1. /\ begun \in Nat /\ minted \in Nat /\ ceremonies \in [Challenges -> Nat]
        /\ Cardinality(Waiting) \in Nat /\ Cardinality(Minting) \in Nat
    BY RoomTypes
  <1>2. begun \in 0..MaxCeremonies /\ minted \in 0..MaxDevices
    BY <1>1 DEF Rooms
  <1>3. ceremonies \in [Challenges -> 0..MaxCeremonies]
    BY <1>1, <1>2 DEF Rooms
  <1>4. devices \in SUBSET (Users \X (1..MaxDevices))
    <2>1. devices \in SUBSET (Users \X (Nat \ {0}))
      BY WorldIs DEF Inv, TypeInv, WorldType
    <2>2. \A u \in Users, d \in Nat : <<u, d>> \in devices => d <= minted
      BY WorldIs DEF Inv, WorldOK
    <2> QED
      BY <1>1, <1>2, <2>1, <2>2
  <1>5. /\ challenges \in [Challenges -> ChallengeEntry] /\ unusedCodes \in SUBSET Users
        /\ sessions \in [SessionIds -> SessionRow]
    BY WorldIs DEF Inv, TypeInv, WorldType
  <1> QED
    BY <1>2, <1>3, <1>4, <1>5 DEF TypeOK, ServerTypeOK, Inv, TypeInv, Losses

-----------------------------------------------------------------------------
(* Theorems *)

\* A session opened with a second factor belongs to the user whose password
\* opened its challenge, and the factor was that user's own: for any number
\* of sign-ins that share a browser, in any interleaving of their calls.
THEOREM FactorOfOwnerHolds == Spec => []FactorOfOwner
  <1>1. Inv => FactorOfOwner
    BY WorldIs DEF Inv, SessionsOK, SessionOK, FactorOfOwner, Opened
  <1> QED
    BY Invariance, <1>1, PTL

\* The password alone opens a session only where the user has no factor: a
\* browser that skips the second step holds a device token that was minted
\* for a code or a key of the same user (finishMfaLogin, isDeviceTrusted).
THEOREM PasswordAloneHolds == Spec => []PasswordAloneIsNotEnough
  <1>1. Inv => PasswordAloneIsNotEnough
    BY WorldIs DEF Inv, SessionsOK, SessionOK, PasswordAloneIsNotEnough, Opened, Vouched
  <1> QED
    BY Invariance, <1>1, PTL

\* A challenge, read at the start of a verification and deleted at its end,
\* opens a second session only if the form has given up waiting for one of
\* its verifications: otherwise the form has one of them under way, and no
\* other tab knows the challenge.
THEOREM SecondSessionHolds == Spec => []SecondSessionNeedsLoss
  <1>1. Inv => SecondSessionNeedsLoss
    BY DEF Inv, PairsOK
  <1> QED
    BY Invariance, <1>1, PTL

\* A recovery code presented by any number of calls at once opens one session
\* at most: consumeRecoveryCode claims it in one statement.
THEOREM RecoveryCodeHolds == Spec => []RecoveryCodeSpentOnce
  <1>1. Inv => RecoveryCodeSpentOnce
    BY DEF Inv, PairsOK
  <1> QED
    BY Invariance, <1>1, PTL

\* The challenge that opened a session is dead, for good: it was deleted
\* before issueTokens, and no sign-in draws its id again.
THEOREM CompletedChallengesHold == Spec => []CompletedChallengesAreDead
  <1>1. Inv => CompletedChallengesAreDead
    BY WorldIs DEF Inv, SessionsOK, SessionOK, CompletedChallengesAreDead, Opened
  <1> QED
    BY Invariance, <1>1, PTL

\* The types of the challenges, ceremonies, devices, sessions and calls are
\* kept, the counters within their bounds: what SignIn and Verify reserve
\* before a call leaves is enough for every ceremony and token the call may
\* come to, its retry after a 401 included.
THEOREM LoginTypes == Spec => []TypeOK
  <1>1. Inv /\ Rooms /\ Losses => TypeOK
    BY TypesFromRooms
  <1>2. Inv /\ Rooms /\ [Next]_vars => Rooms'
    BY RoomsKept
  <1>3. Losses /\ [Next]_vars => Losses'
    BY LossesKept
  <1> QED
    BY Invariance, InitRooms, <1>1, <1>2, <1>3, PTL DEF Spec
=============================================================================
