---------------------------- MODULE Verification ----------------------------
(***************************************************************************)
(* Registration and the verification of an e-mail address: AuthService     *)
(* register, resendVerification and verifyEmail, the email_verifications   *)
(* table, the mail, the registration form and the page the mailed link     *)
(* opens.  One address is modelled: addresses share nothing.               *)
(*                                                                         *)
(* A request runs from one await to the effect of the next statement.  A   *)
(* statement may be given up by the database watchdog (with-timeout.ts):   *)
(* the request fails at once, and the statement may still land later.      *)
(* Names, passwords, texts and the audit trail are left out, and so is the *)
(* account status (module Accounts).                                       *)
(***************************************************************************)
EXTENDS Integers, FiniteSets

CONSTANTS
  Tokens,          \* the verification tokens that may exist at one time
  NoToken,
  Requests,        \* slots for concurrent requests
  NoRequest,
  MaxDisturbances  \* bound on the statements given up by the watchdog and
                   \* the requests of somebody else, together

ASSUME VerificationConstants ==
  /\ MaxDisturbances \in Nat
  /\ NoToken \notin Tokens /\ NoRequest \notin Requests

VARIABLES
  account,    \* the users row
  tokens,     \* the email_verifications rows
  inbox,      \* tokens whose mail has arrived
  requests,   \* requests in flight
  late,       \* statements given up that have not landed
  disturbances,   \* number of the disturbances bounded by MaxDisturbances
  form,       \* the registration form
  page        \* the verify-email page

vars == <<account, tokens, inbox, requests, late, disturbances, form, page>>

-----------------------------------------------------------------------------
(* Types *)

People == {"owner", "other"}

Account == [created : BOOLEAN, emailVerified : BOOLEAN]

\* "live" and "expired": usedAt is null; "free": no row has the token.
TokenState == {"free", "live", "expired", "used"}

\* What one statement does to the database.
Statement ==
  [op : {"insert", "revokePending", "markEmailVerified"}]
    \cup [op : {"create", "markUsed"}, token : Tokens]

\* alone (history): a request for a link, and nothing else has written to
\* the two tables since it began.
Request ==
  [pc : {"idle", "find", "insert", "revoke", "create", "mail", "read",
         "confirm", "use", "verify", "answered"},
   who : People, register : BOOLEAN, alone : BOOLEAN, token : Tokens \cup {NoToken},
   answer : {"none", "ok", "refused", "failed"}]

Idle == [pc |-> "idle", who |-> "owner", register |-> FALSE, alone |-> FALSE, token |-> NoToken,
         answer |-> "none"]

\* request: the request whose answer the page awaits.  token: the link's.
Page == [state : {"closed", "verifying", "success", "error"},
         token : Tokens \cup {NoToken}, request : Requests \cup {NoRequest}]

ClosedPage == [state |-> "closed", token |-> NoToken, request |-> NoRequest]

\* Every variable has its type: no statement, on time or late, removes a link.
TypeOK ==
  /\ account \in Account
  /\ tokens \in [Tokens -> TokenState]
  /\ inbox \in SUBSET Tokens
  /\ requests \in [Requests -> Request]
  /\ late \in SUBSET Statement
  /\ disturbances \in 0..MaxDisturbances
  /\ form \in {"editing", "submitting", "registered"}
  /\ page \in Page

Init ==
  /\ account = [created |-> FALSE, emailVerified |-> FALSE]
  /\ tokens = [k \in Tokens |-> "free"]
  /\ inbox = {}
  /\ requests = [r \in Requests |-> Idle]
  /\ late = {}
  /\ disturbances = 0
  /\ form = "editing"
  /\ page = ClosedPage

-----------------------------------------------------------------------------
(* The statements *)

Exists == account.created

\* Mutation: resending revokes the links that have expired.
RevokePendingExpired ==
  tokens' = [k \in Tokens |-> IF tokens[k] = "expired" THEN "used" ELSE tokens[k]]

RevokePending ==
  tokens' = [k \in Tokens |->
    IF tokens[k] \in {"live", "expired"} THEN "used" ELSE tokens[k]]

\* e-mail addresses are unique: a second insert fails and changes nothing.
InsertUser == account' = [account EXCEPT !.created = TRUE]

CreateToken(k) == tokens' = [tokens EXCEPT ![k] = "live"]

\* Mutation: the row is deleted.
MarkUsedDeletes(k) == tokens' = [x \in Tokens \ {k} |-> tokens[x]]

MarkUsed(k) == tokens' = [tokens EXCEPT ![k] = "used"]

MarkEmailVerified == account' = [account EXCEPT !.emailVerified = TRUE]

Execute(s) ==
  CASE s.op = "insert" -> InsertUser /\ UNCHANGED tokens
    [] s.op = "revokePending" -> RevokePending /\ UNCHANGED account
    [] s.op = "create" -> CreateToken(s.token) /\ UNCHANGED account
    [] s.op = "markUsed" -> MarkUsed(s.token) /\ UNCHANGED account
    [] s.op = "markEmailVerified" -> MarkEmailVerified /\ UNCHANGED tokens
-----------------------------------------------------------------------------
(* The requests *)

At(r, step) == requests[r].pc = step

Continue(r, step) == requests' = [requests EXCEPT ![r].pc = step]

Answer(r, a) == requests' = [requests EXCEPT ![r].pc = "answered", ![r].answer = a]

\* r goes on as q, having written: no other request is alone.
Disturb(r, q) ==
  requests' = [x \in Requests |->
    IF x = r THEN q ELSE [requests[x] EXCEPT !.alone = FALSE]]

Untouched == UNCHANGED <<inbox, late, disturbances, form, page>>

\* Mutation: no second link while one is on record.
NeedsLinkOnce == Exists /\ ~account.emailVerified /\ \A k \in Tokens : tokens[k] = "free"

NeedsLink == Exists /\ ~account.emailVerified

\* findByEmail.  Only register creates the account; an unverified one gets a
\* fresh link, and nobody learns which of the three it was.
FindByEmail(r) ==
  /\ At(r, "find")
  /\ IF NeedsLink THEN Continue(r, "revoke")
     ELSE IF ~Exists /\ requests[r].register THEN Continue(r, "insert")
     ELSE Answer(r, "ok")
  /\ UNCHANGED <<account, tokens>> /\ Untouched

Insert(r) ==
  /\ At(r, "insert")
  /\ InsertUser
  /\ IF Exists THEN Answer(r, "failed")
     ELSE Disturb(r, [requests[r] EXCEPT !.pc = "revoke"])
  /\ UNCHANGED tokens /\ Untouched

\* Tokens no row, no pending statement and no request stands for.
FreeTokens ==
  {k \in Tokens : /\ tokens[k] = "free"
                  /\ \A r \in Requests : requests[r].token # k
                  /\ \A s \in late : s.op \in {"create", "markUsed"} => s.token # k}

\* issueVerificationToken: revokePending, then a token is drawn and stored.
Revoke(r) ==
  /\ At(r, "revoke")
  /\ RevokePending
  /\ Disturb(r, [requests[r] EXCEPT !.pc = "create"])
  /\ UNCHANGED account /\ Untouched

Create(r) ==
  /\ At(r, "create")
  /\ \E k \in FreeTokens :
       /\ CreateToken(k)
       /\ Disturb(r, [requests[r] EXCEPT !.pc = "mail", !.token = k])
  /\ UNCHANGED account /\ Untouched

\* sendVerificationEmail never throws.
Sent(r) ==
  requests' = [requests EXCEPT ![r].pc = "answered", ![r].answer = "ok",
                               ![r].token = NoToken]

MailDelivered(r) ==
  /\ At(r, "mail")
  /\ inbox' = inbox \cup {requests[r].token}
  /\ Sent(r)
  /\ UNCHANGED <<account, tokens, late, disturbances, form, page>>

MailLost(r) ==
  /\ At(r, "mail")
  /\ Sent(r)
  /\ UNCHANGED <<account, tokens>> /\ Untouched

Acceptable(k) == tokens[k] = "live"

\* findActiveByHash, with the user, and the three cases of verifyEmail.
ReadToken(r) ==
  LET k == requests[r].token
  IN  /\ At(r, "read")
      /\ CASE account.emailVerified -> Continue(r, "confirm")
           [] ~account.emailVerified /\ Acceptable(k) -> Continue(r, "use")
           [] OTHER -> Answer(r, "refused")
      /\ UNCHANGED <<account, tokens>> /\ Untouched

\* Already verified: the token is only marked.
Confirm(r) ==
  /\ At(r, "confirm")
  /\ MarkUsed(requests[r].token)
  /\ Disturb(r, [requests[r] EXCEPT !.pc = "answered", !.answer = "ok"])
  /\ UNCHANGED account /\ Untouched

\* Mutation: the page is answered before the address is verified.
UseAnswers(r) ==
  /\ At(r, "use")
  /\ MarkUsed(requests[r].token)
  /\ late' = late \cup {[op |-> "markEmailVerified"]}
  /\ Answer(r, "ok")
  /\ UNCHANGED <<account, inbox, disturbances, form, page>>

Use(r) ==
  /\ At(r, "use")
  /\ MarkUsed(requests[r].token)
  /\ Disturb(r, [requests[r] EXCEPT !.pc = "verify"])
  /\ UNCHANGED account /\ Untouched

Verify(r) ==
  /\ At(r, "verify")
  /\ MarkEmailVerified
  /\ Answer(r, "ok")
  /\ UNCHANGED tokens /\ Untouched

-----------------------------------------------------------------------------
(* Faults *)

StatementOf(r, k) ==
  LET q == requests[r]
  IN  CASE q.pc = "insert" -> [op |-> "insert"]
        [] q.pc = "revoke" -> [op |-> "revokePending"]
        [] q.pc = "create" -> [op |-> "create", token |-> k]
        [] q.pc \in {"confirm", "use"} -> [op |-> "markUsed", token |-> q.token]
        [] q.pc = "verify" -> [op |-> "markEmailVerified"]

\* withDbTimeout: the race is lost and the call rejects.
TimesOut(r) ==
  /\ disturbances < MaxDisturbances
  /\ requests[r].pc \in {"insert", "revoke", "create", "confirm", "use", "verify"}
  /\ disturbances' = disturbances + 1
  /\ \E k \in IF At(r, "create") THEN FreeTokens ELSE {NoToken} :
       late' = late \cup {StatementOf(r, k)}
  /\ Answer(r, "failed")
  /\ UNCHANGED <<account, tokens, inbox, form, page>>

\* The statement reaches the database after all.
Lands(s) ==
  /\ s \in late
  /\ Execute(s)
  /\ late' = late \ {s}
  /\ requests' = [r \in Requests |-> [requests[r] EXCEPT !.alone = FALSE]]
  /\ UNCHANGED <<inbox, disturbances, form, page>>

Expires(k) ==
  /\ tokens[k] = "live"
  /\ tokens' = [tokens EXCEPT ![k] = "expired"]
  /\ UNCHANGED account /\ UNCHANGED requests /\ Untouched

\* Bound: a token that is of no use any more, and that nobody is about to
\* present, is taken again for a new one.
Reclaim(k) ==
  /\ tokens[k] = "used"
  /\ page.token # k
  /\ \A r \in Requests : requests[r].token # k
  /\ \A s \in late : s.op = "markUsed" => s.token # k
  /\ tokens' = [tokens EXCEPT ![k] = "free"]
  /\ inbox' = inbox \ {k}
  /\ UNCHANGED <<account, requests, late, disturbances, form, page>>

-----------------------------------------------------------------------------
(* The pages *)

Start(r, q) ==
  /\ At(r, "idle")
  /\ requests' = [requests EXCEPT ![r] = q]

\* The submit button is disabled while the form is submitting.
SubmitForm(r) ==
  /\ form = "editing"
  /\ Start(r, [Idle EXCEPT !.pc = "find", !.register = TRUE, !.alone = TRUE])
  /\ form' = "submitting"
  /\ UNCHANGED <<account, tokens, inbox, late, disturbances, page>>

\* "Resend it" below the form, and on the sign-in page: never disabled.
Resend(r) ==
  /\ Exists /\ ~account.emailVerified
  /\ Start(r, [Idle EXCEPT !.pc = "find", !.alone = TRUE])
  /\ UNCHANGED <<account, tokens>> /\ Untouched

\* Anybody can register the address or ask for a link.
OtherAsks(r, register) ==
  /\ disturbances < MaxDisturbances
  /\ disturbances' = disturbances + 1
  /\ Start(r, [Idle EXCEPT !.pc = "find", !.who = "other", !.register = register,
                           !.alone = TRUE])
  /\ UNCHANGED <<account, tokens, inbox, late, form, page>>

\* The effect of the page sends the token.
SendToken(r, k) ==
  /\ Start(r, [Idle EXCEPT !.pc = "read", !.token = k])
  /\ page' = [state |-> "verifying", token |-> k, request |-> r]
  /\ UNCHANGED <<account, tokens, inbox, late, disturbances, form>>

\* The page is the one opened last.
OpenLink(r, k) == k \in inbox /\ SendToken(r, k)

\* React runs the effect again (StrictMode): the first answer is
\* "cancelled" and the token is sent a second time.
RunEffectAgain(r) == page.state = "verifying" /\ SendToken(r, page.token)

Awaited(r) == page.request = r

\* The rest of the form's onSubmit; after an error it can be sent again.
FormAnswered(q) ==
  IF q.register /\ q.who = "owner"
  THEN IF q.answer = "ok" THEN "registered" ELSE "editing"
  ELSE form

\* An answer reaches the page or the form that awaits it; the others go to
\* pages that do not show them.
Deliver(r) ==
  LET q == requests[r]
  IN  /\ At(r, "answered")
      /\ requests' = [requests EXCEPT ![r] = Idle]
      /\ page' = IF Awaited(r)
                 THEN [page EXCEPT !.request = NoRequest, !.token = NoToken,
                         !.state = IF q.answer = "ok" THEN "success" ELSE "error"]
                 ELSE page
      /\ form' = FormAnswered(q)
      /\ UNCHANGED <<account, tokens, inbox, late, disturbances>>

-----------------------------------------------------------------------------
ServerStep(r) ==
  \/ FindByEmail(r) \/ Insert(r) \/ Revoke(r) \/ Create(r)
  \/ ReadToken(r) \/ Confirm(r) \/ Use(r) \/ Verify(r)

Next ==
  \/ \E r \in Requests : ServerStep(r) \/ Deliver(r)
  \/ \E r \in Requests : MailDelivered(r) \/ MailLost(r) \/ TimesOut(r)
  \/ \E s \in Statement : Lands(s)
  \/ \E k \in Tokens : Expires(k) \/ Reclaim(k)
  \/ \E r \in Requests : SubmitForm(r) \/ Resend(r) \/ RunEffectAgain(r)
  \/ \E r \in Requests, register \in BOOLEAN : OtherAsks(r, register)
  \/ \E r \in Requests, k \in Tokens : OpenLink(r, k)

Spec == Init /\ [][Next]_vars

-----------------------------------------------------------------------------
(* Properties *)

\* A link that was issued while nothing else touched the links is the only
\* one that works: two links are good at once only when requests overlapped.
ResendLeavesOneLink ==
  \A r \in Requests : At(r, "mail") /\ requests[r].alone =>
    \A k \in Tokens : tokens[k] = "live" => k = requests[r].token

\* "Email verified successfully" is only shown of an address that is verified,
\* whatever was retried, raced or given up.
SuccessMeansVerified == page.state = "success" => account.emailVerified

\* Whoever asks for a link, and is not overtaken, leaves one on record: no
\* state of the old ones (lost, expired, burnt by a request that failed after
\* marking it) locks the owner out.
AnswerLeavesALink ==
  \A r \in Requests :
    /\ At(r, "answered") /\ requests[r].answer = "ok" /\ requests[r].alone
    /\ Exists /\ ~account.emailVerified
    => \E k \in Tokens : tokens[k] \in {"live", "expired"}
=============================================================================
