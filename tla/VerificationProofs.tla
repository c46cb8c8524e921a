------------------------- MODULE VerificationProofs -------------------------
(***************************************************************************)
(* Theorems about module Verification: the page tells the truth, and a     *)
(* link that was issued undisturbed is the only one and stays on record,   *)
(* for any number of links, concurrent requests and statements that land   *)
(* late.                                                                   *)
(***************************************************************************)
EXTENDS Verification, TLAPS

\* A request about a link holds it.
TokensHeld ==
  \A r \in Requests :
    requests[r].pc \in {"mail", "read", "confirm", "use"} => requests[r].token # NoToken

PageHoldsToken == page.state = "verifying" => page.token # NoToken

\* A link is confirmed again only for a verified address.
ConfirmedVerified ==
  \A r \in Requests : requests[r].pc = "confirm" => account.emailVerified

\* The page awaits a verification, and its success is a verified address.
AwaitedVerifies ==
  \A r \in Requests : page.request = r =>
    /\ requests[r].pc \in {"read", "confirm", "use", "verify", "answered"}
    /\ requests[r].pc = "answered" /\ requests[r].answer = "ok" => account.emailVerified

\* Undisturbed, a request has revoked every link before it creates one.
NoneBeforeCreate ==
  \A r \in Requests : requests[r].pc = "create" /\ requests[r].alone =>
    \A k \in Tokens : tokens[k] # "live"

\* Undisturbed, the link that is about to be mailed is still on record.
MailedOnRecord ==
  \A r \in Requests : requests[r].pc = "mail" /\ requests[r].alone =>
    tokens[requests[r].token] \in {"live", "expired"}

Inv ==
  /\ TypeOK
  /\ TokensHeld /\ PageHoldsToken
  /\ ConfirmedVerified /\ AwaitedVerifies /\ SuccessMeansVerified
  /\ NoneBeforeCreate /\ ResendLeavesOneLink
  /\ MailedOnRecord /\ AnswerLeavesALink

-----------------------------------------------------------------------------
USE VerificationConstants

LEMMA InitInv == Init => Inv
  BY DEF Init, Inv, TypeOK, TokensHeld, PageHoldsToken, ConfirmedVerified,
     AwaitedVerifies, SuccessMeansVerified, NoneBeforeCreate, ResendLeavesOneLink,
     MailedOnRecord, AnswerLeavesALink, Idle, ClosedPage, Request, Page, Account,
     People, TokenState, At, Exists

LEMMA IdleType == Idle \in Request
  BY DEF Idle, Request, People

\* A request with a new step, and its answer or its link, is a request.
LEMMA ChangedType ==
  ASSUME TypeOK, NEW r \in Requests
  PROVE  /\ \A a \in {"ok", "refused", "failed"} :
              [requests EXCEPT ![r].pc = "answered", ![r].answer = a]
                \in [Requests -> Request]
         /\ \A k \in Tokens :
              [requests[r] EXCEPT !.pc = "mail", !.token = k] \in Request
  <1>1. requests \in [Requests -> Request] /\ requests[r] \in Request
    BY DEF TypeOK
  <1>2. \A a \in {"ok", "refused", "failed"} :
          [requests EXCEPT ![r].pc = "answered", ![r].answer = a] \in [Requests -> Request]
    BY <1>1 DEF Request
  <1>3. \A k \in Tokens : [requests[r] EXCEPT !.pc = "mail", !.token = k] \in Request
    BY <1>1 DEF Request
  <1> QED
    BY <1>2, <1>3

\* What a request that writes becomes is a request.
LEMMA DisturbType ==
  ASSUME TypeOK, NEW r \in Requests, NEW q \in Request, Disturb(r, q)
  PROVE  requests' \in [Requests -> Request]
  <1>1. \A x \in Requests : [requests[x] EXCEPT !.alone = FALSE] \in Request
    BY DEF TypeOK, Request
  <1> QED
    BY <1>1 DEF Disturb

\* Every statement keeps the types and a verified address.
LEMMA ExecuteKeeps ==
  ASSUME TypeOK, NEW s \in Statement, Execute(s)
  PROVE  /\ account' \in Account /\ tokens' \in [Tokens -> TokenState]
         /\ account.emailVerified => account'.emailVerified
  <1> USE DEF TypeOK, Account, TokenState
  <1>1. CASE s.op = "insert"
    BY <1>1 DEF Execute, InsertUser
  <1>2. CASE s.op = "revokePending"
    BY <1>2 DEF Execute, RevokePending
  <1>3. CASE s.op = "create"
    BY <1>3 DEF Execute, CreateToken
  <1>4. CASE s.op = "markUsed"
    BY <1>4 DEF Execute, MarkUsed
  <1>5. CASE s.op = "markEmailVerified"
    BY <1>5 DEF Execute, MarkEmailVerified
  <1> QED
    BY <1>1, <1>2, <1>3, <1>4, <1>5 DEF Statement

\* The statement of a request is a statement.
LEMMA StatementOfType ==
  ASSUME TypeOK, TokensHeld, NEW r \in Requests, NEW k \in Tokens \cup {NoToken},
         requests[r].pc \in {"insert", "revoke", "create", "confirm", "use", "verify"},
         requests[r].pc = "create" => k \in Tokens
  PROVE  StatementOf(r, k) \in Statement
  <1>1. requests[r].who \in People /\ requests[r].token \in Tokens \cup {NoToken}
    BY DEF TypeOK, Request
  <1>2. requests[r].pc \in {"confirm", "use"} => requests[r].token \in Tokens
    BY <1>1 DEF TokensHeld
  <1> QED
    BY <1>1, <1>2 DEF StatementOf, Statement

\* A request that asks for a link begins.
LEMMA StartStep ==
  ASSUME Inv, NEW r \in Requests, NEW q \in Request,
         q.pc = "find", Start(r, q),
         disturbances' \in 0 .. MaxDisturbances,
         form' \in {"editing", "submitting", "registered"},
         UNCHANGED <<account, tokens, inbox, late, page>>
  PROVE  Inv'
  <1> USE DEF Inv, Start, At, Exists
  <1>1. TypeOK'
    BY DEF TypeOK
  <1>2. (TokensHeld /\ PageHoldsToken)'
    BY DEF TypeOK, TokensHeld, PageHoldsToken
  <1>3. (ConfirmedVerified /\ AwaitedVerifies /\ SuccessMeansVerified)'
    BY DEF TypeOK, ConfirmedVerified, AwaitedVerifies, SuccessMeansVerified
  <1>4. (NoneBeforeCreate /\ ResendLeavesOneLink)'
    BY DEF TypeOK, NoneBeforeCreate, ResendLeavesOneLink
  <1>5. (MailedOnRecord /\ AnswerLeavesALink)'
    BY DEF TypeOK, MailedOnRecord, AnswerLeavesALink
  <1> QED
    BY <1>1, <1>2, <1>3, <1>4, <1>5

\* findByEmail only reads.
LEMMA FindStep ==
  ASSUME Inv, NEW r \in Requests, FindByEmail(r)
  PROVE  Inv'
  <1> USE DEF Inv, Untouched, At, Exists, FindByEmail, NeedsLink, Continue, Answer
  <1>1. TypeOK'
    BY DEF TypeOK, Request
  <1>2. (TokensHeld /\ PageHoldsToken)'
    BY DEF TypeOK, Request, TokensHeld, PageHoldsToken
  <1>3. (ConfirmedVerified /\ AwaitedVerifies /\ SuccessMeansVerified)'
    BY DEF TypeOK, Request, Account, ConfirmedVerified, AwaitedVerifies,
           SuccessMeansVerified
  <1>4. (NoneBeforeCreate /\ ResendLeavesOneLink)'
    BY DEF TypeOK, Request, NoneBeforeCreate, ResendLeavesOneLink
  <1>5. (MailedOnRecord /\ AnswerLeavesALink)'
    BY DEF TypeOK, Request, Account, TokensHeld, MailedOnRecord, AnswerLeavesALink
  <1> QED
    BY <1>1, <1>2, <1>3, <1>4, <1>5

\* The account is created once; a second insert changes nothing.
LEMMA InsertStep ==
  ASSUME Inv, NEW r \in Requests, Insert(r)
  PROVE  Inv'
  <1> USE DEF Inv, Untouched, At, Exists, Insert, InsertUser, Answer, Disturb
  <1>1. TypeOK'
    <2>1. [requests[r] EXCEPT !.pc = "revoke"] \in Request
      BY DEF TypeOK, Request
    <2>2. account' \in Account
      BY DEF TypeOK, Account, Request
    <2>3. requests' \in [Requests -> Request]
      <3>1. CASE Exists
        BY <3>1 DEF TypeOK, Request
      <3>2. CASE ~Exists
        BY <2>1, <3>2, DisturbType
      <3> QED
        BY <3>1, <3>2
    <2> QED
      BY <2>2, <2>3 DEF TypeOK
  <1>2. (TokensHeld /\ PageHoldsToken)'
    BY DEF TypeOK, Request, TokensHeld, PageHoldsToken
  <1>3. (ConfirmedVerified /\ AwaitedVerifies /\ SuccessMeansVerified)'
    BY DEF TypeOK, Request, Account, ConfirmedVerified, AwaitedVerifies,
           SuccessMeansVerified
  <1>4. (NoneBeforeCreate /\ ResendLeavesOneLink)'
    BY DEF TypeOK, Request, NoneBeforeCreate, ResendLeavesOneLink
  <1>5. (MailedOnRecord /\ AnswerLeavesALink)'
    BY DEF TypeOK, Request, Account, TokensHeld, MailedOnRecord, AnswerLeavesALink
  <1> QED
    BY <1>1, <1>2, <1>3, <1>4, <1>5

\* No link is live once all are revoked.
LEMMA RevokeStep ==
  ASSUME Inv, NEW r \in Requests, Revoke(r)
  PROVE  Inv'
  <1> USE DEF Inv, Untouched, At, Exists, Revoke, RevokePending, Disturb
  <1>1. TypeOK'
    <2>1. [requests[r] EXCEPT !.pc = "create"] \in Request
      BY DEF TypeOK, Request
    <2>2. tokens' \in [Tokens -> TokenState]
      BY DEF TypeOK, Account, TokenState, Request
    <2> QED
      BY <2>1, <2>2, DisturbType DEF TypeOK
  <1>2. (TokensHeld /\ PageHoldsToken)'
    BY DEF TypeOK, Request, TokensHeld, PageHoldsToken
  <1>3. (ConfirmedVerified /\ AwaitedVerifies /\ SuccessMeansVerified)'
    BY DEF TypeOK, Request, Account, ConfirmedVerified, AwaitedVerifies,
           SuccessMeansVerified
  <1>4. (NoneBeforeCreate /\ ResendLeavesOneLink)'
    BY DEF TypeOK, Request, NoneBeforeCreate, ResendLeavesOneLink
  <1>5. (MailedOnRecord /\ AnswerLeavesALink)'
    BY DEF TypeOK, Request, Account, TokensHeld, MailedOnRecord, AnswerLeavesALink
  <1> QED
    BY <1>1, <1>2, <1>3, <1>4, <1>5

\* The link created is live, and the only one if nothing came in between.
LEMMA CreateStep ==
  ASSUME Inv, NEW r \in Requests, Create(r)
  PROVE  Inv'
  <1> USE DEF Inv, Untouched, At, Exists, Create, CreateToken, FreeTokens, Disturb
  <1>1. TypeOK'
    <2>1. PICK k \in Tokens : /\ CreateToken(k)
                              /\ Disturb(r, [requests[r] EXCEPT !.pc = "mail", !.token = k])
      OBVIOUS
    <2>2. [requests[r] EXCEPT !.pc = "mail", !.token = k] \in Request
      BY ChangedType
    <2>3. tokens' \in [Tokens -> TokenState]
      BY <2>1 DEF TypeOK, TokenState
    <2>4. requests' \in [Requests -> Request]
      BY <2>1, <2>2, DisturbType
    <2> QED
      BY <2>3, <2>4 DEF TypeOK
  <1>2. (TokensHeld /\ PageHoldsToken)'
    BY DEF TypeOK, Request, TokensHeld, PageHoldsToken
  <1>3. (ConfirmedVerified /\ AwaitedVerifies /\ SuccessMeansVerified)'
    BY DEF TypeOK, Request, Account, ConfirmedVerified, AwaitedVerifies,
           SuccessMeansVerified
  <1>4. (NoneBeforeCreate /\ ResendLeavesOneLink)'
    BY DEF TypeOK, Request, NoneBeforeCreate, ResendLeavesOneLink
  <1>5. (MailedOnRecord /\ AnswerLeavesALink)'
    BY DEF TypeOK, Request, Account, TokensHeld, MailedOnRecord, AnswerLeavesALink
  <1> QED
    BY <1>1, <1>2, <1>3, <1>4, <1>5

\* Mail does not touch the links.
LEMMA MailStep ==
  ASSUME Inv, NEW r \in Requests, MailDelivered(r) \/ MailLost(r)
  PROVE  Inv'
  <1> USE DEF Inv, Untouched, At, Exists, MailDelivered, MailLost, Sent
  <1>1. TypeOK'
    <2>1. requests' \in [Requests -> Request]
      BY DEF TypeOK, Request
    <2>2. inbox' \in SUBSET Tokens
      BY DEF TypeOK, Request, TokensHeld
    <2> QED
      BY <2>1, <2>2 DEF TypeOK
  <1>2. (TokensHeld /\ PageHoldsToken)'
    BY DEF TypeOK, Request, TokensHeld, PageHoldsToken
  <1>3. (ConfirmedVerified /\ AwaitedVerifies /\ SuccessMeansVerified)'
    <2>1. requests[r] \in Request /\ \A x \in Requests \ {r} : requests'[x] = requests[x]
      BY DEF TypeOK
    <2>2. requests'[r].pc = "answered" /\ requests[r].pc = "mail"
      BY <2>1 DEF TypeOK, Request
    <2>3. UNCHANGED <<account, page>> /\ page.request # r
      BY <2>2 DEF AwaitedVerifies
    <2> QED
      BY <2>1, <2>2, <2>3 DEF ConfirmedVerified, AwaitedVerifies, SuccessMeansVerified
  <1>4. (NoneBeforeCreate /\ ResendLeavesOneLink)'
    BY DEF TypeOK, Request, NoneBeforeCreate, ResendLeavesOneLink
  <1>5. (MailedOnRecord /\ AnswerLeavesALink)'
    BY DEF TypeOK, Request, Account, TokensHeld, MailedOnRecord, AnswerLeavesALink
  <1> QED
    BY <1>1, <1>2, <1>3, <1>4, <1>5

\* Reading a link changes nothing.
LEMMA ReadStep ==
  ASSUME Inv, NEW r \in Requests, ReadToken(r)
  PROVE  Inv'
  <1> USE DEF Inv, Untouched, At, Exists, ReadToken, Acceptable, Continue, Answer
  <1>1. TypeOK'
    BY DEF TypeOK, Request
  <1>2. (TokensHeld /\ PageHoldsToken)'
    BY DEF TypeOK, Request, TokensHeld, PageHoldsToken
  <1>3. (ConfirmedVerified /\ AwaitedVerifies /\ SuccessMeansVerified)'
    BY DEF TypeOK, Request, Account, ConfirmedVerified, AwaitedVerifies,
           SuccessMeansVerified
  <1>4. (NoneBeforeCreate /\ ResendLeavesOneLink)'
    BY DEF TypeOK, Request, NoneBeforeCreate, ResendLeavesOneLink
  <1>5. (MailedOnRecord /\ AnswerLeavesALink)'
    BY DEF TypeOK, Request, Account, TokensHeld, MailedOnRecord, AnswerLeavesALink
  <1> QED
    BY <1>1, <1>2, <1>3, <1>4, <1>5

\* A link used again only counts for a verified address.
LEMMA ConfirmStep ==
  ASSUME Inv, NEW r \in Requests, Confirm(r)
  PROVE  Inv'
  <1>1. TypeOK'
    <2> DEFINE q == [requests[r] EXCEPT !.pc = "answered", !.answer = "ok"]
    <2>0. TypeOK /\ requests[r] \in Request
      BY DEF Inv, TypeOK
    <2>1. q \in Request
      BY <2>0 DEF Request
    <2>2. Disturb(r, q)
      BY DEF Confirm
    <2> HIDE DEF q
    <2>3. requests' \in [Requests -> Request]
      BY <2>0, <2>1, <2>2, DisturbType
    <2>4. tokens' \in [Tokens -> TokenState]
      BY <2>0 DEF Confirm, MarkUsed, TypeOK, TokenState
    <2> QED
      BY <2>0, <2>3, <2>4 DEF Confirm, Untouched, TypeOK
  <1> USE DEF Inv, Untouched, At, Exists, Confirm, MarkUsed, Disturb
  <1>2. (TokensHeld /\ PageHoldsToken)'
    BY DEF TypeOK, Request, TokensHeld, PageHoldsToken
  <1>3. (ConfirmedVerified /\ AwaitedVerifies /\ SuccessMeansVerified)'
    BY DEF TypeOK, Request, Account, ConfirmedVerified, AwaitedVerifies,
           SuccessMeansVerified
  <1>4. (NoneBeforeCreate /\ ResendLeavesOneLink)'
    BY DEF TypeOK, Request, NoneBeforeCreate, ResendLeavesOneLink
  <1>5. (MailedOnRecord /\ AnswerLeavesALink)'
    BY DEF TypeOK, Request, Account, ConfirmedVerified,
           TokensHeld, MailedOnRecord, AnswerLeavesALink
  <1> QED
    BY <1>1, <1>2, <1>3, <1>4, <1>5

\* A link is used up first ...
LEMMA UseStep ==
  ASSUME Inv, NEW r \in Requests, Use(r)
  PROVE  Inv'
  <1>1. TypeOK'
    <2> DEFINE q == [requests[r] EXCEPT !.pc = "verify"]
    <2>0. TypeOK /\ requests[r] \in Request
      BY DEF Inv, TypeOK
    <2>1. q \in Request
      BY <2>0 DEF Request
    <2>2. Disturb(r, q)
      BY DEF Use
    <2> HIDE DEF q
    <2>3. requests' \in [Requests -> Request]
      BY <2>0, <2>1, <2>2, DisturbType
    <2>4. tokens' \in [Tokens -> TokenState]
      BY <2>0 DEF Use, MarkUsed, TypeOK, TokenState
    <2> QED
      BY <2>0, <2>3, <2>4 DEF Use, Untouched, TypeOK
  <1> USE DEF Inv, Untouched, At, Exists, Use, MarkUsed, Disturb
  <1>2. (TokensHeld /\ PageHoldsToken)'
    BY DEF TypeOK, Request, TokensHeld, PageHoldsToken
  <1>3. (ConfirmedVerified /\ AwaitedVerifies /\ SuccessMeansVerified)'
    BY DEF TypeOK, Request, Account, ConfirmedVerified, AwaitedVerifies,
           SuccessMeansVerified
  <1>4. (NoneBeforeCreate /\ ResendLeavesOneLink)'
    BY DEF TypeOK, Request, NoneBeforeCreate, ResendLeavesOneLink
  <1>5. (MailedOnRecord /\ AnswerLeavesALink)'
    BY DEF TypeOK, Request, Account, TokensHeld, MailedOnRecord, AnswerLeavesALink
  <1> QED
    BY <1>1, <1>2, <1>3, <1>4, <1>5

\* ... and then the address is verified.
LEMMA VerifyStep ==
  ASSUME Inv, NEW r \in Requests, Verify(r)
  PROVE  Inv'
  <1> USE DEF Inv, Untouched, At, Exists, Verify, MarkEmailVerified, Answer
  <1>1. TypeOK'
    <2>1. requests' \in [Requests -> Request]
      BY ChangedType
    <2>2. account' \in Account
      BY DEF TypeOK, Account
    <2> QED
      BY <2>1, <2>2 DEF TypeOK
  <1>2. (TokensHeld /\ PageHoldsToken)'
    BY DEF TypeOK, Request, TokensHeld, PageHoldsToken
  <1>3. (ConfirmedVerified /\ AwaitedVerifies /\ SuccessMeansVerified)'
    BY DEF TypeOK, Request, Account, ConfirmedVerified, AwaitedVerifies,
           SuccessMeansVerified
  <1>4. (NoneBeforeCreate /\ ResendLeavesOneLink)'
    BY DEF TypeOK, Request, NoneBeforeCreate, ResendLeavesOneLink
  <1>5. (MailedOnRecord /\ AnswerLeavesALink)'
    BY DEF TypeOK, Request, Account, TokensHeld, MailedOnRecord, AnswerLeavesALink
  <1> QED
    BY <1>1, <1>2, <1>3, <1>4, <1>5

\* A statement given up is still to land.
LEMMA TimesOutStep ==
  ASSUME Inv, NEW r \in Requests, TimesOut(r)
  PROVE  Inv'
  <1> USE DEF Inv, Untouched, At, Exists, TimesOut, FreeTokens, Answer
  <1>1. TypeOK'
    <2>1. PICK k \in IF At(r, "create") THEN FreeTokens ELSE {NoToken} :
            late' = late \cup {StatementOf(r, k)}
      OBVIOUS
    <2>2. StatementOf(r, k) \in Statement
      BY <2>1, StatementOfType
    <2>3. late' \in SUBSET Statement
      BY <2>1, <2>2 DEF TypeOK
    <2>4. requests' \in [Requests -> Request]
      BY ChangedType
    <2>5. disturbances' \in 0 .. MaxDisturbances
      BY DEF TypeOK
    <2> QED
      BY <2>3, <2>4, <2>5 DEF TypeOK
  <1>2. (TokensHeld /\ PageHoldsToken)'
    BY DEF TypeOK, Request, TokensHeld, PageHoldsToken
  <1>3. (ConfirmedVerified /\ AwaitedVerifies /\ SuccessMeansVerified)'
    BY DEF TypeOK, Request, Account, ConfirmedVerified, AwaitedVerifies,
           SuccessMeansVerified
  <1>4. (NoneBeforeCreate /\ ResendLeavesOneLink)'
    BY DEF TypeOK, Request, NoneBeforeCreate, ResendLeavesOneLink
  <1>5. (MailedOnRecord /\ AnswerLeavesALink)'
    BY DEF TypeOK, Request, Account, TokensHeld, MailedOnRecord, AnswerLeavesALink
  <1> QED
    BY <1>1, <1>2, <1>3, <1>4, <1>5

\* A statement that lands late disturbs every request under way.
LEMMA LandsStep ==
  ASSUME Inv, NEW s \in Statement, Lands(s)
  PROVE  Inv'
  <1> USE DEF Inv, Untouched, At, Exists, Lands
  <1>0. /\ account' \in Account /\ tokens' \in [Tokens -> TokenState]
        /\ account.emailVerified => account'.emailVerified
    BY ExecuteKeeps
  <1>1. TypeOK'
    <2>1. \A r \in Requests : requests[r] \in Request
      BY DEF TypeOK
    <2>2. \A r \in Requests : [requests[r] EXCEPT !.alone = FALSE] \in Request
      BY <2>1 DEF Request
    <2>3. requests' \in [Requests -> Request]
      BY <2>2
    <2> QED
      BY <1>0, <2>3 DEF TypeOK
  <1>2. (TokensHeld /\ PageHoldsToken)'
    BY <1>0 DEF TypeOK, Request, TokensHeld, PageHoldsToken
  <1>3. (ConfirmedVerified /\ AwaitedVerifies /\ SuccessMeansVerified)'
    BY <1>0 DEF TypeOK, Request, ConfirmedVerified, AwaitedVerifies,
           SuccessMeansVerified
  <1>4. (NoneBeforeCreate /\ ResendLeavesOneLink)'
    BY <1>0 DEF TypeOK, Request, NoneBeforeCreate, ResendLeavesOneLink
  <1>5. (MailedOnRecord /\ AnswerLeavesALink)'
    BY <1>0 DEF TypeOK, Request, TokensHeld, MailedOnRecord, AnswerLeavesALink
  <1> QED
    BY <1>1, <1>2, <1>3, <1>4, <1>5

\* A link that expires stays on record.
LEMMA ExpiresStep ==
  ASSUME Inv, NEW k \in Tokens, Expires(k)
  PROVE  Inv'
  <1> USE DEF Inv, Untouched, At, Exists, Expires
  <1>1. TypeOK'
    BY DEF TypeOK, TokenState
  <1>2. (TokensHeld /\ PageHoldsToken)'
    BY DEF TypeOK, Request, TokensHeld, PageHoldsToken
  <1>3. (ConfirmedVerified /\ AwaitedVerifies /\ SuccessMeansVerified)'
    BY DEF TypeOK, Request, Account, ConfirmedVerified, AwaitedVerifies,
           SuccessMeansVerified
  <1>4. (NoneBeforeCreate /\ ResendLeavesOneLink)'
    BY DEF TypeOK, Request, NoneBeforeCreate, ResendLeavesOneLink
  <1>5. (MailedOnRecord /\ AnswerLeavesALink)'
    BY DEF TypeOK, Request, Account, TokensHeld, MailedOnRecord, AnswerLeavesALink
  <1> QED
    BY <1>1, <1>2, <1>3, <1>4, <1>5

\* Only a used link is taken again.
LEMMA ReclaimStep ==
  ASSUME Inv, NEW k \in Tokens, Reclaim(k)
  PROVE  Inv'
  <1> USE DEF Inv, Untouched, At, Exists, Reclaim
  <1>1. TypeOK'
    BY DEF TypeOK, TokenState
  <1>2. (TokensHeld /\ PageHoldsToken)'
    BY DEF TypeOK, Request, TokensHeld, PageHoldsToken
  <1>3. (ConfirmedVerified /\ AwaitedVerifies /\ SuccessMeansVerified)'
    BY DEF TypeOK, Request, Account, ConfirmedVerified, AwaitedVerifies,
           SuccessMeansVerified
  <1>4. (NoneBeforeCreate /\ ResendLeavesOneLink)'
    BY DEF TypeOK, Request, NoneBeforeCreate, ResendLeavesOneLink
  <1>5. (MailedOnRecord /\ AnswerLeavesALink)'
    BY DEF TypeOK, Request, Account, TokensHeld, MailedOnRecord, AnswerLeavesALink
  <1> QED
    BY <1>1, <1>2, <1>3, <1>4, <1>5

\* Somebody registers the address or asks for a link.
LEMMA AskStep ==
  ASSUME Inv, NEW r \in Requests, NEW register \in BOOLEAN,
         SubmitForm(r) \/ Resend(r) \/ OtherAsks(r, register)
  PROVE  Inv'
  <1>1. CASE SubmitForm(r)
    <2> DEFINE q == [Idle EXCEPT !.pc = "find", !.register = TRUE, !.alone = TRUE]
    <2>1. q \in Request /\ q.pc = "find"
      BY DEF Idle, Request, People
    <2>2. Start(r, q)
      BY <1>1 DEF SubmitForm
    <2> QED
      BY <1>1, <2>1, <2>2, StartStep DEF SubmitForm, Inv, TypeOK
  <1>2. CASE Resend(r)
    <2> DEFINE q == [Idle EXCEPT !.pc = "find", !.alone = TRUE]
    <2>1. q \in Request /\ q.pc = "find"
      BY DEF Idle, Request, People
    <2>2. Start(r, q)
      BY <1>2 DEF Resend
    <2> QED
      BY <1>2, <2>1, <2>2, StartStep DEF Resend, Untouched, Inv, TypeOK
  <1>3. CASE OtherAsks(r, register)
    <2> DEFINE q == [Idle EXCEPT !.pc = "find", !.who = "other", !.register = register,
                                 !.alone = TRUE]
    <2>1. q \in Request /\ q.pc = "find"
      BY DEF Idle, Request, People
    <2>2. Start(r, q)
      BY <1>3 DEF OtherAsks
    <2>3. disturbances' \in 0 .. MaxDisturbances
      BY <1>3 DEF OtherAsks, Inv, TypeOK
    <2>4. form' \in {"editing", "submitting", "registered"}
      BY <1>3 DEF OtherAsks, Inv, TypeOK
    <2> QED
      BY <1>3, <2>1, <2>2, <2>3, <2>4, StartStep DEF OtherAsks
  <1> QED
    BY <1>1, <1>2, <1>3

\* The page awaits the request it sends.
LEMMA SendTokenStep ==
  ASSUME Inv, NEW r \in Requests, NEW k \in Tokens, SendToken(r, k)
  PROVE  Inv'
  <1> USE DEF Inv, Untouched, At, Exists, SendToken, Start, Idle
  <1>1. TypeOK'
    BY DEF TypeOK, Request, Page, People
  <1>2. (TokensHeld /\ PageHoldsToken)'
    BY DEF TypeOK, Request, TokensHeld, PageHoldsToken
  <1>3. (ConfirmedVerified /\ AwaitedVerifies /\ SuccessMeansVerified)'
    BY DEF TypeOK, Request, Account, ConfirmedVerified, AwaitedVerifies,
           SuccessMeansVerified
  <1>4. (NoneBeforeCreate /\ ResendLeavesOneLink)'
    BY DEF TypeOK, Request, NoneBeforeCreate, ResendLeavesOneLink
  <1>5. (MailedOnRecord /\ AnswerLeavesALink)'
    BY DEF TypeOK, Request, Account, TokensHeld, MailedOnRecord, AnswerLeavesALink
  <1> QED
    BY <1>1, <1>2, <1>3, <1>4, <1>5

\* The page shows what the request it awaits has found.
LEMMA DeliverStep ==
  ASSUME Inv, NEW r \in Requests, Deliver(r)
  PROVE  Inv'
  <1> USE DEF Inv, Untouched, At, Exists, Deliver, FormAnswered, Awaited, Idle
  <1>1. TypeOK'
    BY DEF TypeOK, Request, Page, People
  <1>2. (TokensHeld /\ PageHoldsToken)'
    BY DEF TypeOK, Request, TokensHeld, PageHoldsToken
  <1>3. (ConfirmedVerified /\ AwaitedVerifies /\ SuccessMeansVerified)'
    BY DEF TypeOK, Request, Account, ConfirmedVerified, AwaitedVerifies,
           SuccessMeansVerified
  <1>4. (NoneBeforeCreate /\ ResendLeavesOneLink)'
    BY DEF TypeOK, Request, NoneBeforeCreate, ResendLeavesOneLink
  <1>5. (MailedOnRecord /\ AnswerLeavesALink)'
    BY DEF TypeOK, Request, Account, TokensHeld, MailedOnRecord, AnswerLeavesALink
  <1> QED
    BY <1>1, <1>2, <1>3, <1>4, <1>5

-----------------------------------------------------------------------------
\* Every step keeps the invariant.
LEMMA NextInv ==
  ASSUME Inv, [Next]_vars
  PROVE  Inv'
  <1>1. CASE Next
    <2>1. ASSUME NEW r \in Requests, ServerStep(r) \/ Deliver(r)
          PROVE  Inv'
      BY <2>1, FindStep, InsertStep, RevokeStep, CreateStep, ReadStep, ConfirmStep,
         UseStep, VerifyStep, DeliverStep DEF ServerStep
    <2>2. ASSUME NEW r \in Requests, MailDelivered(r) \/ MailLost(r) \/ TimesOut(r)
          PROVE  Inv'
      BY <2>2, MailStep, TimesOutStep
    <2>3. ASSUME NEW s \in Statement, Lands(s)
          PROVE  Inv'
      BY <2>3, LandsStep
    <2>4. ASSUME NEW k \in Tokens, Expires(k) \/ Reclaim(k)
          PROVE  Inv'
      BY <2>4, ExpiresStep, ReclaimStep
    <2>5. ASSUME NEW r \in Requests, SubmitForm(r) \/ Resend(r)
          PROVE  Inv'
      <3>1. TRUE \in BOOLEAN
        OBVIOUS
      <3> QED
        BY <2>5, <3>1, AskStep
    <2>6. ASSUME NEW r \in Requests, RunEffectAgain(r)
          PROVE  Inv'
      <3>1. page.token \in Tokens
        BY <2>6 DEF RunEffectAgain, Inv, PageHoldsToken, TypeOK, Page
      <3> QED
        BY <2>6, <3>1, SendTokenStep DEF RunEffectAgain
    <2>7. ASSUME NEW r \in Requests, NEW register \in BOOLEAN, OtherAsks(r, register)
          PROVE  Inv'
      BY <2>7, AskStep
    <2>8. ASSUME NEW r \in Requests, NEW k \in Tokens, OpenLink(r, k)
          PROVE  Inv'
      BY <2>8, SendTokenStep DEF OpenLink
    <2> QED
      BY <1>1, <2>1, <2>2, <2>3, <2>4, <2>5, <2>6, <2>7, <2>8 DEF Next
  <1>2. CASE UNCHANGED vars
    BY <1>2 DEF vars, Inv, TypeOK, TokensHeld, PageHoldsToken, ConfirmedVerified,
       AwaitedVerifies, SuccessMeansVerified, NoneBeforeCreate, ResendLeavesOneLink,
       MailedOnRecord, AnswerLeavesALink, At, Exists
  <1> QED
    BY <1>1, <1>2

\* The invariant holds in every state.
THEOREM VerificationInvariant == Spec => []Inv
  <1>1. Inv /\ [Next]_vars => Inv'
    BY NextInv
  <1> QED
    BY InitInv, <1>1, PTL DEF Spec

\* Types hold, for any number of links, requests and disturbances.
THEOREM VerificationTypes == Spec => []TypeOK
  BY VerificationInvariant, PTL DEF Inv

\* verify-email/page.tsx never claims success for an address that is not
\* verified.
THEOREM SuccessMeansVerifiedHolds == Spec => []SuccessMeansVerified
  BY VerificationInvariant, PTL DEF Inv

\* issueVerificationToken leaves one live link when it is not disturbed.
THEOREM ResendLeavesOneLinkHolds == Spec => []ResendLeavesOneLink
  BY VerificationInvariant, PTL DEF Inv

\* Whoever asks for a link and is not disturbed has one on record.
THEOREM AnswerLeavesALinkHolds == Spec => []AnswerLeavesALink
  BY VerificationInvariant, PTL DEF Inv
=============================================================================
