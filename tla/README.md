# Verification of SecureAuthX Pro

TLA+ models of the authentication platform, the TLC runs that check them on small
instances and the theorems TLAPS proves about them for every instance. Paths are relative
to the root of the repository.

The API is a set of stateless HTTP handlers over PostgreSQL and a cache. No handler opens
a database transaction: each awaited repository call is one SQL statement, and what a
handler decides after reading a row it decides on a copy. Almost everything that can go
wrong comes from there, so the unit of atomicity of every model is **the code from one
statement up to and including the effect of the next one**, and a request in flight keeps
the copies it read in a record.

## The system

| Component | State | Operations | Interacts with |
|---|---|---|---|
| Session store and token rotation (`auth.service.ts`, `session.repository.ts`, `jwt.ts`) | `sessions` rows; signed tokens held by clients | `issueTokens`, `refresh`, `logout`, `revokeAllForUser`, `markExpired` | sign-in creates rows, authenticate reads them, administration revokes them |
| Authentication middleware (`authenticate.ts`, `bound-auth.ts`, `require-admin.ts`) | none; two parallel reads per request | admit or refuse a request | reads sessions and users |
| Account lifecycle and lockout (`auth.service.ts`, `user.repository.ts`) | `users`: status, verification, failure counter, lock date | `register`, `login`, `verifyEmail`, `finishMfaLogin` | administration writes the same columns |
| Administration (`admin.service.ts`, `app/admin/page.tsx`) | none on the server; cached lists, dialog and pending change in the page | `setUserRole`, `setUserStatus`, listings, analytics | users, sessions |
| E-mail verification (`email-verification.repository.ts`, `register-form.tsx`, `verify-email/page.tsx`) | one-time hashed links; the form and the page | register, issue, resend, consume | account lifecycle, mail, timeout guard |
| Multi-factor authentication (`mfa.service.ts`, `mfa.repository.ts`, `login-form.tsx`, `security/page.tsx`) | TOTP secret, recovery codes, keys, trusted devices, three flags of the user; challenges and ceremonies in the cache; the screens | enrol, verify, regenerate, remove, disable, trust | login hands over to it, it hands back to `finishMfaLogin` |
| Web client (`lib/api/client.ts`, `auth-provider.tsx`, `require-auth.tsx`) | cookie jar, session query, calls in flight | call, refresh once on 401, retry, sign in, sign out | session store |
| Rate limiter (`rate-limit.ts`) | a window and a count per client address | consume, sweep | in front of the routes |
| Cache (`config/cache.ts`) | entries with a lifetime | get, set, delete | MFA challenges |
| Database timeout guard (`with-timeout.ts`) | one timer per call | race a statement with the timer | every repository |
| Pure helpers (`pagination.ts`, `totp.ts`, `password.ts`, `http.ts`) | none | functions | handlers |
| Audit, mail, security page's lists, analytics, plumbing | append-only or none | output | everything writes to them, no decision reads them |

What makes each correct:

* **Sessions**: a closed session is never used again; deactivating an account closes its
  sessions; rotation does not extend a session; a superseded refresh token is not honoured;
  reuse closes the session.
* **Accounts**: no session without a verified address; failures are counted and lock for
  the configured window, no less and no more; what an administrator imposes holds until an
  administrator lifts it.
* **Administration**: an administrator always remains; status changes follow the allowed
  transitions.
* **Verification**: the owner always gets a working link; the page shows success only of a
  verified address.
* **MFA at sign-in**: a session needs a factor of the user whose password was given; a
  recovery code serves once, and so does a challenge unless a verification of it is left
  behind when a connection breaks. **MFA settings**: an operation that succeeds undisturbed
  keeps its promise whatever an earlier one left half done, and leaves no user who is asked
  for a factor he has not.
* **Web client**: an honest browser is not taken for a thief; a sign-out is final.
* **Administration page**: an acknowledged change is shown; the server refuses only what
  was out of date.
* **Rate limiter**: no more than twice the limit within a window's length, no refusal past
  the announced reset.

The behaviours a test hardly reaches are listed with their lines under `hazards` in
`PROJECT.json`.

## Modules

| Module | Models | |
|---|---|---|
| `SessionLifecycle` | what the session store promises: opened once, one owner, one deadline; an exchange is begun with the current token only and always moves it forward; closed for good | abstract specification, of `Sessions` and of the API in `WebClient` |
| `Sessions` | token issuance, refresh, logout, authenticate and the revocation of a status change | one action per statement |
| `Accounts` | login with its lockout, the hand-over to a second factor, e-mail verification, status changes | one action per statement |
| `UserTable` | roles, statuses and the transitions allowed between them, for `Admins` and `AdminPage` | definitions |
| `Admins` | the administrator gate, role and status changes, on others and on oneself | one action per statement |
| `Verification` | register, resend, verifyEmail, the links, mail, the timeout guard, the form and the page | one action per statement, landing or click |
| `MfaLogin` | the second factor of a sign-in on the server: trusted devices, challenges, codes, ceremonies | one action per cache or database call |
| `LoginForm` | the sign-in page over `MfaLogin`, which it extends: screens, controls, cookies, answers | one action per click or answer |
| `MfaSettings` | enrolment, recovery codes, removal and disable, and the security page | one action per statement |
| `WebClient` | `apiFetch`, session query, sign-in, sign-out, route guard, and the answers of the API | one action per attempt, answer or click |
| `AdminPage` | the dashboard over cached lists, the dialog, the changes it sends, and how they are served | one action per fetch, answer or click |
| `RateLimiter` | the in-memory store and the admission | one action per request |
| `AdministrationProofs` | theorems about `Admins` and `AdminPage` | |
| `SessionsProofs`, `AccountsProofs`, `RateLimiterProofs`, `VerificationProofs`, `WebClientProofs`, `MfaSettingsProofs`, `LoginFormProofs` | theorems about the module they are named after | |
| `MCSessions`, `MCAccounts`, ... | the modules above with the symmetry sets and orders the `.cfg` files use | |

### Sessions

`sessions[s]` is a row of the table (status `NONE` before the insert). A refresh token is
the pair of its session and a serial number that stands for its random nonce, so
`refreshTokenHash` is that number and `issued[s][n]` is the `exp` claim of the nth token.
Of the access tokens of a session only the latest `exp` is kept, since an older one is
accepted only when the latest is. Time is in ticks with `TicksPerSecond` to a second: rows
hold exact dates, claims are floored to seconds and the remaining lifetime is rounded up,
and the difference is what `RefreshTokenLifetime` is about.

`refresh` is `RefreshRead` (verify the token, read the row with its user), then exactly one
of `RefreshReuse`/`RefreshAlert` (two statements), `RefreshExpired`, `RefreshDisabled`,
`RefreshRotate`. `RefreshCrash` and `AdminCrash` end a request between two statements.
`authenticate` is `AuthArrive`, then `AuthFindUser` and `AuthIsSessionActive` in either
order; `Admitted` is the state in which the handler runs. `setUserStatus` is `AdminRead`,
`AdminUpdate`, `AdminRevokeAll`. A sign-in may create a session at any time, and may write
the status column at any time: which of them really happen is the subject of `Accounts`,
and nothing proved here depends on it.

History kept in the request records: whether the session was unusable when a request
arrived (`deadAtArrival`) and which sessions a user had when a status change arrived
(`before`).

`SessionLifecycle` has the exchange of a refresh token as two steps, as the code has:
`Begin` (the row was read, and the token presented is the current one) and `Complete`. Two
exchanges that begin with the same token both complete, the second with a token that has been
superseded by then; that is what `auth.service.ts:439` does, and the abstract specification
says so instead of leaving it out. What it excludes is an exchange begun with a superseded
token, a current token that moves backward, a session that changes owner or deadline, and one
that comes back. The mapping `exchangeBar` names the refreshes under way that have read the
current token.

### Accounts

`LoginRead` copies the row; `LoginRefused`, `LoginUnlock`, `LoginFail`, `LoginSucceed`
decide on the copy and write the columns the repository writes, by id, over whatever the
row is by then. `LoginSucceed` goes on to the session or to a challenge, which
`LoginFinishMfa` completes or `LoginChallengeLapses` drops. Whether a password is right is a
Boolean chosen when the request arrives. A lock date is a tick, 0 for `NULL`, and
`FarFuture` for the year 2999. History variables: `hold` (what an administrator last
imposed), `misses` (wrong passwords since the counter last restarted), `lockedAt`, and
`raced`: the accounts some sign-in or verification has written although the row was no longer
as it had read it or made it (`Outdated`). Sign-ins, verifications and status changes overlap
in any number; `raced` says exactly when the overlap did harm, and `FailuresCounted` and
`LockWindowHonoured` except those accounts and no others.

### Admins

Only role and status of a user, and whether he has a session. A request is admitted by
`authenticate` and `requireAdmin`, checked against the target it reads, and written. The
slots for role changes and for status changes are separate constants because the result
depends on how many role changes overlap and not on how many status changes do. `overtaken`
is a history flag of a role change: its administrator has been demoted since he was admitted.

### Verification

One address: addresses share nothing. `account` is the row of the user (whether it exists, `emailVerified`),
`tokens` the rows of the links and `inbox` the links whose mail has arrived. `FindByEmail`,
`Insert`, `Revoke`, `Create` and `MailDelivered`/`MailLost` are the statements of `register`
and of a resend, which share `issueVerificationToken`; `ReadToken`, `Confirm`, `Use`, `Verify`
are those of `verifyEmail`. `TimesOut` is the watchdog of `with-timeout.ts`: the request
fails, and its statement, kept in `late`, may still reach the database (`Lands`) at any later
time, or never. The registration form and the page of the link send the requests and take
their answers (`Deliver`); the page may run its effect twice. `alone` is a history flag of a
request: nothing else has written since it began.

### MfaLogin and LoginForm

`MfaLogin` has one action per cache or database call of `MfaService`'s sign-in half:
`LoginRead` (the password was right), `TouchDevice`, `IssueLoginChallenge`, `VerifyRead`,
`CheckTotp`, `ConsumeRecoveryCode` (one conditional update), the ceremony of a key,
`DeleteChallenge`, `TrustDevice`, `IssueTokens`. A request may fail before any of them, and a
challenge may lapse at any time. Who a code or key belongs to is its abstraction (`by`).
`LoginForm` extends it with the browser: a click sends a request with the cookies of that
moment, and an answer changes the screen and the cookies of whatever the tab shows by then.
A request or its answer may be lost (`Lose`): fetch rejects, the `finally` of the form makes
the buttons work again, and the request that is left behind (`left`) is served by the API as
if nothing had happened; its answer goes nowhere (`Discard`). Of an answer, the cookies may
have been stored before its body is lost.
The two are checked together because some properties depend on both: the server lets two
verifications of one challenge complete (it is read at `mfa.service.ts:178` and deleted at
`:208`), and only the form, which has one verification under way, keeps the second from
leaving. `SecondSessionNeedsLoss` says how far that goes: a second session takes a
verification that was left behind (`abandoned`, history).

### MfaSettings

One account. The rows are `totp`, `keys`, `codes` (the batches with an unused code),
`trusted` and the three `flags`; an operation is a chain of statements named by the step
`pc` of its request, and `RequestFails` may end it before any of them. The page's status,
which decides what buttons are shown, may be stale, so every button may be there. Sign-ins
use up the last code of a batch or trust a device meanwhile.

### WebClient

A fetch leaves with the cookies of the moment (`Start`, `SendRefresh`, `SendRetry`) and is
served (`Serve...`). Its answer comes in two steps, in any order with the others: the browser
stores the cookies when the headers come (`Store`), and `apiFetch` goes on when it has read
the body (`Resume`); in between, another answer may be stored or the access cookie may
expire. `emptied` is a history flag of a call: the access cookie that its refresh set was
gone before it went on. An answer may be lost at any of these points (`Lose`), or the request
left behind with the API, which serves it or never sees it (`Vanish`); only a refresh left
behind is kept, as a change would do nothing to the state, a sign-out no more than
`RevokedElsewhere`, and a sign-in opens a session nobody has cookies of. `apiFetch` refreshes
once after a 401 and retries with headers built anew; sign-in, sign-out and GET requests
never refresh. The session query is a TanStack query, external, modelled as the provider
relies on it: invalidation keeps a first fetch under way and replaces a later one; removal
abandons it.
The API is reduced to sessions with the number of their current refresh token; `Sessions`
has it in full, and both implement `SessionLifecycle`: what the client relies on is what the
session store promises.

### AdminPage

`table` keeps every version of the users table, so an answer is the version it was read
from (`ListUsers`, `AnalyticsOverview`, behind `Admitted`: the gate of `authenticate` and
`requireAdmin`, which a change that locks me closes by way of `mySession`). The query cache
(external) has, per list and for the overview, the data, the fetch under way and the stale mark; a list that loads for the first time shows the last one in its
place. A change is decided and written in one step here (`RefuseChange`, `WriteChange`);
`Admins` has it split. Names that `Admins` uses too are prefixed (`DashboardInit`,
`DashboardNext`, `DashboardSpec`, `DashboardTypeOK`), so that one module can speak of both.

### RateLimiter

One store of one isolate, for any number of client addresses. `consume` awaits nothing
between its read and its write, so it is one action, split by the outcome of the window test
(`ConsumeFirst`, `ConsumeNext`). `windows` is history: when each window opened, and its
admissions. The limiters of the API and of the authentication and MFA routes are instances
of it (`middlewares/security.ts`, `routes/v1/auth.routes.ts`, `mfa.routes.ts`), each with
its own store.

## Runs

| Run | Bounds | Shows |
|---|---|---|
| `sessions_closing` | 1 user, 1 session, 1 slot each for refresh, authenticated requests and status changes; 4 ticks (0..3), 2 tokens | `ClosedNeverAdmitted`, `DeactivationClosesSessions`, `ImplementsLifecycle` |
| `sessions_rotation` | 2 concurrent refreshes of 1 session, 4 ticks (0..3), 3 tokens, fair | `RefreshTokenLifetime`, `AlertMeansClosed`, `ReuseClosesSession`, `ImplementsLifecycle` |
| `accounts_concurrent` | 2 sign-ins, 1 verification, 1 status change, 1 user, 2 attempts, window of 1, 3 ticks (0..2) | `SignedInVerified`, `SelfLockIsTransient`, `FailuresCounted`, `LockWindowHonoured` |
| `admins_roles` | 2 users, 2 role changes, 1 status change | `LastAdminFallsToTheOvertaken` |
| `admins_mutual_demotion` | 2 users, 2 role changes | expected to fail: `AdminRemains` |
| `verification` | 2 requests, 2 tokens that are reclaimed once used, 2 disturbances (statements given up, requests of somebody else) | `ResendLeavesOneLink`, `SuccessMeansVerified`, `AnswerLeavesALink` |
| `mfa_login` | 3 users (authenticator, key, neither), 2 tabs of 1 browser, 2 requests, 2 challenges, 2 sessions, 1 ceremony, 1 trusted device, nothing lost | `FactorOfOwner`, `PasswordAloneIsNotEnough`, `RecoveryCodeSpentOnce`, `CompletedChallengesAreDead` |
| `mfa_login_lost` | 1 user with an authenticator and a key, 2 tabs of 1 browser, 2 requests, 2 challenges, 2 sessions, 1 ceremony, no trusted device, 1 request or answer lost | `SecondSessionNeedsLoss` |
| `mfa_settings` | 2 requests, 2 secrets, 2 batches of codes, 1 key | `DisableCleans`, `RegenerateReplaces`, `EnrolmentProtects`, `WayIn`, `RemoveKeepsMfa` |
| `web_client` | 1 tab, 2 calls beside its query, 2 sessions, 3 refresh tokens in all | `ReuseNeedsDisturbance`, `SignOutIsFinal`, `SignedOutTabForgets`, `RetryRefusedOnlyIfClosed` |
| `admin_page` | 2 users on pages of one, 2 filters, 1 write, 2 turns of page or filter | `OwnChangeShown`, `RefusalMeansStale`, `PageExists` |
| `rate_limiter` | 2 addresses, windows of 3 instants, limit 2, sweep above 1 entry, 8 instants, 3 requests counted per window | `AtMostTwice`, `RefusedOnlyWhenFull` |

**Why the bounds are enough.** One user and one session suffice for the session and account
runs because no statement but `revokeAllForUser` touches more than one row, and what two
rows could add, a statement that hits the wrong one, is in the proofs, which hold for all
sets. A session lives 2 ticks (1 s) or 4 ticks (`rememberMe`), and an access token 1 s, so
tokens and short sessions expire within the clocks above. Slots are reused, so a slot serves
any number of requests, one after another, and two slots overlap any two of them. A batch, a secret or a
token that nothing stands for any more is drawn again, so `verification` and `mfa_settings`
have behaviours of any length. One tab is enough for `web_client`: tabs share the jar and
the API only, and two calls of one tab interleave as calls of two tabs would; the session
query, of which a tab has one, is what a second tab would double. One write in
`admin_page` is either mine or another's: a refusal needs the other's, a covered change
mine. The rate limiter's clock spans more than two windows, which `AtMostTwice` needs for
its third one. One loss in `mfa_login_lost` is what a second session takes: the form of the
tab sends one more verification, and the two overlap on the server. `mfa_login` has the three
kinds of users and the trusted device instead, and its properties are proved with losses in
any number. Two users in `admins_roles` are enough for each to demote the other and for
neither to remain.

**Deadlock** is checked where a client can always act (`mfa_settings`, `web_client`,
`admin_page`). The other runs say `CHECK_DEADLOCK FALSE`: their clocks, tokens or pools of
identifiers run out, and a system whose clients send nothing more simply stops.

`admins_roles` and `admins_mutual_demotion` go together: two administrators demote each
other, both having passed the gate and the self-change check, and nobody is left (the
violation); and that is the only way, as the last administrator falls only to a change whose
own administrator was demoted since he was admitted.

Each property of a passing run has a mutant in `PROJECT.json`: an operator, defined next to
the one it replaces and marked `Mutation`, under which the property fails.

### Departures

What the documentation says and the code does not do. The properties are stated in the
modules and no run checks them; to see a trace, name the property in the `.cfg` given here, as
an `INVARIANT`, or as a `PROPERTY` where it is marked with a star.

| Property | Check with | What happens |
|---|---|---|
| `RotatedTokenNeverExchanged`* | `sessions_rotation` | two refreshes that read before either writes both get new tokens (`auth.service.ts:439`; `docs/security-model.md:14`) |
| `DisabledSticks` | `accounts_concurrent` | the verification link of a disabled account makes it ACTIVE (`user.repository.ts:53`; `security-model.md:53`) |
| `AdminLockSticks` | `accounts_concurrent` | a sign-in under way clears an administrator's lock (`auth.service.ts:288`; `security-model.md:26`) |
| `LockedHasNoSession` | `accounts_concurrent` | the lock after failed sign-ins leaves sessions live (`auth.service.ts:274`; `security-model.md:52`) |
| `DisabledBlocksSecondFactor`* | `accounts_concurrent` | a sign-in waiting for its second factor survives the disabling (`auth.service.ts:369`; `security-model.md:53`) |

The others are exceptions that a checked property names; without its exception the property
fails in the run that checks it:

| Property and exception | What happens |
|---|---|
| `FailuresCounted`, `raced` | concurrent failures store the same count, so some are forgotten (`auth.service.ts:264`; `security-model.md:25`) |
| `LockWindowHonoured`, `raced` | a wrong-password request slower than the one that locks writes `lockedUntil` NULL over the lock, which the next sign-in takes for elapsed (`auth.service.ts:232`, `:268`) |
| `SecondSessionNeedsLoss`, `abandoned` | the connection of a verification breaks while the API still works on it (`client.ts:133-141`), the form enables Verify again (`login-form.tsx:126-142`), and the second verification reads the challenge (`mfa.service.ts:178`) before the first deletes it (`:208`): one challenge opens two sessions |
| `RetryRefusedOnlyIfClosed`, `emptied` | the answer to a sign-out of another session is stored while the body of a refresh is read (`client.ts:93`, `:48-62`): the retry leaves without cookies and is refused, though its session is active |
| `ResendLeavesOneLink`, `alone` | two resends at once leave two live links (`auth.service.ts:146`) |
| `EnrolmentProtects`, `alone` | a second enrolment replaces the secret between the check of the code and `enableTotp` (`mfa.service.ts:339`): an authenticator is enabled that nobody has scanned |
| `RegenerateReplaces`, `alone` and `ok` | a regeneration that fails between its two statements leaves no codes, two at once leave two sets (`mfa.service.ts:495`) |
| `DisableCleans` and `WayIn`, `alone` and `ok` | a disable that fails after the deletions and before the flags (`mfa.service.ts:561`) leaves a user who is asked for a factor and has none; disabling again repairs it, which takes a session |
| `RemoveKeepsMfa`, `alone` | a confirmation that ends between the read of the authenticator and the update of the flags (`mfa.service.ts:543`) has its flag overwritten |
| `OwnChangeShown`, `kept` | a list of another filter, read before a change and answered after it, is taken for fresh (`app/admin/page.tsx:158`) |
| `PageExists`, `strayed` | Next over the rows of the previous filter leads past the last page (`app/admin/page.tsx:179`) |
| `RefusalMeansStale` | the page offers to lock accounts that await verification, which the server always refuses (`app/admin/page.tsx:181`) |

Met while modelling, without a property of their own: an administrator may lock his own
account, since only DISABLED is refused on oneself (`admin.service.ts:105`), although
`docs/security-model.md:46` says self-targeting destructive actions are rejected; a sign-in
with a second factor opens its session without `rememberMe` (`auth.service.ts:374`), although
the comment at `mfa.service.ts:61` says the choice is "preserved for token TTL"; the rate
limiters count per isolate, although `README.md:82` and `docs/deployment.md:15` put their
state in Redis.

### Fairness

`FairSpec` (run `sessions_rotation`) assumes weak fairness of the steps of each refresh
the server has started: an `async` handler whose awaited statements return runs to its end.
Nothing is assumed of clients or of the clock, and a crash may always pre-empt the step,
which is why `ReuseClosesSession` has the crash as its alternative.

## Proofs

Checked by TLAPS with SMT, Zenon and LS4; no statement is assumed but the `ASSUME`s on the
constants (positive lifetimes, a sentinel outside the set it extends), which TLC evaluates
in every run.

* **`SessionsProofs`**: `TypeOK`, `ClosedNeverAdmitted`, `DeactivationClosesSessions`,
  `AlertMeansClosed`, `RefreshTokenLifetime` and the refinement `ImplementsLifecycle`, for
  all sets of users, sessions and request slots and all lifetimes. The invariant `Inv` adds
  to the types what rows (`RowsOK`: the current hash is one of the issued tokens, a row
  without status has no owner), refreshes (`RefreshOK`: the copy of a row has the owner and
  the deadline of the row), authenticated requests (`AuthOK`) and status changes
  (`AdminOK`) keep. Most of it rests on one lemma, `Evolves`: in any step a row keeps owner
  and deadline, never goes back from closed to active, and its current token only grows.
  A refresh that holds an old copy is harmless for these properties because it writes
  hash and deadline only, and the deadline it writes is the one the row has.
* **`AccountsProofs`**: `TypeOK`, `SignedInVerified`, `SelfLockIsTransient`, `FailuresCounted`
  and `LockWindowHonoured`, for any number of overlapping requests.
  `SignedInVerified` is not inductive; `CopiesOK` says that the copy of a sign-in is never
  ahead of the table about a verified address, which holds because no statement takes one
  back (`RowEvolves`).
  `FailuresCounted` and `LockWindowHonoured` rest on `RowsAccount`: every row that is not
  `raced` accounts for its history (`Accounted`: the counter is not behind the wrong passwords
  checked, an unverified account has none, an account whose failures are used up is not
  ACTIVE, and a lock date is a whole window after the last lock). The lemma that carries it is
  `CheckedCopy`: a sign-in that is not outdated finds the row as its copy says, so what it
  computes from the copy is right for the row. An administrator's write needs no exception,
  as it restarts the count and its lock date is beyond any window.
* **`AdministrationProofs`**, on the server: `TypeOK` and `LastAdminFallsToTheOvertaken`, for
  any number of overlapping role and status changes. The strengthening says of every role
  change that was not overtaken that its actor is an administrator (`ActorIsAdmin`) and, once
  checked, that it does not demote him (`NotOwnDemotion`): so it leaves its actor in office.
  At the dashboard: `DashboardTypeOK`, `OwnChangeShown`, `RefusalMeansStale` and `PageExists`,
  for all sets of users, page sizes and filters and any number of writes and turns. The
  invariant `DashboardInv` adds to them `CacheOK` (an answer on its way is as new as my last
  acknowledged change, or marked as kept, so that it may become data), `ActionsOK` (the
  dialog and the mutation hold what a row of some version of the table offered, and the
  cards have data by then, so that an acknowledgement asks for them anew) and `PageFits`.
  `PageExists` compares page counts of different versions of the table, as the count shown may
  come from any; `PageFits` relates the page to the first version only, to which the others
  are equal in the rows that count as long as nobody moves in or out of the list.
* **`RateLimiterProofs`**: `AtMostTwice` and `RefusedOnlyWhenFull`, for all sets of
  clients, window lengths, limits and sweep thresholds. The invariant `LimiterInv` ties the
  buckets to the history: the bucket of a client is its last window (it ends a window's
  length after that one opened, and its count up to the limit is what was admitted), a client
  without a bucket has only windows that are over, and windows are at least a window's length
  apart. That sweeping is harmless is
  in `OverWhenFirst`: whether a bucket was swept or found expired, the window it stood for
  is over.
* **`VerificationProofs`**: `TypeOK`, `SuccessMeansVerified`, `ResendLeavesOneLink` and `AnswerLeavesALink`, for all sets of links and requests and any
  number of statements that land late. None of the last three is inductive: the invariant
  adds that a request that works on a link holds it (`TokensHeld`, `PageHoldsToken`), that a
  link is confirmed anew only for a verified address (`ConfirmedVerified`), that the request
  the page awaits carries a verification (`AwaitedVerifies`), and what an undisturbed
  request has done so far: no live link before it creates one (`NoneBeforeCreate`), its own
  link on record until it is mailed (`MailedOnRecord`).
* **`WebClientProofs`**: `TypeOK`, `ReuseNeedsDisturbance`, `SignOutIsFinal`,
  `SignedOutTabForgets` and `RetryRefusedOnlyIfClosed`, for all sets of tabs, calls and
  sessions; the bound on tokens plays no part. The invariant has a part for every call
  (`CallGood`: what it may have been answered, and with which cookies) and every tab
  (`TabGood`), which need only that rows never reopen (`Later`). `ReuseNeedsDisturbance` is
  the hard one: `Current` says that, undisturbed, there is one refresh at most, the token it
  presents is the current one, so is every token on its way and the one in the jar unless its
  successor is on its way, and a session just signed in to is known to nobody but the answer.
  For `RetryRefusedOnlyIfClosed`, `RefreshedGood` says that the jar has an access cookie while
  the body of a refresh is read, unless the call is marked `emptied`, and `RetryGood` that the
  retry then leaves with one.
  `ClientRefinement`: the API of the module implements `SessionLifecycle`. A session is live
  while its row is active, and a refresh that has read its row is an exchange under way; all
  sessions belong to one person and none has a deadline, as the module has neither users nor
  time. That the token only moves forward, even where two refreshes read the row before either
  writes, is `HashesIssued`: the current number is never ahead of those issued, and a rotation
  writes the next one.
* **`MfaSettingsProofs`**: `TypeOK`, `DisableCleans`, `RegenerateReplaces`,
  `EnrolmentProtects`, `WayIn` and `RemoveKeepsMfa`, for all sets of requests, secrets, keys
  and batches of codes. All but the first speak of a request that is answered; the invariant
  (`Progress`) says what a request that nothing has disturbed has brought the tables to by
  each of its steps (`DisableSoFar`, `ConfirmSoFar` and so on), with no assumption on what
  the tables held when it began. A write of one request ends what is claimed of the others.
* **`LoginFormProofs`**: `FactorOfOwner`, `PasswordAloneIsNotEnough`,
  `SecondSessionNeedsLoss`, `RecoveryCodeSpentOnce` and `CompletedChallengesAreDead`, for all
  sets of users, tabs, browsers, requests, challenges and sessions and any number of losses,
  and `TypeOK`. `SecondSessionNeedsLoss` rests on the form: a challenge is known
  to one tab (`HeldOnce`), a tab awaits one verification (`TabsOK`), and the challenge of one
  that was left behind is abandoned (`LeftOK`), so of any other the request that deletes the
  challenge is the only one to have read it; `Apart` then keeps a challenge that opened a
  session away from every later verification, unless it is abandoned. `TakenOnce` is its
  counterpart for recovery codes, and rests on the single statement of
  `consumeRecoveryCode` alone. `PasswordAloneIsNotEnough` follows a device token from
  the request that mints it through the answer and the cookie to the next sign-in: where it
  is a device of a user, that user has a session opened with a code or a key (`Earned`,
  `Vouched`). `TypeOK` needs the bounds on ceremonies and devices, which are checked when a
  call leaves, while the ceremony begins or the token is minted only when the server gets there:
  `Rooms` says that what has been begun or minted, together with the calls that may yet do
  so, stays within the bound, and that the calls under way are finitely many.

Every safety property, action property and refinement that a passing run checks is stated by
one of the theorems in `PROJECT.json`; there, `property` is left out where no run names it
(`ClientRefinement` and the types of three modules). Only model-checked: `ReuseClosesSession`, which is liveness
under fairness and out of the provers' reach.

## Not modelled

* Wording, formatting, audit rows (nothing reads them back, save the reuse event, kept as
  `alerts`), read-only pages, analytics and trends, validation (stateless).
* Cryptography: a token verifies if it was issued and has not expired; a hash is injective; a
  code or a key assertion is right if it belongs to its user. So `totp.ts` and `password.ts` are
  not modelled; which TOTP step a code belongs to is no part of `MfaLogin`.
* `UNIQUE` violations of random identifiers.
* The query cache and the router of the web pages are external: their operations are
  modelled from how the pages use them.
* The search box of the administration page (it acts as the filter does), and the split of
  a list into a query for its rows and one for their count.
* How the client address is derived from the headers.

## Plan

1. **Operators** checked against reference definitions: the TOTP window and the password
   policy (`totp.ts`, `password.ts`).
2. **What the exceptions cost**: the properties that except `raced` say when a failure may be
   forgotten, not how many; a bound in terms of the requests that overlap has no statement yet.
3. **The dashboard over `Admins`**: `AdminPage` decides and writes a change in one step, so a
   write that comes in between is seen in `Admins` only.
