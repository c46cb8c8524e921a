-------------------------- MODULE MfaSettingsProofs --------------------------
(***************************************************************************)
(* Theorems about module MfaSettings: what an operation on the second      *)
(* factors that nothing disturbs and that succeeds has achieved, whatever  *)
(* half-done requests left before, for any number of requests, keys,       *)
(* secrets and batches of recovery codes.                                  *)
(***************************************************************************)
EXTENDS MfaSettings, TLAPS

\* A secret comes before the enrolment is confirmed.
EnabledHasSecret == totp.enabled => totp.secret # NoSecret

\* The state of the tables, as an argument: SoFar(x, Tables) says what request
\* x, if nothing has disturbed it, has brought the tables to by its step.
Tables ==
  [totp |-> totp, keys |-> keys, codes |-> codes, trusted |-> trusted, flags |-> flags]

Succeeded(x) == x.pc = "answered" /\ x.ok

Past(x, steps) == x.pc \in steps \/ Succeeded(x)

\* What disable has removed by each of its steps.
DisableSoFar(x, t) ==
  x.kind = "disable" =>
    /\ Past(x, {"dropCodes", "listKeys", "dropKeys", "dropTrusted", "flags"}) =>
         t.totp = NoTotp
    /\ Past(x, {"listKeys", "dropKeys", "dropTrusted", "flags"}) => t.codes = {}
    /\ x.pc = "dropKeys" => t.keys \subseteq x.listed
    /\ Past(x, {"dropTrusted", "flags"}) => t.keys = {}
    /\ Past(x, {"flags"}) => ~t.trusted
    /\ Succeeded(x) => t.flags = Off

\* The old codes are gone before the new ones are stored.
RegenerateSoFar(x, t) ==
  x.kind = "regenerate" =>
    /\ x.pc = "storeCodes" => t.codes = {}
    /\ Succeeded(x) => t.codes = {x.batch}

\* The secret whose code was accepted is still the one on record.
ConfirmSoFar(x, t) ==
  x.kind = "confirm" =>
    /\ Past(x, {"enable", "flags", "countCodes", "dropCodes", "storeCodes"}) =>
         t.totp.secret = x.secret /\ x.secret # NoSecret
    /\ Past(x, {"flags", "countCodes", "dropCodes", "storeCodes"}) => t.totp.enabled
    /\ Past(x, {"countCodes", "dropCodes", "storeCodes"}) =>
         t.flags.totpEnabled /\ t.flags.mfaEnabled
    /\ Succeeded(x) => t.codes # {}

\* The key is on record, and then the flags say so.
RegisterSoFar(x, t) ==
  x.kind = "register" =>
    /\ Past(x, {"flags", "ceremonyEnd", "countCodes", "dropCodes", "storeCodes"}) =>
         t.keys # {}
    /\ Past(x, {"ceremonyEnd", "countCodes", "dropCodes", "storeCodes"}) =>
         t.flags.webauthnEnabled /\ t.flags.mfaEnabled
    /\ Succeeded(x) => t.codes # {}

\* remove has counted the keys that are left, and read the authenticator.
RemoveSoFar(x, t) ==
  x.kind = "remove" =>
    /\ x.pc = "readTotp" => (x.last <=> t.keys = {})
    /\ x.pc = "flags" => (x.enabled <=> t.totp.enabled)
    /\ Succeeded(x) => (t.flags.mfaEnabled => t.keys # {} \/ t.totp.secret # NoSecret)

StartSoFar(x, t) == x.kind = "start" /\ Succeeded(x) => t.totp.secret # NoSecret

SoFar(x, t) ==
  /\ DisableSoFar(x, t) /\ RegenerateSoFar(x, t) /\ ConfirmSoFar(x, t)
  /\ RegisterSoFar(x, t) /\ RemoveSoFar(x, t) /\ StartSoFar(x, t)

Progress == \A r \in Requests : requests[r].alone => SoFar(requests[r], Tables)

\* The registration of a key names a key.
Named(x) == x.kind = "register" /\ x.pc \in {"ceremony", "credential"} => x.key # NoKey

KeysNamed == \A r \in Requests : Named(requests[r])

Inv == TypeOK /\ EnabledHasSecret /\ KeysNamed /\ Progress

-----------------------------------------------------------------------------
USE MfaSettingsConstants

(* Records *)

Fields(steps, kinds, secrets, batches, someKeys, lists) ==
  [pc : steps, kind : kinds, secret : secrets, batch : batches, key : someKeys,
   listed : lists, last : BOOLEAN, enabled : BOOLEAN, alone : BOOLEAN, ok : BOOLEAN]

Steps ==
  {"idle", "password", "upsert", "readTotp", "enable", "ceremony", "credential",
   "flags", "ceremonyEnd", "countCodes", "dropCodes", "storeCodes", "find",
   "dropKey", "countKeys", "dropTotp", "listKeys", "dropKeys", "dropTrusted",
   "answered"}

LEMMA RequestIsFields ==
  Request = Fields(Steps, Kinds, Secrets \cup {NoSecret}, Batches \cup {NoBatch},
                   Keys \cup {NoKey}, SUBSET Keys)
  BY Zenon DEF Request, Fields, Steps

Moved(x, p) == [x EXCEPT !.pc = p]
Overtaken(x) == [x EXCEPT !.alone = FALSE]
Counted(x, p, b) == [x EXCEPT !.pc = p, !.last = b]
Consulted(x, p, b) == [Moved(x, p) EXCEPT !.enabled = b]
Listing(x, l, p) == [x EXCEPT !.listed = l, !.pc = p]
Refusal(x, kind) == [x EXCEPT !.pc = "answered", !.kind = kind]
Success(x, kind, s, a) ==
  [x EXCEPT !.pc = "answered", !.ok = TRUE, !.kind = kind, !.secret = s, !.alone = a]
WithSecret(x, s) == [x EXCEPT !.secret = s]
WithBatch(x, b) == [x EXCEPT !.batch = b]
Clicked(x, p, kind, k, s) ==
  [x EXCEPT !.pc = p, !.kind = kind, !.key = k, !.alone = TRUE, !.secret = s]

LEMMA FieldsUpdated ==
  ASSUME NEW steps, NEW kinds, NEW secrets, NEW batches, NEW someKeys, NEW lists,
         "answered" \in steps,
         NEW x \in Fields(steps, kinds, secrets, batches, someKeys, lists)
  PROVE  LET F == Fields(steps, kinds, secrets, batches, someKeys, lists)
         IN  /\ \A p \in steps : Moved(x, p) \in F
             /\ Overtaken(x) \in F
             /\ \A p \in steps, b \in BOOLEAN : Counted(x, p, b) \in F
             /\ \A p \in steps, b \in BOOLEAN : Consulted(x, p, b) \in F
             /\ \A p \in steps, l \in lists : Listing(x, l, p) \in F
             /\ \A kind \in kinds : Refusal(x, kind) \in F
             /\ \A kind \in kinds, s \in secrets, a \in BOOLEAN : Success(x, kind, s, a) \in F
             /\ \A s \in secrets : WithSecret(x, s) \in F
             /\ \A b \in batches : WithBatch(x, b) \in F
             /\ \A p \in steps, kind \in kinds, k \in someKeys, s \in secrets :
                  Clicked(x, p, kind, k, s) \in F
  <1> DEFINE F == Fields(steps, kinds, secrets, batches, someKeys, lists)
  <1>1. \A p \in steps : Moved(x, p) \in F
    BY DEF Fields, Moved
  <1>2. Overtaken(x) \in F
    BY DEF Fields, Overtaken
  <1>3. \A p \in steps, b \in BOOLEAN : Counted(x, p, b) \in F
    BY DEF Fields, Counted
  <1>4. \A p \in steps, b \in BOOLEAN : Consulted(x, p, b) \in F
    BY DEF Fields, Consulted, Moved
  <1>5. \A p \in steps, l \in lists : Listing(x, l, p) \in F
    BY DEF Fields, Listing
  <1>6. \A kind \in kinds : Refusal(x, kind) \in F
    BY DEF Fields, Refusal
  <1>7. \A kind \in kinds, s \in secrets, a \in BOOLEAN : Success(x, kind, s, a) \in F
    BY DEF Fields, Success
  <1>8. \A s \in secrets : WithSecret(x, s) \in F
    BY DEF Fields, WithSecret
  <1>9. \A b \in batches : WithBatch(x, b) \in F
    BY DEF Fields, WithBatch
  <1>10. \A p \in steps, kind \in kinds, k \in someKeys, s \in secrets :
           Clicked(x, p, kind, k, s) \in F
    BY DEF Fields, Clicked
  <1> QED
    BY <1>1, <1>2, <1>3, <1>4, <1>5, <1>6, <1>7, <1>8, <1>9, <1>10

\* A request stays a request.
LEMMA RequestUpdated ==
  ASSUME NEW x \in Request
  PROVE  /\ \A p \in Steps : Moved(x, p) \in Request
         /\ Overtaken(x) \in Request
         /\ \A p \in Steps, b \in BOOLEAN : Counted(x, p, b) \in Request
         /\ \A p \in Steps, b \in BOOLEAN : Consulted(x, p, b) \in Request
         /\ \A p \in Steps, l \in SUBSET Keys : Listing(x, l, p) \in Request
         /\ \A kind \in Kinds : Refusal(x, kind) \in Request
         /\ \A kind \in Kinds, s \in Secrets \cup {NoSecret}, a \in BOOLEAN :
              Success(x, kind, s, a) \in Request
         /\ \A s \in Secrets \cup {NoSecret} : WithSecret(x, s) \in Request
         /\ \A b \in Batches \cup {NoBatch} : WithBatch(x, b) \in Request
         /\ \A p \in Steps, kind \in Kinds, k \in Keys \cup {NoKey},
               s \in Secrets \cup {NoSecret} : Clicked(x, p, kind, k, s) \in Request
  <1> DEFINE secrets == Secrets \cup {NoSecret}
             batches == Batches \cup {NoBatch}
             someKeys == Keys \cup {NoKey}
             lists == SUBSET Keys
             F == Fields(Steps, Kinds, secrets, batches, someKeys, lists)
  <1>1. Request = F
    BY RequestIsFields, Zenon
  <1>2. "answered" \in Steps
    BY DEF Steps
  <1> HIDE DEF secrets, batches, someKeys, lists
  <1>3. /\ \A p \in Steps : Moved(x, p) \in F
        /\ Overtaken(x) \in F
        /\ \A p \in Steps, b \in BOOLEAN : Counted(x, p, b) \in F
        /\ \A p \in Steps, b \in BOOLEAN : Consulted(x, p, b) \in F
        /\ \A p \in Steps, l \in lists : Listing(x, l, p) \in F
    BY <1>1, <1>2, FieldsUpdated
  <1>4. /\ \A kind \in Kinds : Refusal(x, kind) \in F
        /\ \A kind \in Kinds, s \in secrets, a \in BOOLEAN : Success(x, kind, s, a) \in F
        /\ \A s \in secrets : WithSecret(x, s) \in F
        /\ \A b \in batches : WithBatch(x, b) \in F
        /\ \A p \in Steps, kind \in Kinds, k \in someKeys, s \in secrets :
             Clicked(x, p, kind, k, s) \in F
    BY <1>1, <1>2, FieldsUpdated
  <1> HIDE DEF F
  <1>5. /\ \A p \in Steps : Moved(x, p) \in Request
        /\ Overtaken(x) \in Request
        /\ \A p \in Steps, b \in BOOLEAN : Counted(x, p, b) \in Request
        /\ \A p \in Steps, b \in BOOLEAN : Consulted(x, p, b) \in Request
        /\ \A p \in Steps, l \in lists : Listing(x, l, p) \in Request
    BY <1>1, <1>3
  <1>6. /\ \A kind \in Kinds : Refusal(x, kind) \in Request
        /\ \A kind \in Kinds, s \in secrets, a \in BOOLEAN : Success(x, kind, s, a) \in Request
        /\ \A s \in secrets : WithSecret(x, s) \in Request
        /\ \A b \in batches : WithBatch(x, b) \in Request
        /\ \A p \in Steps, kind \in Kinds, k \in someKeys, s \in secrets :
             Clicked(x, p, kind, k, s) \in Request
    BY <1>1, <1>4
  <1> QED
    BY <1>5, <1>6 DEF secrets, batches, someKeys, lists

\* The fields of an updated request.
LEMMA MovedFields ==
  ASSUME NEW x \in Request, NEW p
  PROVE  LET y == Moved(x, p)
         IN  /\ y.pc = p /\ y.kind = x.kind /\ y.secret = x.secret /\ y.batch = x.batch
             /\ y.key = x.key /\ y.listed = x.listed
             /\ y.last = x.last /\ y.enabled = x.enabled /\ y.alone = x.alone /\ y.ok = x.ok
  BY DEF Request, Moved

LEMMA CountedFields ==
  ASSUME NEW x \in Request, NEW p, NEW b \in BOOLEAN
  PROVE  LET y == Counted(x, p, b)
         IN  y.pc = p /\ y.last = b /\ y.kind = x.kind /\ y.alone = x.alone /\ y.key = x.key
  BY DEF Request, Counted

LEMMA ConsultedFields ==
  ASSUME NEW x \in Request, NEW p, NEW b \in BOOLEAN
  PROVE  LET y == Consulted(x, p, b)
         IN  y.pc = p /\ y.enabled = b /\ y.kind = x.kind /\ y.alone = x.alone
  BY DEF Request, Consulted, Moved

LEMMA ListingFields ==
  ASSUME NEW x \in Request, NEW p, NEW l
  PROVE  LET y == Listing(x, l, p)
         IN  y.pc = p /\ y.listed = l /\ y.kind = x.kind /\ y.alone = x.alone
  BY DEF Request, Listing

LEMMA IdleIs == Idle \in Request /\ ~Idle.alone /\ ~Idle.ok
  BY DEF Idle, Request, Kinds

LEMMA RefusalFields ==
  ASSUME NEW kind
  PROVE  /\ ~Refusal(Idle, kind).alone /\ ~Refusal(Idle, kind).ok
         /\ Refusal(Idle, kind).pc = "answered"
  BY IdleIs DEF Request, Refusal

LEMMA SuccessFields ==
  ASSUME NEW kind, NEW s, NEW a \in BOOLEAN
  PROVE  LET y == Success(Idle, kind, s, a)
         IN  y.pc = "answered" /\ y.kind = kind /\ y.secret = s /\ y.ok /\ y.alone = a
  BY IdleIs DEF Request, Success

LEMMA WithFields ==
  ASSUME NEW x \in Request, NEW s, NEW b
  PROVE  /\ WithSecret(x, s).secret = s /\ WithBatch(x, b).batch = b
         /\ \A y \in {WithSecret(x, s), WithBatch(x, b)} :
              y.pc = x.pc /\ y.kind = x.kind /\ y.ok = x.ok /\ y.alone = x.alone
         /\ WithBatch(x, b).secret = x.secret
  BY DEF Request, WithSecret, WithBatch

LEMMA ClickedFields ==
  ASSUME NEW p, NEW kind, NEW k, NEW s
  PROVE  LET y == Clicked(Idle, p, kind, k, s)
         IN  y.pc = p /\ y.kind = kind /\ y.key = k /\ y.alone /\ ~y.ok
  BY IdleIs DEF Request, Clicked

-----------------------------------------------------------------------------
(* Steps that read, and steps that write *)

Becomes(r, y) == requests' = [requests EXCEPT ![r] = y]

TablesType(t) ==
  /\ t.totp \in TotpRow /\ t.keys \in SUBSET Keys /\ t.codes \in SUBSET Batches
  /\ t.trusted \in BOOLEAN /\ t.flags \in Flags
  /\ t.totp.enabled => t.totp.secret # NoSecret

LEMMA Unfolded ==
  ASSUME Inv, NEW r \in Requests
  PROVE  /\ requests \in [Requests -> Request] /\ requests[r] \in Request
         /\ page \in Page /\ TablesType(Tables)
         /\ requests[r].alone => SoFar(requests[r], Tables)
         /\ requests[r].alone \in BOOLEAN /\ requests[r].kind \in Kinds /\ Named(requests[r])
         /\ requests[r].secret \in Secrets \cup {NoSecret}
         /\ Tables.totp = totp /\ Tables.keys = keys /\ Tables.codes = codes
         /\ Tables.trusted = trusted /\ Tables.flags = flags
  <1>1. /\ Tables.totp = totp /\ Tables.keys = keys /\ Tables.codes = codes
        /\ Tables.trusted = trusted /\ Tables.flags = flags
    BY DEF Tables
  <1>2. /\ requests \in [Requests -> Request] /\ requests[r] \in Request /\ page \in Page
        /\ requests[r].alone => SoFar(requests[r], Tables)
    BY DEF Inv, TypeOK, Progress
  <1>5. Named(requests[r])
    BY DEF Inv, KeysNamed
  <1>3. TablesType(Tables)
    BY <1>1 DEF Inv, TypeOK, EnabledHasSecret, TablesType
  <1>4. /\ requests[r].alone \in BOOLEAN /\ requests[r].kind \in Kinds
        /\ requests[r].secret \in Secrets \cup {NoSecret}
    BY <1>2 DEF Request
  <1> QED
    BY <1>1, <1>2, <1>3, <1>4, <1>5

LEMMA NewTablesAre ==
  /\ Tables'.totp = totp' /\ Tables'.keys = keys' /\ Tables'.codes = codes'
  /\ Tables'.trusted = trusted' /\ Tables'.flags = flags'
  BY DEF Tables

LEMMA ReadStep ==
  ASSUME Inv, NEW r \in Requests, NEW y \in Request, Becomes(r, y),
         Named(y), y.alone => SoFar(y, Tables), UNCHANGED tables, page' \in Page
  PROVE  Inv'
  <1>1. Tables' = Tables
    BY DEF tables, Tables
  <1>2. TypeOK' /\ EnabledHasSecret'
    BY DEF Inv, TypeOK, EnabledHasSecret, tables, Becomes
  <1>3. \A q \in Requests : requests'[q] = IF q = r THEN y ELSE requests[q]
    BY DEF Inv, TypeOK, Becomes
  <1>4. Progress'
    BY <1>1, <1>3 DEF Inv, Progress
  <1>5. KeysNamed'
    BY <1>3 DEF Inv, KeysNamed
  <1> QED
    BY <1>2, <1>4, <1>5 DEF Inv

LEMMA WriteStep ==
  ASSUME Inv, NEW r \in Requests, NEW y \in Request, Write(r, y),
         y.pc \notin {"ceremony", "credential"}, TablesType(Tables'),
         y.alone => SoFar(y, Tables'), page' = page
  PROVE  Inv'
  <1>1. \A q \in Requests : requests[q] \in Request
    BY DEF Inv, TypeOK
  <1>2. \A q \in Requests : Overtaken(requests[q]) \in Request /\ ~Overtaken(requests[q]).alone
    <2>1. \A q \in Requests : Overtaken(requests[q]) \in Request
      BY <1>1, RequestUpdated
    <2>2. \A x \in Request : ~Overtaken(x).alone
      BY DEF Request, Overtaken
    <2> QED
      BY <1>1, <2>1, <2>2
  <1>3. requests' = [q \in Requests |-> IF q = r THEN y ELSE Overtaken(requests[q])]
    BY DEF Write, Overtaken
  <1>4. requests' \in [Requests -> Request]
    BY <1>2, <1>3
  <1>5. TypeOK' /\ EnabledHasSecret'
    BY <1>4, NewTablesAre DEF Inv, TypeOK, EnabledHasSecret, TablesType
  <1>6. Progress'
    BY <1>2, <1>3 DEF Progress
  <1>7. \A q \in Requests : Named(Overtaken(requests[q]))
    <2>1. \A x \in Request : Named(x) => Named(Overtaken(x))
      BY DEF Named, Request, Overtaken
    <2> QED
      BY <1>1, <2>1 DEF Inv, KeysNamed
  <1>8. KeysNamed'
    BY <1>3, <1>7 DEF KeysNamed, Named
  <1> QED
    BY <1>5, <1>6, <1>8 DEF Inv

\* A step that only refuses.
LEMMA RefuseStep ==
  ASSUME Inv, NEW r \in Requests, Refuse(r)
  PROVE  Inv'
  <1> DEFINE y == Refusal(Idle, requests[r].kind)
  <1>1. y \in Request /\ ~y.alone /\ Named(y)
    BY Unfolded, IdleIs, RequestUpdated, RefusalFields DEF Named
  <1>2. Becomes(r, y) /\ UNCHANGED tables /\ page' = page
    BY DEF Refuse, Becomes, Refusal
  <1> HIDE DEF y
  <1> QED
    BY <1>1, <1>2, Unfolded, ReadStep

\* A step that only reads.
LEMMA MoveStep ==
  ASSUME Inv, NEW r \in Requests, NEW p \in Steps, Read(r, p),
         Named(Moved(requests[r], p)),
         requests[r].alone => SoFar(Moved(requests[r], p), Tables)
  PROVE  Inv'
  <1> DEFINE y == Moved(requests[r], p)
  <1>1. y \in Request /\ y.alone = requests[r].alone
    BY Unfolded, RequestUpdated, MovedFields
  <1>2. Becomes(r, y) /\ UNCHANGED tables /\ page' = page
    BY Unfolded DEF Read, Becomes, Moved
  <1> HIDE DEF y
  <1>3. Named(y) /\ (y.alone => SoFar(y, Tables))
    BY <1>1 DEF y
  <1> QED
    BY <1>1, <1>2, <1>3, Unfolded, ReadStep

LEMMA DoneIs ==
  ASSUME Inv, NEW r \in Requests
  PROVE  /\ Done(r) = Success(Idle, requests[r].kind, requests[r].secret, requests[r].alone)
         /\ Done(r) \in Request /\ Done(r).pc = "answered" /\ Done(r).ok
         /\ Done(r).kind = requests[r].kind /\ Done(r).secret = requests[r].secret
         /\ Done(r).alone = requests[r].alone
  <1>1. Done(r) = Success(Idle, requests[r].kind, requests[r].secret, requests[r].alone)
    BY Zenon DEF Done, Success
  <1>2. Success(Idle, requests[r].kind, requests[r].secret, requests[r].alone) \in Request
    BY Unfolded, IdleIs, RequestUpdated
  <1> QED
    BY <1>1, <1>2, Unfolded, SuccessFields

-----------------------------------------------------------------------------
(* The authenticator *)

LEMMA UpsertStep ==
  ASSUME Inv, NEW r \in Requests, UpsertPendingTotpSecret(r)
  PROVE  Inv'
  <1> PICK s \in FreshSecrets :
        /\ totp' = [secret |-> s, enabled |-> FALSE]
        /\ Write(r, [Done(r) EXCEPT !.secret = s])
    BY DEF UpsertPendingTotpSecret
  <1> DEFINE y == WithSecret(Done(r), s)
  <1>1. s \in Secrets /\ s # NoSecret
    BY DEF FreshSecrets
  <1>2. /\ y \in Request /\ y.pc = "answered" /\ y.ok /\ y.kind = "start"
    BY <1>1, DoneIs, RequestUpdated, WithFields DEF UpsertPendingTotpSecret, At
  <1>3. Write(r, y) /\ page' = page
    BY DEF WithSecret, UpsertPendingTotpSecret
  <1> HIDE DEF y
  <1>4. totp' \in TotpRow /\ totp'.secret = s /\ totp'.enabled = FALSE
    BY <1>1 DEF TotpRow
  <1>5. TablesType(Tables')
    BY <1>4, Unfolded, NewTablesAre DEF TablesType, UpsertPendingTotpSecret
  <1>6. SoFar(y, Tables')
    BY <1>1, <1>2, <1>4, NewTablesAre
    DEF SoFar, DisableSoFar, RegenerateSoFar, ConfirmSoFar, RegisterSoFar, RemoveSoFar,
        StartSoFar, Past, Succeeded
  <1> QED
    BY <1>2, <1>3, <1>5, <1>6, WriteStep

LEMMA CheckEnrolmentCodeStep ==
  ASSUME Inv, NEW r \in Requests, CheckEnrolmentCode(r)
  PROVE  Inv'
  <1> DEFINE y == Moved(requests[r], "enable")
  <1>1. /\ y.pc = "enable" /\ y.kind = "confirm" /\ y.secret = requests[r].secret
    BY Unfolded, MovedFields DEF CheckEnrolmentCode, At
  <1>2. "enable" \in Steps
    BY DEF Steps
  <1> HIDE DEF y
  <1>3. CASE CodeAccepted(r)
    <2>1. totp.secret # NoSecret /\ totp.secret = requests[r].secret /\ Read(r, "enable")
      BY <1>3 DEF CodeAccepted, CheckEnrolmentCode
    <2>2. SoFar(y, Tables)
      BY <1>1, <2>1, Unfolded
      DEF SoFar, DisableSoFar, RegenerateSoFar, ConfirmSoFar, RegisterSoFar, RemoveSoFar,
          StartSoFar, Past, Succeeded
    <2> QED
      BY <1>1, <1>2, <2>1, <2>2, MoveStep DEF y, Named
  <1>4. CASE ~CodeAccepted(r)
    BY <1>4, RefuseStep DEF CheckEnrolmentCode
  <1> QED
    BY <1>3, <1>4

LEMMA EnableTotpStep ==
  ASSUME Inv, NEW r \in Requests, EnableTotp(r)
  PROVE  Inv'
  <1> DEFINE x == requests[r]
             y == Moved(x, "flags")
  <1>1. /\ x.pc = "enable" /\ x.kind = "confirm" /\ page' = page
        /\ totp' = [totp EXCEPT !.enabled = TRUE] /\ totp.secret # NoSecret
        /\ UNCHANGED <<keys, codes, trusted, flags>> /\ Write(r, y)
    BY DEF EnableTotp, At, Goes, Moved
  <1>2. /\ y \in Request /\ y.pc = "flags" /\ y.kind = "confirm" /\ y.secret = x.secret
        /\ y.alone = x.alone
    BY <1>1, Unfolded, RequestUpdated, MovedFields DEF Steps
  <1>3. x.alone => SoFar(x, Tables)
    BY Unfolded
  <1> HIDE DEF x, y
  <1>4. totp' \in TotpRow /\ totp'.secret = totp.secret /\ totp'.enabled
    BY <1>1, Unfolded DEF TotpRow, TablesType
  <1>5. TablesType(Tables')
    BY <1>1, <1>4, Unfolded, NewTablesAre DEF TablesType
  <1>6. y.alone => SoFar(y, Tables')
    BY <1>1, <1>2, <1>3, <1>4, Unfolded, NewTablesAre
    DEF SoFar, DisableSoFar, RegenerateSoFar, ConfirmSoFar, RegisterSoFar, RemoveSoFar,
        StartSoFar, Past, Succeeded
  <1> QED
    BY <1>1, <1>2, <1>5, <1>6, WriteStep

-----------------------------------------------------------------------------
(* Security keys *)

LEMMA CheckCeremonyStep ==
  ASSUME Inv, NEW r \in Requests, CheckCeremony(r)
  PROVE  Inv'
  <1> DEFINE y == Moved(requests[r], "credential")
  <1>1. y.pc = "credential" /\ y.kind = "register" /\ y.key # NoKey
    BY Unfolded, MovedFields DEF CheckCeremony, At, Named
  <1>2. "credential" \in Steps
    BY DEF Steps
  <1> HIDE DEF y
  <1>3. SoFar(y, Tables) /\ Named(y)
    BY <1>1 DEF SoFar, DisableSoFar, RegenerateSoFar, ConfirmSoFar, RegisterSoFar, RemoveSoFar,
                StartSoFar, Past, Succeeded, Named
  <1> QED
    BY <1>2, <1>3, MoveStep, RefuseStep DEF CheckCeremony, y

LEMMA CreateCredentialStep ==
  ASSUME Inv, NEW r \in Requests, CreateCredential(r)
  PROVE  Inv'
  <1> DEFINE x == requests[r]
             y == Moved(x, "flags")
  <1>1. CASE x.key \in keys
    BY <1>1, RefuseStep DEF CreateCredential
  <1>2. CASE x.key \notin keys
    <2>1. /\ x.pc = "credential" /\ x.kind = "register" /\ page' = page
          /\ keys' = keys \cup {x.key}
          /\ UNCHANGED <<totp, codes, trusted, flags>> /\ Write(r, y)
      BY <1>2 DEF CreateCredential, At, Goes, Moved
    <2>2. /\ y \in Request /\ y.pc = "flags" /\ y.kind = "register" /\ y.alone = x.alone
      BY <2>1, Unfolded, RequestUpdated, MovedFields DEF Steps
    <2>3. x.key \in Keys
      BY <2>1, Unfolded DEF Request, Named
    <2> HIDE DEF x, y
    <2>4. keys' \in SUBSET Keys /\ keys' # {}
      BY <2>1, <2>3, Unfolded DEF TablesType
    <2>5. TablesType(Tables')
      BY <2>1, <2>4, Unfolded, NewTablesAre DEF TablesType
    <2>6. SoFar(y, Tables')
      BY <2>2, <2>4, NewTablesAre
      DEF SoFar, DisableSoFar, RegenerateSoFar, ConfirmSoFar, RegisterSoFar, RemoveSoFar,
          StartSoFar, Past, Succeeded
    <2> QED
      BY <2>1, <2>2, <2>5, <2>6, WriteStep
  <1> QED
    BY <1>1, <1>2

LEMMA DeleteCeremonyStep ==
  ASSUME Inv, NEW r \in Requests, DeleteCeremony(r)
  PROVE  Inv'
  <1> DEFINE x == requests[r]
             y == Moved(x, "countCodes")
  <1>1. x.pc = "ceremonyEnd" /\ x.kind = "register" /\ Read(r, "countCodes")
    BY DEF DeleteCeremony, At
  <1>2. /\ y.pc = "countCodes" /\ y.kind = "register" /\ y.alone = x.alone
        /\ x.alone => SoFar(x, Tables)
    BY <1>1, Unfolded, MovedFields
  <1>3. "countCodes" \in Steps
    BY DEF Steps
  <1> HIDE DEF x, y
  <1>4. Named(y) /\ (x.alone => SoFar(y, Tables))
    BY <1>1, <1>2 DEF SoFar, DisableSoFar, RegenerateSoFar, ConfirmSoFar, RegisterSoFar,
                      RemoveSoFar, StartSoFar, Past, Succeeded, Named
  <1> QED
    BY <1>1, <1>3, <1>4, MoveStep DEF x, y

LEMMA FindCredentialStep ==
  ASSUME Inv, NEW r \in Requests, FindCredential(r)
  PROVE  Inv'
  <1> DEFINE y == Moved(requests[r], "dropKey")
  <1>1. y.pc = "dropKey" /\ y.kind = "remove"
    BY Unfolded, MovedFields DEF FindCredential, At
  <1>2. "dropKey" \in Steps
    BY DEF Steps
  <1> HIDE DEF y
  <1>3. Named(y) /\ SoFar(y, Tables)
    BY <1>1 DEF SoFar, DisableSoFar, RegenerateSoFar, ConfirmSoFar, RegisterSoFar,
                RemoveSoFar, StartSoFar, Past, Succeeded, Named
  <1> QED
    BY <1>2, <1>3, MoveStep, RefuseStep DEF FindCredential, y

LEMMA DeleteCredentialStep ==
  ASSUME Inv, NEW r \in Requests, DeleteCredential(r)
  PROVE  Inv'
  <1> DEFINE y == Moved(requests[r], "countKeys")
  <1>1. /\ keys' = keys \ {requests[r].key} /\ page' = page
        /\ UNCHANGED <<totp, codes, trusted, flags>> /\ Write(r, y)
    BY DEF DeleteCredential, Goes, Moved
  <1>2. y \in Request /\ y.pc = "countKeys" /\ y.kind = "remove"
    BY Unfolded, RequestUpdated, MovedFields DEF Steps, DeleteCredential, At
  <1> HIDE DEF y
  <1>3. TablesType(Tables')
    BY <1>1, Unfolded, NewTablesAre DEF TablesType
  <1>4. SoFar(y, Tables')
    BY <1>2 DEF SoFar, DisableSoFar, RegenerateSoFar, ConfirmSoFar, RegisterSoFar,
                RemoveSoFar, StartSoFar, Past, Succeeded
  <1> QED
    BY <1>1, <1>2, <1>3, <1>4, WriteStep

LEMMA CountCredentialsStep ==
  ASSUME Inv, NEW r \in Requests, CountCredentials(r)
  PROVE  Inv'
  <1> DEFINE none == keys = {}
             y == Counted(requests[r], "readTotp", none)
  <1>1. Becomes(r, y) /\ UNCHANGED tables /\ page' = page
    BY Unfolded DEF CountCredentials, Becomes, Counted
  <1>2. "readTotp" \in Steps /\ none \in BOOLEAN
    BY DEF Steps
  <1> HIDE DEF none
  <1>3. /\ y \in Request /\ y.pc = "readTotp" /\ y.kind = "remove"
        /\ y.last = none
    <2>1. requests[r] \in Request /\ requests[r].kind = "remove"
      BY Unfolded DEF CountCredentials, At
    <2>2. y \in Request
      BY <1>2, <2>1, RequestUpdated
    <2> QED
      BY <1>2, <2>1, <2>2, CountedFields
  <1> HIDE DEF y
  <1>4. Named(y) /\ SoFar(y, Tables)
    BY <1>3, Unfolded
    DEF SoFar, DisableSoFar, RegenerateSoFar, ConfirmSoFar, RegisterSoFar, RemoveSoFar,
        StartSoFar, Past, Succeeded, Named, none
  <1> QED
    BY <1>1, <1>3, <1>4, Unfolded, ReadStep

LEMMA ReadTotpSecretStep ==
  ASSUME Inv, NEW r \in Requests, ReadTotpSecret(r)
  PROVE  Inv'
  <1> DEFINE x == requests[r]
  <1>1. /\ x.pc = "readTotp" /\ x.kind = "remove" /\ UNCHANGED tables /\ page' = page
        /\ x.alone => SoFar(x, Tables)
    BY Unfolded DEF ReadTotpSecret, At
  <1>2. CASE x.last
    <2> DEFINE y == Consulted(x, "flags", totp.enabled)
    <2>1. Becomes(r, y)
      BY <1>2, Zenon DEF ReadTotpSecret, Becomes, Consulted, Goes, Moved
    <2>2. /\ y \in Request /\ y.pc = "flags" /\ y.kind = "remove" /\ y.alone = x.alone
          /\ y.enabled = totp.enabled
      BY <1>1, Unfolded, RequestUpdated, ConsultedFields DEF Steps, TablesType, TotpRow
    <2> HIDE DEF x, y
    <2>3. Named(y) /\ (y.alone => SoFar(y, Tables))
      BY <1>1, <2>2, Unfolded
      DEF SoFar, DisableSoFar, RegenerateSoFar, ConfirmSoFar, RegisterSoFar, RemoveSoFar,
          StartSoFar, Past, Succeeded, Named
    <2> QED
      BY <1>1, <2>1, <2>2, <2>3, Unfolded, ReadStep
  <1>3. CASE ~x.last
    <2>1. Becomes(r, Done(r))
      BY <1>3, Zenon DEF ReadTotpSecret, Becomes
    <2>2. /\ Done(r) \in Request /\ Done(r).pc = "answered" /\ Done(r).kind = "remove"
          /\ Done(r).alone = x.alone
      BY <1>1, DoneIs
    <2> HIDE DEF x
    <2>3. Named(Done(r)) /\ (Done(r).alone => SoFar(Done(r), Tables))
      BY <1>1, <1>3, <2>2
      DEF SoFar, DisableSoFar, RegenerateSoFar, ConfirmSoFar, RegisterSoFar, RemoveSoFar,
          StartSoFar, Past, Succeeded, Named
    <2> QED
      BY <1>1, <2>1, <2>2, <2>3, Unfolded, ReadStep
  <1> QED
    BY <1>2, <1>3

-----------------------------------------------------------------------------
(* The flags *)

\* The new flags, by the operation that sets them.
LEMMA NewFlagsAre ==
  ASSUME Inv, NEW r \in Requests
  PROVE  LET k == requests[r].kind
             f == NewFlags(r)
         IN  /\ k = "confirm" => f \in Flags /\ f.totpEnabled /\ f.mfaEnabled
             /\ k = "register" => f \in Flags /\ f.webauthnEnabled /\ f.mfaEnabled
             /\ k = "remove" =>
                  f \in Flags /\ f.mfaEnabled = (requests[r].enabled /\ flags.mfaEnabled)
             /\ k = "disable" => f \in Flags /\ f = Off
  <1> DEFINE k == requests[r].kind
             e == requests[r].enabled
  <1>1. flags \in Flags /\ e \in BOOLEAN
    BY Unfolded DEF TablesType, Request
  <1>2. ASSUME k = "confirm"
        PROVE  NewFlags(r) \in Flags /\ NewFlags(r).totpEnabled /\ NewFlags(r).mfaEnabled
    <2>1. NewFlags(r) = [flags EXCEPT !.totpEnabled = TRUE, !.mfaEnabled = TRUE]
      BY <1>2 DEF NewFlags
    <2> QED
      BY <1>1, <2>1 DEF Flags
  <1>3. ASSUME k = "register"
        PROVE  NewFlags(r) \in Flags /\ NewFlags(r).webauthnEnabled /\ NewFlags(r).mfaEnabled
    <2>1. NewFlags(r) = [flags EXCEPT !.webauthnEnabled = TRUE, !.mfaEnabled = TRUE]
      BY <1>3 DEF NewFlags
    <2> QED
      BY <1>1, <2>1 DEF Flags
  <1>4. ASSUME k = "remove"
        PROVE  NewFlags(r) \in Flags /\ NewFlags(r).mfaEnabled = (e /\ flags.mfaEnabled)
    <2>1. NewFlags(r) = [flags EXCEPT !.webauthnEnabled = FALSE, !.mfaEnabled = e /\ @]
      BY <1>4, Zenon DEF NewFlags
    <2> HIDE DEF e
    <2> QED
      BY <1>1, <2>1 DEF Flags
  <1>5. ASSUME k = "disable"
        PROVE  NewFlags(r) \in Flags /\ NewFlags(r) = Off
    BY <1>5 DEF NewFlags, Flags, Off
  <1> QED
    BY <1>2, <1>3, <1>4, <1>5

LEMMA UpdateFlagsStep ==
  ASSUME Inv, NEW r \in Requests, UpdateFlags(r)
  PROVE  Inv'
  <1> DEFINE x == requests[r]
  <1>1. /\ x.pc = "flags" /\ flags' = NewFlags(r) /\ page' = page
        /\ UNCHANGED <<totp, keys, codes, trusted>>
        /\ x.kind \in {"confirm", "register", "remove", "disable"}
        /\ x.alone => SoFar(x, Tables)
    BY Unfolded DEF UpdateFlags, At
  <1>2. flags' \in Flags
    BY <1>1, NewFlagsAre
  <1>3. TablesType(Tables')
    BY <1>1, <1>2, Unfolded, NewTablesAre DEF TablesType
  <1>4. CASE x.kind = "confirm"
    <2> DEFINE y == Moved(x, "countCodes")
    <2>1. Write(r, y)
      BY <1>4 DEF UpdateFlags, Goes, Moved
    <2>2. /\ y \in Request /\ y.pc = "countCodes" /\ y.kind = "confirm" /\ y.alone = x.alone
          /\ y.secret = x.secret
      BY <1>4, Unfolded, RequestUpdated, MovedFields DEF Steps
    <2>3. flags'.totpEnabled /\ flags'.mfaEnabled
      BY <1>1, <1>4, NewFlagsAre
    <2> HIDE DEF x, y
    <2>4. y.alone => SoFar(y, Tables')
      BY <1>1, <1>4, <2>2, <2>3, Unfolded, NewTablesAre
      DEF SoFar, DisableSoFar, RegenerateSoFar, ConfirmSoFar, RegisterSoFar, RemoveSoFar,
          StartSoFar, Past, Succeeded
    <2> QED
      BY <1>1, <1>3, <2>1, <2>2, <2>4, WriteStep
  <1>5. CASE x.kind = "register"
    <2> DEFINE y == Moved(x, "ceremonyEnd")
    <2>1. Write(r, y)
      BY <1>5 DEF UpdateFlags, Goes, Moved
    <2>2. /\ y \in Request /\ y.pc = "ceremonyEnd" /\ y.kind = "register" /\ y.alone = x.alone
      BY <1>5, Unfolded, RequestUpdated, MovedFields DEF Steps
    <2>3. flags'.webauthnEnabled /\ flags'.mfaEnabled
      BY <1>1, <1>5, NewFlagsAre
    <2> HIDE DEF x, y
    <2>4. y.alone => SoFar(y, Tables')
      BY <1>1, <1>5, <2>2, <2>3, Unfolded, NewTablesAre
      DEF SoFar, DisableSoFar, RegenerateSoFar, ConfirmSoFar, RegisterSoFar, RemoveSoFar,
          StartSoFar, Past, Succeeded
    <2> QED
      BY <1>1, <1>3, <2>1, <2>2, <2>4, WriteStep
  <1>6. CASE x.kind = "remove"
    <2>1. Write(r, Done(r))
      BY <1>6 DEF UpdateFlags
    <2>2. /\ Done(r) \in Request /\ Done(r).pc = "answered" /\ Done(r).kind = "remove"
          /\ Done(r).alone = x.alone
      BY <1>6, DoneIs
    <2>3. flags'.mfaEnabled => x.enabled
      BY <1>1, <1>6, NewFlagsAre
    <2> HIDE DEF x
    <2>4. Done(r).alone => SoFar(Done(r), Tables')
      BY <1>1, <1>6, <2>2, <2>3, Unfolded, NewTablesAre
      DEF SoFar, DisableSoFar, RegenerateSoFar, ConfirmSoFar, RegisterSoFar, RemoveSoFar,
          StartSoFar, Past, Succeeded, TablesType
    <2> QED
      BY <1>1, <1>3, <2>1, <2>2, <2>4, WriteStep
  <1>7. CASE x.kind = "disable"
    <2>1. Write(r, Done(r))
      BY <1>7 DEF UpdateFlags
    <2>2. /\ Done(r) \in Request /\ Done(r).pc = "answered" /\ Done(r).kind = "disable"
          /\ Done(r).alone = x.alone
      BY <1>7, DoneIs
    <2>3. flags' = Off
      BY <1>1, <1>7, NewFlagsAre
    <2> HIDE DEF x
    <2>4. Done(r).alone => SoFar(Done(r), Tables')
      BY <1>1, <1>7, <2>2, <2>3, Unfolded, NewTablesAre
      DEF SoFar, DisableSoFar, RegenerateSoFar, ConfirmSoFar, RegisterSoFar, RemoveSoFar,
          StartSoFar, Past, Succeeded
    <2> QED
      BY <1>1, <1>3, <2>1, <2>2, <2>4, WriteStep
  <1> QED
    BY <1>1, <1>4, <1>5, <1>6, <1>7

-----------------------------------------------------------------------------
(* Recovery codes *)

LEMMA EnsureRecoveryCodesStep ==
  ASSUME Inv, NEW r \in Requests, EnsureRecoveryCodes(r)
  PROVE  Inv'
  <1> DEFINE x == requests[r]
             y == Moved(x, "dropCodes")
  <1>1. /\ x.pc = "countCodes" /\ x.kind \in {"confirm", "register"}
        /\ UNCHANGED tables /\ page' = page
        /\ x.alone => SoFar(x, Tables)
    BY Unfolded DEF EnsureRecoveryCodes, At
  <1>2. CASE codes # {}
    <2>1. Becomes(r, Done(r))
      BY <1>2, Zenon DEF EnsureRecoveryCodes, Becomes
    <2>2. /\ Done(r) \in Request /\ Done(r).pc = "answered" /\ Done(r).kind = x.kind
          /\ Done(r).alone = x.alone /\ Done(r).secret = x.secret
      BY <1>1, DoneIs
    <2> HIDE DEF x
    <2>3. Named(Done(r)) /\ (Done(r).alone => SoFar(Done(r), Tables))
      BY <1>1, <1>2, <2>2, Unfolded
      DEF SoFar, DisableSoFar, RegenerateSoFar, ConfirmSoFar, RegisterSoFar, RemoveSoFar,
          StartSoFar, Past, Succeeded, Named
    <2> QED
      BY <1>1, <2>1, <2>2, <2>3, Unfolded, ReadStep
  <1>3. CASE codes = {}
    <2>1. Becomes(r, y)
      BY <1>3, Zenon DEF EnsureRecoveryCodes, Becomes, Goes, Moved
    <2>2. /\ y \in Request /\ y.pc = "dropCodes" /\ y.kind = x.kind
          /\ y.alone = x.alone /\ y.secret = x.secret
      BY <1>1, Unfolded, RequestUpdated, MovedFields DEF Steps
    <2> HIDE DEF x, y
    <2>3. Named(y) /\ (y.alone => SoFar(y, Tables))
      BY <1>1, <2>2
      DEF SoFar, DisableSoFar, RegenerateSoFar, ConfirmSoFar, RegisterSoFar, RemoveSoFar,
          StartSoFar, Past, Succeeded, Named
    <2> QED
      BY <1>1, <2>1, <2>2, <2>3, Unfolded, ReadStep
  <1> QED
    BY <1>2, <1>3

LEMMA DeleteRecoveryCodesStep ==
  ASSUME Inv, NEW r \in Requests, DeleteRecoveryCodes(r)
  PROVE  Inv'
  <1> DEFINE x == requests[r]
             p == IF x.kind = "disable" THEN "listKeys" ELSE "storeCodes"
             y == Moved(x, p)
  <1>1. /\ x.pc = "dropCodes" /\ x.kind \in {"confirm", "register", "regenerate", "disable"}
        /\ codes' = {} /\ UNCHANGED <<totp, keys, trusted, flags>> /\ page' = page
        /\ x.alone => SoFar(x, Tables)
    BY Unfolded DEF DeleteRecoveryCodes, DropCodes, At
  <1>2. Write(r, y)
    BY Zenon DEF DeleteRecoveryCodes, Goes, Moved
  <1>3. p \in Steps
    BY DEF Steps
  <1> HIDE DEF p
  <1>4. /\ y \in Request /\ y.pc = p /\ y.kind = x.kind
        /\ y.alone = x.alone /\ y.secret = x.secret
    <2>1. y \in Request
      BY <1>3, Unfolded, RequestUpdated
    <2> QED
      BY <2>1, Unfolded, MovedFields
  <1> HIDE DEF x, y
  <1>5. TablesType(Tables')
    BY <1>1, Unfolded, NewTablesAre DEF TablesType
  <1>6. /\ y.alone => SoFar(y, Tables')
        /\ y.pc \notin {"ceremony", "credential"}
    <2>1. CASE x.kind = "disable"
      <3>1. y.pc = "listKeys"
        BY <1>4, <2>1 DEF p
      <3> QED
        BY <1>1, <1>4, <2>1, <3>1, Unfolded, NewTablesAre
        DEF SoFar, DisableSoFar, RegenerateSoFar, ConfirmSoFar, RegisterSoFar, RemoveSoFar,
            StartSoFar, Past, Succeeded
    <2>2. CASE x.kind # "disable"
      <3>1. y.pc = "storeCodes"
        BY <1>4, <2>2 DEF p
      <3> QED
        BY <1>1, <1>4, <2>2, <3>1, Unfolded, NewTablesAre
        DEF SoFar, DisableSoFar, RegenerateSoFar, ConfirmSoFar, RegisterSoFar, RemoveSoFar,
            StartSoFar, Past, Succeeded
    <2> QED
      BY <2>1, <2>2
  <1> QED
    BY <1>1, <1>2, <1>4, <1>5, <1>6, WriteStep

LEMMA CreateRecoveryCodesStep ==
  ASSUME Inv, NEW r \in Requests, CreateRecoveryCodes(r)
  PROVE  Inv'
  <1> PICK b \in FreshBatches :
        codes' = codes \cup {b} /\ Write(r, [Done(r) EXCEPT !.batch = b])
    BY DEF CreateRecoveryCodes
  <1> DEFINE x == requests[r]
             y == WithBatch(Done(r), b)
  <1>1. /\ x.pc = "storeCodes" /\ x.kind \in {"confirm", "register", "regenerate"}
        /\ UNCHANGED <<totp, keys, trusted, flags>> /\ page' = page
        /\ x.alone => SoFar(x, Tables)
    BY Unfolded DEF CreateRecoveryCodes, At
  <1>2. Write(r, y) /\ b \in Batches
    BY DEF WithBatch, FreshBatches
  <1>3. /\ y \in Request /\ y.pc = "answered" /\ y.kind = x.kind
        /\ y.alone = x.alone /\ y.secret = x.secret /\ y.batch = b
    <2>1. y \in Request
      BY <1>2, DoneIs, RequestUpdated
    <2> QED
      BY <2>1, DoneIs, WithFields
  <1> HIDE DEF x, y
  <1>4. TablesType(Tables')
    BY <1>1, <1>2, Unfolded, NewTablesAre DEF TablesType
  <1>5. y.alone => SoFar(y, Tables')
    BY <1>1, <1>3, Unfolded, NewTablesAre
    DEF SoFar, DisableSoFar, RegenerateSoFar, ConfirmSoFar, RegisterSoFar, RemoveSoFar,
        StartSoFar, Past, Succeeded
  <1> QED
    BY <1>1, <1>2, <1>3, <1>4, <1>5, WriteStep

-----------------------------------------------------------------------------
(* Password, and the statements of disable *)

LEMMA VerifyPasswordStep ==
  ASSUME Inv, NEW r \in Requests, VerifyPassword(r)
  PROVE  Inv'
  <1> DEFINE x == requests[r]
             p == IF x.kind = "disable" THEN "dropTotp" ELSE "dropCodes"
             y == Moved(x, p)
  <1>1. x.pc = "password" /\ x.kind \in {"regenerate", "disable"} /\ (Read(r, p) \/ Refuse(r))
    BY DEF VerifyPassword, At
  <1>2. p \in Steps /\ p \in {"dropTotp", "dropCodes"} /\ (x.kind = "disable" => p = "dropTotp")
    BY DEF Steps
  <1> HIDE DEF p
  <1>3. y.pc = p /\ y.kind = x.kind
    BY Unfolded, MovedFields
  <1> HIDE DEF y, x
  <1>4. Named(y) /\ SoFar(y, Tables)
    BY <1>1, <1>2, <1>3
    DEF SoFar, DisableSoFar, RegenerateSoFar, ConfirmSoFar, RegisterSoFar, RemoveSoFar,
        StartSoFar, Past, Succeeded, Named
  <1>5. CASE Read(r, p)
    BY <1>2, <1>4, <1>5, MoveStep DEF x, y
  <1> QED
    BY <1>1, <1>5, RefuseStep

LEMMA DeleteTotpSecretStep ==
  ASSUME Inv, NEW r \in Requests, DeleteTotpSecret(r)
  PROVE  Inv'
  <1> DEFINE y == Moved(requests[r], "dropCodes")
  <1>1. /\ totp' = NoTotp /\ page' = page
        /\ UNCHANGED <<keys, codes, trusted, flags>> /\ Write(r, y)
    BY DEF DeleteTotpSecret, Goes, Moved
  <1>2. y \in Request /\ y.pc = "dropCodes" /\ y.kind = "disable"
    BY Unfolded, RequestUpdated, MovedFields DEF Steps, DeleteTotpSecret, At
  <1> HIDE DEF y
  <1>3. NoTotp \in TotpRow /\ ~NoTotp.enabled
    BY DEF NoTotp, TotpRow
  <1>4. TablesType(Tables')
    BY <1>1, <1>3, Unfolded, NewTablesAre DEF TablesType
  <1>5. SoFar(y, Tables')
    BY <1>1, <1>2, NewTablesAre
    DEF SoFar, DisableSoFar, RegenerateSoFar, ConfirmSoFar, RegisterSoFar, RemoveSoFar,
        StartSoFar, Past, Succeeded
  <1> QED
    BY <1>1, <1>2, <1>4, <1>5, WriteStep

LEMMA ListCredentialsStep ==
  ASSUME Inv, NEW r \in Requests, ListCredentials(r)
  PROVE  Inv'
  <1> DEFINE x == requests[r]
             p == IF keys = {} THEN "dropTrusted" ELSE "dropKeys"
             y == Listing(x, keys, p)
  <1>1. /\ x.pc = "listKeys" /\ x.kind = "disable" /\ UNCHANGED tables /\ page' = page
        /\ x.alone => SoFar(x, Tables)
    BY Unfolded DEF ListCredentials, At
  <1>2. /\ p \in Steps /\ keys \in SUBSET Keys /\ p \in {"dropTrusted", "dropKeys"}
        /\ p = "dropTrusted" => keys = {}
    BY Unfolded DEF Steps, TablesType
  <1> HIDE DEF p
  <1>3. y \in Request /\ y.pc = p /\ y.kind = "disable" /\ y.listed = keys /\ y.alone = x.alone
    <2>1. y \in Request
      BY <1>2, Unfolded, RequestUpdated
    <2> QED
      BY <1>1, <2>1, Unfolded, ListingFields
  <1>4. Becomes(r, y)
    BY Unfolded DEF ListCredentials, Becomes, Listing, p
  <1> HIDE DEF x, y
  <1>5. Named(y) /\ (y.alone => SoFar(y, Tables))
    BY <1>1, <1>2, <1>3, Unfolded
    DEF SoFar, DisableSoFar, RegenerateSoFar, ConfirmSoFar, RegisterSoFar, RemoveSoFar,
        StartSoFar, Past, Succeeded, Named
  <1> QED
    BY <1>1, <1>3, <1>4, <1>5, Unfolded, ReadStep

LEMMA DeleteListedStep ==
  ASSUME Inv, NEW r \in Requests, DeleteListed(r)
  PROVE  Inv'
  <1> DEFINE x == requests[r]
  <1> PICK k \in x.listed :
        /\ keys' = keys \ {k}
        /\ Write(r, [x EXCEPT !.listed = @ \ {k},
             !.pc = IF x.listed = {k} THEN "dropTrusted" ELSE "dropKeys"])
    BY DEF DeleteListed
  <1> DEFINE p == IF x.listed = {k} THEN "dropTrusted" ELSE "dropKeys"
             l == x.listed \ {k}
             y == Listing(x, l, p)
  <1>1. /\ x.pc = "dropKeys" /\ x.kind = "disable" /\ page' = page
        /\ UNCHANGED <<totp, codes, trusted, flags>>
        /\ x.alone => SoFar(x, Tables)
    BY Unfolded DEF DeleteListed, At
  <1>2. Write(r, y)
    BY Zenon DEF Listing
  <1>3. /\ p \in Steps /\ l \in SUBSET Keys /\ p \in {"dropTrusted", "dropKeys"}
        /\ p = "dropTrusted" => l = {}
    BY Unfolded DEF Steps, Request
  <1> HIDE DEF p
  <1>4. y \in Request /\ y.pc = p /\ y.kind = "disable" /\ y.listed = l /\ y.alone = x.alone
    <2> HIDE DEF l
    <2>1. y \in Request
      BY <1>3, Unfolded, RequestUpdated
    <2> QED
      BY <1>1, <2>1, Unfolded, ListingFields
  <1> HIDE DEF y
  <1>5. TablesType(Tables')
    BY <1>1, Unfolded, NewTablesAre DEF TablesType
  <1>6. x.alone => keys' \subseteq l
    BY <1>1, Unfolded DEF SoFar, DisableSoFar
  <1> HIDE DEF x, l
  <1>7. y.alone => SoFar(y, Tables')
    BY <1>1, <1>3, <1>4, <1>6, Unfolded, NewTablesAre
    DEF SoFar, DisableSoFar, RegenerateSoFar, ConfirmSoFar, RegisterSoFar, RemoveSoFar,
        StartSoFar, Past, Succeeded
  <1> QED
    BY <1>1, <1>2, <1>3, <1>4, <1>5, <1>7, WriteStep

LEMMA RevokeAllTrustedDevicesStep ==
  ASSUME Inv, NEW r \in Requests, RevokeAllTrustedDevices(r)
  PROVE  Inv'
  <1> DEFINE x == requests[r]
             y == Moved(x, "flags")
  <1>1. /\ x.pc = "dropTrusted" /\ x.kind = "disable"
        /\ trusted' = FALSE /\ page' = page
        /\ UNCHANGED <<totp, keys, codes, flags>> /\ Write(r, y)
        /\ x.alone => SoFar(x, Tables)
    BY Unfolded DEF RevokeAllTrustedDevices, Goes, Moved, At
  <1>2. y \in Request /\ y.pc = "flags" /\ y.kind = "disable" /\ y.alone = x.alone
    BY <1>1, Unfolded, RequestUpdated, MovedFields DEF Steps
  <1> HIDE DEF x, y
  <1>3. TablesType(Tables')
    BY <1>1, Unfolded, NewTablesAre DEF TablesType
  <1>4. y.alone => SoFar(y, Tables')
    BY <1>1, <1>2, Unfolded, NewTablesAre
    DEF SoFar, DisableSoFar, RegenerateSoFar, ConfirmSoFar, RegisterSoFar, RemoveSoFar,
        StartSoFar, Past, Succeeded
  <1> QED
    BY <1>1, <1>2, <1>3, <1>4, WriteStep

LEMMA RequestFailsStep ==
  ASSUME Inv, NEW r \in Requests, RequestFails(r)
  PROVE  Inv'
  BY RefuseStep DEF RequestFails

-----------------------------------------------------------------------------
(* Sign-ins, and the page *)

\* When a sign-in writes, no request is alone any more.
LEMMA OvertakeStep ==
  ASSUME Inv, requests' = [q \in Requests |-> Overtaken(requests[q])],
         TablesType(Tables'), page' = page
  PROVE  Inv'
  <1>1. \A q \in Requests : requests[q] \in Request /\ Named(requests[q])
    BY DEF Inv, TypeOK, KeysNamed
  <1>2. \A q \in Requests : Overtaken(requests[q]) \in Request
    BY <1>1, RequestUpdated
  <1>3. \A x \in Request : ~Overtaken(x).alone /\ (Named(x) => Named(Overtaken(x)))
    BY DEF Named, Request, Overtaken
  <1>4. \A q \in Requests : requests'[q].alone = FALSE /\ Named(requests'[q])
    BY <1>1, <1>3
  <1>5. TypeOK' /\ EnabledHasSecret'
    BY <1>2, NewTablesAre DEF Inv, TypeOK, EnabledHasSecret, TablesType
  <1>6. KeysNamed' /\ Progress'
    BY <1>4 DEF KeysNamed, Progress, Named
  <1> QED
    BY <1>5, <1>6 DEF Inv

LEMMA SignInUsesLastCodeStep ==
  ASSUME Inv, NEW b \in Batches, SignInUsesLastCode(b)
  PROVE  Inv'
  <1>1. /\ codes' = codes \ {b} /\ UNCHANGED <<totp, keys, trusted, flags>> /\ page' = page
        /\ requests' = [q \in Requests |-> Overtaken(requests[q])]
    BY DEF SignInUsesLastCode, Overtaken
  <1>2. TablesType(Tables) /\ Tables.codes = codes
    BY DEF Inv, TypeOK, EnabledHasSecret, TablesType, Tables
  <1>3. TablesType(Tables')
    BY <1>1, <1>2, NewTablesAre DEF Inv, TypeOK, EnabledHasSecret, TablesType
  <1> QED
    BY <1>1, <1>3, OvertakeStep

LEMMA SignInTrustsDeviceStep ==
  ASSUME Inv, SignInTrustsDevice
  PROVE  Inv'
  <1>1. /\ trusted' = TRUE /\ UNCHANGED <<totp, keys, codes, flags>> /\ page' = page
        /\ requests' = [q \in Requests |-> Overtaken(requests[q])]
    BY DEF SignInTrustsDevice, Overtaken
  <1>2. TablesType(Tables')
    BY <1>1, NewTablesAre DEF Inv, TypeOK, EnabledHasSecret, TablesType
  <1> QED
    BY <1>1, <1>2, OvertakeStep

LEMMA PageUpdated ==
  ASSUME NEW secrets, NEW shown,
         NEW p \in [totpSetup : secrets, showRecoveryCodes : shown, webauthnBusy : BOOLEAN],
         NEW s \in secrets, NEW c \in shown, NEW b \in BOOLEAN
  PROVE  /\ p.totpSetup \in secrets /\ p.showRecoveryCodes \in shown /\ p.webauthnBusy \in BOOLEAN
         /\ LET P == [totpSetup : secrets, showRecoveryCodes : shown, webauthnBusy : BOOLEAN]
            IN  /\ [p EXCEPT !.totpSetup = s] \in P
                /\ [p EXCEPT !.showRecoveryCodes = c] \in P
                /\ [p EXCEPT !.webauthnBusy = b] \in P
                /\ [p EXCEPT !.totpSetup = s, !.showRecoveryCodes = c, !.webauthnBusy = b] \in P
  OBVIOUS

\* Every field of the page may be given a value of its type.
LEMMA PageStays ==
  ASSUME Inv, NEW s \in Secrets \cup {NoSecret}, NEW c \in Batches \cup {NoBatch, "empty"},
         NEW b \in BOOLEAN
  PROVE  /\ page.totpSetup \in Secrets \cup {NoSecret}
         /\ page.showRecoveryCodes \in Batches \cup {NoBatch, "empty"}
         /\ page.webauthnBusy \in BOOLEAN
         /\ [page EXCEPT !.totpSetup = s] \in Page
         /\ [page EXCEPT !.showRecoveryCodes = c] \in Page
         /\ [page EXCEPT !.webauthnBusy = b] \in Page
         /\ [page EXCEPT !.totpSetup = s, !.showRecoveryCodes = c, !.webauthnBusy = b] \in Page
  <1> DEFINE secrets == Secrets \cup {NoSecret}
             shown == Batches \cup {NoBatch, "empty"}
  <1>1. Page = [totpSetup : secrets, showRecoveryCodes : shown, webauthnBusy : BOOLEAN]
    BY Zenon DEF Page
  <1>2. page \in Page /\ s \in secrets /\ c \in shown
    BY DEF Inv, TypeOK
  <1> HIDE DEF secrets, shown
  <1>3. /\ page.totpSetup \in secrets /\ page.showRecoveryCodes \in shown
        /\ page.webauthnBusy \in BOOLEAN
        /\ [page EXCEPT !.totpSetup = s] \in Page
        /\ [page EXCEPT !.showRecoveryCodes = c] \in Page
        /\ [page EXCEPT !.webauthnBusy = b] \in Page
        /\ [page EXCEPT !.totpSetup = s, !.showRecoveryCodes = c, !.webauthnBusy = b] \in Page
    BY <1>1, <1>2, PageUpdated
  <1> QED
    BY <1>3, Zenon DEF secrets, shown

LEMMA ClickStep ==
  ASSUME Inv, NEW r \in Requests, NEW kind \in Kinds, NEW k \in Keys \cup {NoKey},
         Click(r, kind, k)
  PROVE  Inv'
  <1> DEFINE s == IF kind = "confirm" THEN page.totpSetup ELSE NoSecret
             b == page.webauthnBusy \/ kind = "register"
             y == Clicked(Idle, FirstStep(kind), kind, k, s)
  <1>1. Becomes(r, y) /\ UNCHANGED tables /\ page' = [page EXCEPT !.webauthnBusy = b]
    BY Zenon DEF Click, Becomes, Clicked
  <1>2. page.totpSetup \in Secrets \cup {NoSecret} /\ page.webauthnBusy \in BOOLEAN
    BY DEF Inv, TypeOK, Page
  <1>3. s \in Secrets \cup {NoSecret} /\ b \in BOOLEAN
    BY <1>2
  <1> HIDE DEF s, b
  <1>4. page' \in Page
    BY <1>1, <1>3, PageStays
  <1>5. /\ FirstStep(kind) \in Steps
        /\ FirstStep(kind) \in {"upsert", "readTotp", "ceremony", "find", "password"}
        /\ kind = "confirm" <=> FirstStep(kind) = "readTotp"
        /\ kind = "register" => k # NoKey
    BY MfaSettingsConstants DEF FirstStep, Kinds, Steps, Click
  <1>6. y \in Request
    BY <1>3, <1>5, IdleIs, RequestUpdated
  <1>7. y.pc = FirstStep(kind) /\ y.kind = kind /\ y.key = k /\ ~y.ok
    BY ClickedFields
  <1> HIDE DEF y
  <1>8. Named(y) /\ SoFar(y, Tables)
    BY <1>5, <1>7
    DEF SoFar, DisableSoFar, RegenerateSoFar, ConfirmSoFar, RegisterSoFar, RemoveSoFar,
        StartSoFar, Past, Succeeded, Named
  <1> QED
    BY <1>1, <1>4, <1>6, <1>8, ReadStep

LEMMA DeliverStep ==
  ASSUME Inv, NEW r \in Requests, Deliver(r)
  PROVE  Inv'
  <1> DEFINE q == requests[r]
             s == IF ~q.ok THEN page.totpSetup
                  ELSE IF q.kind = "start" THEN q.secret
                  ELSE IF q.kind = "confirm" THEN NoSecret ELSE page.totpSetup
             c == IF q.ok /\ q.kind \in {"confirm", "register", "regenerate"}
                  THEN Shown(q) ELSE page.showRecoveryCodes
             b == page.webauthnBusy /\ q.kind # "register"
  <1>1. /\ Becomes(r, Idle) /\ UNCHANGED tables
        /\ page' = [page EXCEPT !.totpSetup = s, !.showRecoveryCodes = c, !.webauthnBusy = b]
    BY Zenon DEF Deliver, Becomes
  <1>2. /\ page.totpSetup \in Secrets \cup {NoSecret} /\ page.webauthnBusy \in BOOLEAN
        /\ page.showRecoveryCodes \in Batches \cup {NoBatch, "empty"}
    BY DEF Inv, TypeOK, Page
  <1>3. q.secret \in Secrets \cup {NoSecret} /\ Shown(q) \in Batches \cup {NoBatch, "empty"}
    BY Unfolded DEF Request, Shown
  <1>4. /\ s \in Secrets \cup {NoSecret} /\ b \in BOOLEAN
        /\ c \in Batches \cup {NoBatch, "empty"}
    BY <1>2, <1>3
  <1> HIDE DEF s, c, b
  <1>5. page' \in Page
    BY <1>1, <1>4, PageStays
  <1>6. Named(Idle) /\ Idle \in Request /\ ~Idle.alone
    BY IdleIs DEF Named, Idle
  <1> QED
    BY <1>1, <1>5, <1>6, ReadStep

\* What touches only the page.
LEMMA PageOnly ==
  ASSUME Inv, UNCHANGED <<tables, requests>>, page' \in Page
  PROVE  Inv'
  BY DEF Inv, TypeOK, EnabledHasSecret, KeysNamed, Progress, Tables, tables

LEMMA CancelSetupStep ==
  ASSUME Inv, CancelSetup
  PROVE  Inv'
  <1>1. page' \in Page
    BY PageStays DEF CancelSetup
  <1> QED
    BY <1>1, PageOnly DEF CancelSetup

LEMMA DismissCodesStep ==
  ASSUME Inv, DismissCodes
  PROVE  Inv'
  <1>1. page' \in Page
    BY PageStays DEF DismissCodes
  <1> QED
    BY <1>1, PageOnly DEF DismissCodes

-----------------------------------------------------------------------------
(* The theorems *)

LEMMA InitInv == Init => Inv
  <1> SUFFICES ASSUME Init PROVE Inv
    OBVIOUS
  <1>1. NoTotp \in TotpRow /\ ~NoTotp.enabled /\ Off \in Flags
    BY DEF NoTotp, TotpRow, Off, Flags
  <1>2. page \in Page
    BY DEF Init, Page
  <1>3. \A r \in Requests : requests[r] = Idle
    BY DEF Init
  <1>4. TypeOK
    BY <1>1, <1>2, IdleIs DEF Init, TypeOK
  <1>5. EnabledHasSecret
    BY <1>1 DEF Init, EnabledHasSecret
  <1>6. KeysNamed /\ Progress
    BY <1>3, IdleIs DEF KeysNamed, Named, Progress, Idle
  <1> QED
    BY <1>4, <1>5, <1>6 DEF Inv

LEMMA StatementStep ==
  ASSUME Inv, NEW r \in Requests, Statement(r)
  PROVE  Inv'
  <1>1. CASE \/ UpsertPendingTotpSecret(r) \/ CheckEnrolmentCode(r) \/ EnableTotp(r)
             \/ EnableTotpThrows(r)
    BY <1>1, UpsertStep, CheckEnrolmentCodeStep, EnableTotpStep, RefuseStep
    DEF EnableTotpThrows
  <1>2. CASE \/ CheckCeremony(r) \/ CreateCredential(r) \/ DeleteCeremony(r)
             \/ FindCredential(r) \/ DeleteCredential(r)
    BY <1>2, CheckCeremonyStep, CreateCredentialStep, DeleteCeremonyStep, FindCredentialStep,
       DeleteCredentialStep
  <1>3. CASE CountCredentials(r) \/ ReadTotpSecret(r) \/ UpdateFlags(r)
    BY <1>3, CountCredentialsStep, ReadTotpSecretStep, UpdateFlagsStep
  <1>4. CASE \/ EnsureRecoveryCodes(r) \/ DeleteRecoveryCodes(r) \/ CreateRecoveryCodes(r)
    BY <1>4, EnsureRecoveryCodesStep, DeleteRecoveryCodesStep, CreateRecoveryCodesStep
  <1>5. CASE \/ VerifyPassword(r) \/ DeleteTotpSecret(r) \/ ListCredentials(r)
             \/ DeleteListed(r) \/ RevokeAllTrustedDevices(r)
    BY <1>5, VerifyPasswordStep, DeleteTotpSecretStep, ListCredentialsStep, DeleteListedStep,
       RevokeAllTrustedDevicesStep
  <1> QED
    BY <1>1, <1>2, <1>3, <1>4, <1>5 DEF Statement

LEMMA NextInv == Inv /\ [Next]_vars => Inv'
  <1> SUFFICES ASSUME Inv, [Next]_vars PROVE Inv'
    OBVIOUS
  <1>1. ASSUME NEW r \in Requests, Statement(r)
        PROVE  Inv'
    BY <1>1, StatementStep
  <1>2. ASSUME NEW r \in Requests, RequestFails(r) \/ Deliver(r)
        PROVE  Inv'
    BY <1>2, RequestFailsStep, DeliverStep
  <1>3. ASSUME NEW b \in Batches, SignInUsesLastCode(b)
        PROVE  Inv'
    BY <1>3, SignInUsesLastCodeStep
  <1>4. CASE SignInTrustsDevice
    BY <1>4, SignInTrustsDeviceStep
  <1>5. ASSUME NEW r \in Requests, NEW kind \in Kinds, NEW k \in Keys \cup {NoKey},
               Click(r, kind, k)
        PROVE  Inv'
    BY <1>5, ClickStep
  <1>6. CASE CancelSetup \/ DismissCodes
    BY <1>6, CancelSetupStep, DismissCodesStep
  <1>7. CASE UNCHANGED vars
    BY <1>7, PageOnly DEF Inv, TypeOK, vars
  <1> QED
    BY <1>1, <1>2, <1>3, <1>4, <1>5, <1>6, <1>7 DEF Next

\* What an operation that nothing disturbs has achieved by each of its steps
\* holds in every reachable state, whichever requests ran or failed before.
THEOREM ProgressMade == Spec => []Inv
  BY InitInv, NextInv, PTL DEF Spec

\* Every variable keeps its type: an update of the users row names the flags
\* it sets and drops none.
THEOREM TypeCorrect == Spec => []TypeOK
  <1>1. Inv => TypeOK
    BY DEF Inv
  <1> QED
    BY <1>1, ProgressMade, PTL

\* disable, if it succeeds undisturbed, leaves no factor, no code, no trusted
\* device and no flag, whatever earlier requests had left half done.
THEOREM DisableLeavesNothing == Spec => []DisableCleans
  <1>1. Inv => DisableCleans
    <2> SUFFICES ASSUME Inv, NEW r \in Requests, Undisturbed(r, {"disable"})
                 PROVE  totp = NoTotp /\ keys = {} /\ codes = {} /\ ~trusted /\ flags = Off
      BY DEF DisableCleans
    <2> QED
      BY Unfolded DEF Undisturbed, At, SoFar, DisableSoFar, Past, Succeeded
  <1> QED
    BY <1>1, ProgressMade, PTL

\* regenerate, if it succeeds undisturbed, leaves the batch it returns and no
\* other, whatever batches earlier requests had left.
THEOREM RegenerateLeavesOneBatch == Spec => []RegenerateReplaces
  <1>1. Inv => RegenerateReplaces
    <2> SUFFICES ASSUME Inv, NEW r \in Requests, Undisturbed(r, {"regenerate"})
                 PROVE  codes = {requests[r].batch}
      BY DEF RegenerateReplaces
    <2> QED
      BY Unfolded DEF Undisturbed, At, SoFar, RegenerateSoFar, Succeeded
  <1> QED
    BY <1>1, ProgressMade, PTL

\* An enrolment that succeeds undisturbed has set the flags, stored the factor
\* that was presented, and left recovery codes.
THEOREM EnrolmentIsComplete == Spec => []EnrolmentProtects
  <1>1. Inv => EnrolmentProtects
    <2> SUFFICES ASSUME Inv, NEW r \in Requests, Undisturbed(r, {"confirm", "register"})
                 PROVE  /\ flags.mfaEnabled /\ codes # {}
                        /\ requests[r].kind = "confirm" =>
                             /\ flags.totpEnabled
                             /\ totp = [secret |-> requests[r].secret, enabled |-> TRUE]
                        /\ requests[r].kind = "register" => flags.webauthnEnabled /\ keys # {}
      BY DEF EnrolmentProtects
    <2>1. SoFar(requests[r], Tables) /\ Succeeded(requests[r])
      BY Unfolded DEF Undisturbed, At, Succeeded
    <2>2. CASE requests[r].kind = "confirm"
      <3>1. totp.secret = requests[r].secret /\ totp.enabled
        BY <2>1, <2>2, Unfolded DEF SoFar, ConfirmSoFar, Past
      <3>2. totp = [secret |-> requests[r].secret, enabled |-> TRUE]
        BY <3>1, Unfolded DEF TablesType, TotpRow
      <3> QED
        BY <2>1, <2>2, <3>2, Unfolded DEF SoFar, ConfirmSoFar, Past
    <2>3. CASE requests[r].kind = "register"
      BY <2>1, <2>3, Unfolded DEF SoFar, RegisterSoFar, Past
    <2> QED
      BY <2>2, <2>3 DEF Undisturbed, At
  <1> QED
    BY <1>1, ProgressMade, PTL

\* Whichever operation succeeded undisturbed, sign-in asks for a second factor
\* only if the user has one left to present.
THEOREM NoLockOut == Spec => []WayIn
  <1>1. Inv => WayIn
    <2> SUFFICES ASSUME Inv, NEW r \in Requests, Undisturbed(r, Kinds), flags.mfaEnabled
                 PROVE  totp.secret # NoSecret \/ keys # {} \/ codes # {}
      BY DEF WayIn
    <2>1. SoFar(requests[r], Tables) /\ Succeeded(requests[r])
      BY Unfolded DEF Undisturbed, At, Succeeded
    <2>2. requests[r].kind \in {"start", "confirm", "register", "remove", "regenerate", "disable"}
      BY Unfolded DEF Kinds
    <2> QED
      BY <2>1, <2>2, Unfolded
      DEF SoFar, DisableSoFar, RegenerateSoFar, ConfirmSoFar, RegisterSoFar, RemoveSoFar,
          StartSoFar, Past, Off
  <1> QED
    BY <1>1, ProgressMade, PTL

\* A removal of a key that nobody disturbs never turns MFA off for a user
\* whose authenticator is enabled.  One that confirms an enrolment between
\* the removal's read of the authenticator and its last statement disturbs it.
THEOREM LastKeyKeepsMfa == Spec => RemoveKeepsMfa
  <1>1. Inv /\ [Next]_vars =>
          [\A r \in Requests :
             /\ At(r, "flags", {"remove"}) /\ requests[r].alone /\ requests'[r].pc = "answered"
             /\ totp.enabled /\ flags.mfaEnabled
             => flags'.mfaEnabled]_vars
    <2> SUFFICES ASSUME Inv, Next, NEW r \in Requests,
                        At(r, "flags", {"remove"}), requests[r].alone,
                        requests'[r].pc = "answered", totp.enabled, flags.mfaEnabled
                 PROVE  flags'.mfaEnabled
      OBVIOUS
    <2>1. CASE \E q \in Requests : UpdateFlags(q)
      <3> PICK q \in Requests : UpdateFlags(q)
        BY <2>1
      <3>1. q = r
        <4> SUFFICES ASSUME q # r PROVE FALSE
          OBVIOUS
        <4>1. requests'[r] = Overtaken(requests[r])
          BY DEF UpdateFlags, Write, Overtaken
        <4>2. Overtaken(requests[r]).pc = "flags"
          BY Unfolded DEF Overtaken, Request, At
        <4> QED
          BY <4>1, <4>2
      <3>2. SoFar(requests[r], Tables) /\ requests[r].pc = "flags" /\ requests[r].kind = "remove"
        BY Unfolded DEF At
      <3>3. requests[r].enabled <=> totp.enabled
        BY <3>2, Unfolded DEF SoFar, RemoveSoFar
      <3>4. flags' = NewFlags(r)
        BY <3>1 DEF UpdateFlags
      <3> QED
        BY <3>2, <3>3, <3>4, NewFlagsAre
    <2>2. CASE ~\E q \in Requests : UpdateFlags(q)
      <3>1. flags' = flags
        BY <2>2 DEF Next, Statement, UpsertPendingTotpSecret, CheckEnrolmentCode, EnableTotp,
          EnableTotpThrows, CheckCeremony, CreateCredential, DeleteCeremony, FindCredential,
          DeleteCredential, CountCredentials, ReadTotpSecret, EnsureRecoveryCodes,
          DeleteRecoveryCodes, CreateRecoveryCodes, VerifyPassword, DeleteTotpSecret,
          ListCredentials, DeleteListed, RevokeAllTrustedDevices, RequestFails, Deliver,
          SignInUsesLastCode, SignInTrustsDevice, Click, CancelSetup, DismissCodes, Read,
          Refuse, tables
      <3> QED
        BY <3>1
    <2> QED
      BY <2>1, <2>2
  <1> QED
    BY <1>1, ProgressMade, PTL DEF Spec, RemoveKeepsMfa
=============================================================================
