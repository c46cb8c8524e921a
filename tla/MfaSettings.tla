----------------------------- MODULE MfaSettings -----------------------------
(***************************************************************************)
(* The second factors of one account: the enrolment, recovery-code and     *)
(* disable operations of MfaService over the tables of mfa.repository, and *)
(* the security page that calls them.                                      *)
(*                                                                         *)
(* Every operation is several statements without a transaction.  A request *)
(* is a record with a step field; an action is one statement, so that      *)
(* other requests run in between, and a request may fail before any of its *)
(* statements.  Secrets and batches of recovery codes are names; a batch   *)
(* stands for its unused codes.  The password of regenerate and disable is *)
(* right or wrong by choice.  The audit trail is left out.                 *)
(***************************************************************************)
EXTENDS Integers, FiniteSets

CONSTANTS
  Secrets, NoSecret,     \* what generateTotpSecret may draw
  Batches, NoBatch,      \* what regenerateRecoveryCodes may draw
  Keys, NoKey,           \* the user's security keys
  Requests               \* slots for concurrent requests

ASSUME MfaSettingsConstants ==
  NoSecret \notin Secrets /\ NoBatch \notin Batches /\ NoKey \notin Keys

VARIABLES
  totp,       \* the totp_secrets row
  keys,       \* the webauthn_credentials rows
  codes,      \* batches with a row in recovery_codes that is not used
  trusted,    \* is there a trusted_devices row?
  flags,      \* totpEnabled, webauthnEnabled, mfaEnabled of the users row
  requests,   \* requests in flight
  page        \* the security page

tables == <<totp, keys, codes, trusted, flags>>

vars == <<tables, requests, page>>

-----------------------------------------------------------------------------
(* Types *)

TotpRow == [secret : Secrets \cup {NoSecret}, enabled : BOOLEAN]

NoTotp == [secret |-> NoSecret, enabled |-> FALSE]

Flags == [totpEnabled : BOOLEAN, webauthnEnabled : BOOLEAN, mfaEnabled : BOOLEAN]

Off == [totpEnabled |-> FALSE, webauthnEnabled |-> FALSE, mfaEnabled |-> FALSE]

Kinds == {"start", "confirm", "register", "remove", "regenerate", "disable"}

\* secret: the one drawn, or the one whose code was typed.  listed: the keys
\* disable has listed and not deleted yet.  last, enabled: what remove has
\* read.  alone (history): nothing else has written since the request began.
Request ==
  [pc : {"idle", "password", "upsert", "readTotp", "enable", "ceremony", "credential",
         "flags", "ceremonyEnd", "countCodes", "dropCodes", "storeCodes", "find",
         "dropKey", "countKeys", "dropTotp", "listKeys", "dropKeys", "dropTrusted",
         "answered"},
   kind : Kinds, secret : Secrets \cup {NoSecret}, batch : Batches \cup {NoBatch},
   key : Keys \cup {NoKey}, listed : SUBSET Keys, last : BOOLEAN, enabled : BOOLEAN,
   alone : BOOLEAN, ok : BOOLEAN]

Idle == [pc |-> "idle", kind |-> "start", secret |-> NoSecret, batch |-> NoBatch,
         key |-> NoKey, listed |-> {}, last |-> FALSE, enabled |-> FALSE,
         alone |-> FALSE, ok |-> FALSE]

\* totpSetup: the secret shown as a QR code.  showRecoveryCodes: the batch
\* shown, "empty" for the list [].  The status, which says which sections have
\* which buttons, may be as old as the page: any button may be there.
Page ==
  [totpSetup : Secrets \cup {NoSecret},
   showRecoveryCodes : Batches \cup {NoBatch, "empty"}, webauthnBusy : BOOLEAN]

\* Every variable has its type: an update of the flags leaves a flag it does
\* not name as it is, and drops none.
TypeOK ==
  /\ totp \in TotpRow
  /\ keys \in SUBSET Keys
  /\ codes \in SUBSET Batches
  /\ trusted \in BOOLEAN
  /\ flags \in Flags
  /\ requests \in [Requests -> Request]
  /\ page \in Page

Init ==
  /\ totp = NoTotp
  /\ keys = {}
  /\ codes = {}
  /\ trusted = FALSE
  /\ flags = Off
  /\ requests = [r \in Requests |-> Idle]
  /\ page = [totpSetup |-> NoSecret, showRecoveryCodes |-> NoBatch, webauthnBusy |-> FALSE]

-----------------------------------------------------------------------------
(* Steps of a request *)

At(r, step, kinds) == requests[r].pc = step /\ requests[r].kind \in kinds

\* A read: r goes on.
Read(r, step) ==
  /\ requests' = [requests EXCEPT ![r].pc = step]
  /\ UNCHANGED <<tables, page>>

Refuse(r) ==
  /\ requests' = [requests EXCEPT ![r] =
       [Idle EXCEPT !.pc = "answered", !.kind = requests[r].kind]]
  /\ UNCHANGED <<tables, page>>

\* A write: r goes on as q, and no other request is alone any more.
Write(r, q) ==
  requests' = [x \in Requests |->
    IF x = r THEN q ELSE [requests[x] EXCEPT !.alone = FALSE]]

Goes(r, step) == [requests[r] EXCEPT !.pc = step]

Done(r) ==
  [Idle EXCEPT !.pc = "answered", !.ok = TRUE, !.kind = requests[r].kind,
               !.secret = requests[r].secret, !.alone = requests[r].alone]

\* Secrets and batches that nothing stands for.
FreshSecrets ==
  {s \in Secrets : /\ totp.secret # s /\ page.totpSetup # s
                   /\ \A r \in Requests : requests[r].secret # s}

FreshBatches ==
  {b \in Batches : /\ b \notin codes /\ page.showRecoveryCodes # b
                   /\ \A r \in Requests : requests[r].batch # b}

-----------------------------------------------------------------------------
(* The authenticator *)

\* upsertPendingTotpSecret: the row is overwritten, enabled or not.
UpsertPendingTotpSecret(r) ==
  /\ At(r, "upsert", {"start"})
  /\ \E s \in FreshSecrets :
       /\ totp' = [secret |-> s, enabled |-> FALSE]
       /\ Write(r, [Done(r) EXCEPT !.secret = s])
  /\ UNCHANGED <<keys, codes, trusted, flags, page>>

\* Mutation: any stored secret will do.
CodeAcceptedAnyway(r) == totp.secret # NoSecret

\* verifyTotp against the secret read now.
CodeAccepted(r) == totp.secret # NoSecret /\ totp.secret = requests[r].secret

CheckEnrolmentCode(r) ==
  /\ At(r, "readTotp", {"confirm"})
  /\ IF CodeAccepted(r) THEN Read(r, "enable") ELSE Refuse(r)

\* enableTotp: the row by its user, whichever secret it holds by now; it
\* throws when there is none.
EnableTotp(r) ==
  /\ At(r, "enable", {"confirm"})
  /\ totp.secret # NoSecret
  /\ totp' = [totp EXCEPT !.enabled = TRUE]
  /\ Write(r, Goes(r, "flags"))
  /\ UNCHANGED <<keys, codes, trusted, flags, page>>

EnableTotpThrows(r) ==
  /\ At(r, "enable", {"confirm"})
  /\ totp.secret = NoSecret
  /\ Refuse(r)

-----------------------------------------------------------------------------
(* Security keys *)

\* The registration ceremony: the key is not one of those excluded, and the
\* cache entry is there, or the ceremony has lapsed.
CheckCeremony(r) ==
  /\ At(r, "ceremony", {"register"})
  /\ \/ Read(r, "credential")
     \/ Refuse(r)

\* credentialId is unique.
CreateCredential(r) ==
  LET k == requests[r].key
  IN  /\ At(r, "credential", {"register"})
      /\ IF k \in keys
         THEN Refuse(r)
         ELSE /\ keys' = keys \cup {k}
              /\ Write(r, Goes(r, "flags"))
              /\ UNCHANGED <<totp, codes, trusted, flags, page>>

DeleteCeremony(r) ==
  /\ At(r, "ceremonyEnd", {"register"})
  /\ Read(r, "countCodes")

FindCredential(r) ==
  /\ At(r, "find", {"remove"})
  /\ IF requests[r].key \in keys THEN Read(r, "dropKey") ELSE Refuse(r)

DeleteCredential(r) ==
  /\ At(r, "dropKey", {"remove"})
  /\ keys' = keys \ {requests[r].key}
  /\ Write(r, Goes(r, "countKeys"))
  /\ UNCHANGED <<totp, codes, trusted, flags, page>>

\* Mutation: the keys are counted before the deletion.
CountBeforeDeletion(r) ==
  /\ At(r, "countKeys", {"remove"})
  /\ Read(r, "readTotp")

CountCredentials(r) ==
  /\ At(r, "countKeys", {"remove"})
  /\ requests' = [requests EXCEPT ![r].pc = "readTotp", ![r].last = keys = {}]
  /\ UNCHANGED <<tables, page>>

\* The last statement is skipped when a key is left.
ReadTotpSecret(r) ==
  /\ At(r, "readTotp", {"remove"})
  /\ requests' = [requests EXCEPT ![r] =
       IF requests[r].last THEN [Goes(r, "flags") EXCEPT !.enabled = totp.enabled] ELSE Done(r)]
  /\ UNCHANGED <<tables, page>>

-----------------------------------------------------------------------------
(* The flags of the users row *)

\* Mutation: remove does not look at the authenticator.
NewFlagsKeysOnly(r) ==
  LET q == requests[r]
  IN  CASE q.kind = "confirm" -> [flags EXCEPT !.totpEnabled = TRUE, !.mfaEnabled = TRUE]
        [] q.kind = "register" -> [flags EXCEPT !.webauthnEnabled = TRUE, !.mfaEnabled = TRUE]
        [] q.kind = "remove" -> [flags EXCEPT !.webauthnEnabled = FALSE, !.mfaEnabled = FALSE]
        [] q.kind = "disable" -> Off

\* Mutation: the row is replaced.
NewFlagsOnly(r) == [mfaEnabled |-> requests[r].kind \in {"confirm", "register"}]

NewFlags(r) ==
  LET q == requests[r]
  IN  CASE q.kind = "confirm" -> [flags EXCEPT !.totpEnabled = TRUE, !.mfaEnabled = TRUE]
        [] q.kind = "register" -> [flags EXCEPT !.webauthnEnabled = TRUE, !.mfaEnabled = TRUE]
        [] q.kind = "remove" -> [flags EXCEPT !.webauthnEnabled = FALSE,
                                              !.mfaEnabled = q.enabled /\ @]
        [] q.kind = "disable" -> Off

UpdateFlags(r) ==
  /\ At(r, "flags", {"confirm", "register", "remove", "disable"})
  /\ flags' = NewFlags(r)
  /\ Write(r, CASE requests[r].kind = "confirm" -> Goes(r, "countCodes")
                [] requests[r].kind = "register" -> Goes(r, "ceremonyEnd")
                [] OTHER -> Done(r))
  /\ UNCHANGED <<totp, keys, codes, trusted, page>>

-----------------------------------------------------------------------------
(* Recovery codes *)

\* ensureRecoveryCodes: nothing is issued while a code is unused.
EnsureRecoveryCodes(r) ==
  /\ At(r, "countCodes", {"confirm", "register"})
  /\ requests' = [requests EXCEPT ![r] = IF codes # {} THEN Done(r) ELSE Goes(r, "dropCodes")]
  /\ UNCHANGED <<tables, page>>

\* Mutation: the old batch is kept until its codes are used.
DropCodesKeeps(r) == codes

DropCodes(r) == {}

DeleteRecoveryCodes(r) ==
  /\ At(r, "dropCodes", {"confirm", "register", "regenerate", "disable"})
  /\ codes' = DropCodes(r)
  /\ Write(r, Goes(r, IF requests[r].kind = "disable" THEN "listKeys" ELSE "storeCodes"))
  /\ UNCHANGED <<totp, keys, trusted, flags, page>>

CreateRecoveryCodes(r) ==
  /\ At(r, "storeCodes", {"confirm", "register", "regenerate"})
  /\ \E b \in FreshBatches :
       /\ codes' = codes \cup {b}
       /\ Write(r, [Done(r) EXCEPT !.batch = b])
  /\ UNCHANGED <<totp, keys, trusted, flags, page>>

-----------------------------------------------------------------------------
(* Password, and the statements of disable *)

VerifyPassword(r) ==
  /\ At(r, "password", {"regenerate", "disable"})
  /\ \/ Read(r, IF requests[r].kind = "disable" THEN "dropTotp" ELSE "dropCodes")
     \/ Refuse(r)

DeleteTotpSecret(r) ==
  /\ At(r, "dropTotp", {"disable"})
  /\ totp' = NoTotp
  /\ Write(r, Goes(r, "dropCodes"))
  /\ UNCHANGED <<keys, codes, trusted, flags, page>>

ListCredentials(r) ==
  /\ At(r, "listKeys", {"disable"})
  /\ requests' = [requests EXCEPT ![r].listed = keys,
       ![r].pc = IF keys = {} THEN "dropTrusted" ELSE "dropKeys"]
  /\ UNCHANGED <<tables, page>>

\* One statement for each key listed.
DeleteListed(r) ==
  /\ At(r, "dropKeys", {"disable"})
  /\ \E k \in requests[r].listed :
       /\ keys' = keys \ {k}
       /\ Write(r, [requests[r] EXCEPT !.listed = @ \ {k},
            !.pc = IF requests[r].listed = {k} THEN "dropTrusted" ELSE "dropKeys"])
  /\ UNCHANGED <<totp, codes, trusted, flags, page>>

\* Mutation: disable leaves the trusted devices.
RevokeTrustedDevicesLater(r) ==
  /\ At(r, "dropTrusted", {"disable"})
  /\ Read(r, "flags")

RevokeAllTrustedDevices(r) ==
  /\ At(r, "dropTrusted", {"disable"})
  /\ trusted' = FALSE
  /\ Write(r, Goes(r, "flags"))
  /\ UNCHANGED <<totp, keys, codes, flags, page>>

\* A statement fails, or its answer does not come back in time.
RequestFails(r) ==
  /\ requests[r].pc \notin {"idle", "answered"}
  /\ Refuse(r)

-----------------------------------------------------------------------------
(* Sign-ins with a second factor (module MfaLogin) use a code up and trust a *)
(* device.                                                                   *)

SignInUsesLastCode(b) ==
  /\ flags.mfaEnabled /\ b \in codes
  /\ codes' = codes \ {b}
  /\ requests' = [x \in Requests |-> [requests[x] EXCEPT !.alone = FALSE]]
  /\ UNCHANGED <<totp, keys, trusted, flags, page>>

SignInTrustsDevice ==
  /\ flags.mfaEnabled /\ ~trusted
  /\ trusted' = TRUE
  /\ requests' = [x \in Requests |-> [requests[x] EXCEPT !.alone = FALSE]]
  /\ UNCHANGED <<totp, keys, codes, flags, page>>

-----------------------------------------------------------------------------
(* The security page *)

\* Only the registration of a key disables its button while it is under way.
\* The dialog that asks for the password stays open until an answer closes it.
Enabled(kind) ==
  CASE kind = "start" -> page.totpSetup = NoSecret
    [] kind = "confirm" -> page.totpSetup # NoSecret
    [] kind = "register" -> ~page.webauthnBusy
    [] OTHER -> TRUE

FirstStep(kind) ==
  CASE kind = "start" -> "upsert" [] kind = "confirm" -> "readTotp"
    [] kind = "register" -> "ceremony" [] kind = "remove" -> "find"
    [] kind \in {"regenerate", "disable"} -> "password"

\* register: the key answers the options of a first call, which excludes the
\* keys registered by then.
Click(r, kind, k) ==
  /\ requests[r].pc = "idle"
  /\ Enabled(kind)
  /\ CASE kind = "register" -> k \in Keys \ keys
       [] kind = "remove" -> k # NoKey
       [] OTHER -> k = NoKey
  /\ requests' = [requests EXCEPT ![r] =
       [Idle EXCEPT !.pc = FirstStep(kind), !.kind = kind, !.key = k, !.alone = TRUE,
                    !.secret = IF kind = "confirm" THEN page.totpSetup ELSE NoSecret]]
  /\ page' = [page EXCEPT !.webauthnBusy = @ \/ kind = "register"]
  /\ UNCHANGED tables

CancelSetup ==
  /\ page.totpSetup # NoSecret
  /\ page' = [page EXCEPT !.totpSetup = NoSecret]
  /\ UNCHANGED <<tables, requests>>

DismissCodes ==
  /\ page.showRecoveryCodes # NoBatch
  /\ page' = [page EXCEPT !.showRecoveryCodes = NoBatch]
  /\ UNCHANGED <<tables, requests>>

Shown(q) == IF q.batch = NoBatch THEN "empty" ELSE q.batch

\* What the page does with a success; a failure is a toast.
Deliver(r) ==
  LET q == requests[r]
  IN  /\ q.pc = "answered"
      /\ requests' = [requests EXCEPT ![r] = Idle]
      /\ page' = [page EXCEPT
           !.totpSetup = IF ~q.ok THEN @
                         ELSE IF q.kind = "start" THEN q.secret
                         ELSE IF q.kind = "confirm" THEN NoSecret ELSE @,
           !.showRecoveryCodes = IF q.ok /\ q.kind \in {"confirm", "register", "regenerate"}
                                 THEN Shown(q) ELSE @,
           !.webauthnBusy = @ /\ q.kind # "register"]
      /\ UNCHANGED tables

-----------------------------------------------------------------------------
Statement(r) ==
  \/ UpsertPendingTotpSecret(r) \/ CheckEnrolmentCode(r) \/ EnableTotp(r) \/ EnableTotpThrows(r)
  \/ CheckCeremony(r) \/ CreateCredential(r) \/ DeleteCeremony(r)
  \/ FindCredential(r) \/ DeleteCredential(r) \/ CountCredentials(r) \/ ReadTotpSecret(r)
  \/ UpdateFlags(r) \/ EnsureRecoveryCodes(r) \/ DeleteRecoveryCodes(r) \/ CreateRecoveryCodes(r)
  \/ VerifyPassword(r) \/ DeleteTotpSecret(r) \/ ListCredentials(r) \/ DeleteListed(r)
  \/ RevokeAllTrustedDevices(r)

Next ==
  \/ \E r \in Requests : Statement(r) \/ RequestFails(r) \/ Deliver(r)
  \/ \E b \in Batches : SignInUsesLastCode(b)
  \/ SignInTrustsDevice
  \/ \E r \in Requests, kind \in Kinds, k \in Keys \cup {NoKey} : Click(r, kind, k)
  \/ CancelSetup \/ DismissCodes

Spec == Init /\ [][Next]_vars

-----------------------------------------------------------------------------
(* Properties.  Requests overlap and fail, so the tables can be left in many *)
(* states; what an operation promises must hold from each of them, provided  *)
(* that nothing else wrote while it ran and that it was answered.            *)

Undisturbed(r, kinds) ==
  At(r, "answered", kinds) /\ requests[r].ok /\ requests[r].alone

\* "Removes all second factors, security keys, and recovery codes", and the
\* trusted devices: whatever earlier requests left half done, disable leaves
\* nothing that asks for a second factor or skips one.
DisableCleans ==
  \A r \in Requests : Undisturbed(r, {"disable"}) =>
    totp = NoTotp /\ keys = {} /\ codes = {} /\ ~trusted /\ flags = Off

\* "The previous recovery codes will stop working immediately": the new batch
\* is the only one, even when two earlier requests had left a batch each.
RegenerateReplaces ==
  \A r \in Requests : Undisturbed(r, {"regenerate"}) => codes = {requests[r].batch}

\* An enrolment that says it succeeded protects the account: the flags are
\* set, the secret is the one whose code was typed, and there are codes.
EnrolmentProtects ==
  \A r \in Requests : Undisturbed(r, {"confirm", "register"}) =>
    /\ flags.mfaEnabled /\ codes # {}
    /\ requests[r].kind = "confirm" =>
         /\ flags.totpEnabled
         /\ totp = [secret |-> requests[r].secret, enabled |-> TRUE]
    /\ requests[r].kind = "register" => flags.webauthnEnabled /\ keys # {}

\* An operation that completes never leaves the user locked out: sign-in asks
\* for a second factor only if there is one left to present.
WayIn ==
  \A r \in Requests : Undisturbed(r, Kinds) =>
    (flags.mfaEnabled => totp.secret # NoSecret \/ keys # {} \/ codes # {})

\* Removing the last key undisturbed turns MFA off only for a user who has no
\* authenticator enabled.  A confirmation that ends between the read of the
\* authenticator and the last write of the removal is a disturbance.
RemoveKeepsMfa ==
  [][\A r \in Requests :
       /\ At(r, "flags", {"remove"}) /\ requests[r].alone /\ requests'[r].pc = "answered"
       /\ totp.enabled /\ flags.mfaEnabled
       => flags'.mfaEnabled]_vars
=============================================================================
