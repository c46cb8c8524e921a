----------------------------- MODULE UserTable -----------------------------
(* The roles and the statuses of an account, and how the administration    *)
(* may change a status: what the server and the dashboard both go by.      *)

CONSTANTS Users, Nobody

ASSUME NobodyIsNoUser == Nobody \notin Users

UserRole == {"USER", "ADMIN"}

AccountStatus == {"ACTIVE", "LOCKED", "DISABLED", "PENDING_VERIFICATION"}

ALLOWED_TRANSITIONS ==
  [ACTIVE |-> {"LOCKED", "DISABLED", "PENDING_VERIFICATION"},
   LOCKED |-> {"ACTIVE", "DISABLED"},
   DISABLED |-> {"ACTIVE"},
   PENDING_VERIFICATION |-> {"ACTIVE", "DISABLED"}]

AllowedTransition(from, to) == from = to \/ to \in ALLOWED_TRANSITIONS[from]
=============================================================================
