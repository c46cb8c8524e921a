CONSTANTS
  Users = {u1}
  Nobody = nobody
  LoginRequests = {l1, l2}
  AdminRequests = {a1}
  VerifyRequests = {v1}
  LOGIN_MAX_ATTEMPTS = 2
  LOGIN_LOCKOUT = 1
  MFA_CHALLENGE_TTL = 1
  FarFuture = 20
  MaxClock = 2
  MaxFailures = 2
SPECIFICATION Spec
CHECK_DEADLOCK FALSE
SYMMETRY Slots
INVARIANTS
  SignedInVerified
  SelfLockIsTransient
  FailuresCounted
PROPERTIES
  LockWindowHonoured
