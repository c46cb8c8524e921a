CONSTANTS
  Users = {u1}
  Nobody = nobody
  SessionIds = {s1}
  NoSession = noSession
  RefreshRequests = {r1}
  AuthRequests = {q1}
  AdminRequests = {a1}
  TicksPerSecond = 2
  JWT_REFRESH_TTL = 2
  SESSION_TIMEOUT = 1
  JWT_ACCESS_TTL = 1
  MaxClock = 3
  MaxTokens = 2
SPECIFICATION Spec
CHECK_DEADLOCK FALSE
INVARIANTS
  TypeOK
  ClosedNeverAdmitted
  DeactivationClosesSessions
PROPERTIES
  ImplementsLifecycle
