CONSTANTS
  Users = {u1}
  Nobody = nobody
  SessionIds = {s1}
  NoSession = noSession
  RefreshRequests = {r1, r2}
  AuthRequests = {}
  AdminRequests = {}
  TicksPerSecond = 2
  JWT_REFRESH_TTL = 2
  SESSION_TIMEOUT = 1
  JWT_ACCESS_TTL = 1
  MaxClock = 3
  MaxTokens = 3
SPECIFICATION FairSpec
CHECK_DEADLOCK FALSE
INVARIANTS
  RefreshTokenLifetime
  AlertMeansClosed
PROPERTIES
  ReuseClosesSession
  ImplementsLifecycle
