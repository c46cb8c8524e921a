CONSTANTS
  Order <- MCOrder
  Users = {"me", "other"}
  Me = "me"
  Nobody = "nobody"
  PageSize = 1
  Filters = {"ALL", "LOCKED"}
  Initial = {"ACTIVE", "LOCKED", "PENDING_VERIFICATION"}
  Others = {"ACTIVE", "LOCKED"}
  MaxWrites = 1
  MaxTurns = 2
SPECIFICATION DashboardSpec
INVARIANTS
  DashboardTypeOK
  OwnChangeShown
  RefusalMeansStale
  PageExists
