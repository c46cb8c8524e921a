CONSTANTS
  Users = {u1, u2}
  Nobody = nobody
  RoleRequests = {r1, r2}
  StatusRequests = {}
SPECIFICATION Spec
CHECK_DEADLOCK FALSE
INVARIANTS
  AdminRemains
