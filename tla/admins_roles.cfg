CONSTANTS
  Users = {u1, u2}
  Nobody = nobody
  RoleRequests = {r1, r2}
  StatusRequests = {t1}
SPECIFICATION Spec
CHECK_DEADLOCK FALSE
SYMMETRY Alike
PROPERTIES
  LastAdminFallsToTheOvertaken
