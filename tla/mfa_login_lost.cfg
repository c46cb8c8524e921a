CONSTANTS
  Users = {u1}
  TotpUsers = {u1}
  KeyUsers = {u1}
  Nobody = nobody
  Tabs = {t1, t2}
  NoTab = noTab
  Browsers = {b1}
  Challenges = {c1, c2}
  NoChallenge = noChallenge
  SessionIds = {s1, s2}
  Requests = {r1, r2}
  MaxCeremonies = 1
  MaxDevices = 0
  MaxLost = 1
  RememberMe = {FALSE}
SPECIFICATION Spec
CHECK_DEADLOCK FALSE
SYMMETRY Slots
INVARIANTS
  SecondSessionNeedsLoss
