CONSTANTS
  Tabs = {t1}
  NoTab = noTab
  Calls = {c1, c2}
  SessionIds = {s1,s2}
  NoSession = noSession
  MaxTokens = 3
SPECIFICATION Spec
SYMMETRY Slots
INVARIANTS
  TypeOK
  ReuseNeedsDisturbance
  SignOutIsFinal
  SignedOutTabForgets
  RetryRefusedOnlyIfClosed
