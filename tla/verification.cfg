CONSTANTS
  Tokens = {k1, k2}
  NoToken = noToken
  Requests = {r1, r2}
  NoRequest = noRequest
  MaxDisturbances = 2
SPECIFICATION Spec
SYMMETRY Slots
CHECK_DEADLOCK FALSE
INVARIANTS
  TypeOK
  ResendLeavesOneLink
  SuccessMeansVerified
  AnswerLeavesALink
