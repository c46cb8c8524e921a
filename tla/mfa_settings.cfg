CONSTANTS
  Secrets = {x1, x2}
  NoSecret = noSecret
  Batches = {b1, b2}
  NoBatch = noBatch
  Keys = {k1}
  NoKey = noKey
  Requests = {r1, r2}
SPECIFICATION Spec
SYMMETRY Slots
INVARIANTS
  TypeOK
  DisableCleans
  RegenerateReplaces
  EnrolmentProtects
  WayIn
PROPERTIES
  RemoveKeepsMfa
