SPECIFICATION Spec
CONSTANTS
  Requests = {r1, r2, r3}
  r1 = r1
  r2 = r2
  r3 = r3
  Parts = {r1, r2, r3}
  KeyOf <- TwoKeys
  CacheSize = 1
  Count <- SingleCounts
  Oversized <- NoneOversized
  MinSize = 2
  MaxSize = 2
  MaxWorkers = 2
  MayIdle = TRUE
  MayFail = FALSE
INVARIANTS
  PartitionsTracked
  NoForgottenBatch
CHECK_DEADLOCK FALSE
SYMMETRY SameKey
