SPECIFICATION FairSpec
CONSTANTS
  Requests = {r1, r2, r3}
  r1 = r1
  r2 = r2
  r3 = r3
  Parts <- TwoShards
  Shards = 2
  NumConsumers = 2
  Count <- MixedCounts
  Oversized <- OneOversized
  MinSize = 2
  MaxSize = 3
  MaxWorkers = 2
  MayIdle = FALSE
  MayFail = TRUE
INVARIANTS
  ItemsConserved
  
  ShutdownDrains
PROPERTIES
  ConsumedIsDone
