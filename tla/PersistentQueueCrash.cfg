CONSTANTS
  o1 = o1
  o2 = o2
  o3 = o3
  Offers = {o1, o2, o3}
  Consumers = {c1, c2}
  Size <- MixedSizes
  Cap = 2
  RequestSizer = FALSE
  BlockOnOverflow = TRUE
  Slots = 3
  NilDecodes = FALSE
  UpstreamStopsFirst = TRUE
  Legacy <- NoLegacy
  MaxIndex = 12
  MaxCrashes = 2
  CrashInStart = FALSE
  FailOps = {}
  MaxFailures = 0
  Nil = Nil
SPECIFICATION FairSpec
INVARIANTS
  NoLoss
  NoRepeat
  StorageAccounted
PROPERTIES
  AcceptedIsExported
