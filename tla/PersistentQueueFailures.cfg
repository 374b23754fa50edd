CONSTANTS
  o1 = o1
  o2 = o2
  o3 = o3
  Offers = {o1, o2, o3, o4}
  Consumers = {c1}
  Size <- MixedSizes
  Cap = 2
  RequestSizer = TRUE
  BlockOnOverflow = TRUE
  Slots = 1
  NilDecodes = FALSE
  UpstreamStopsFirst = TRUE
  Legacy <- OneLegacy
  MaxIndex = 12
  MaxCrashes = 1
  CrashInStart = FALSE
  FailOps = {"put", "get", "finish", "recover", "load"}
  MaxFailures = 2
  Nil = Nil
SYMMETRY Alike
SPECIFICATION Spec
INVARIANTS
  NoCollateralLoss
  ClientReferences
CHECK_DEADLOCK FALSE
