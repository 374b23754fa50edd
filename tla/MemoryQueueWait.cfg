CONSTANTS
  o1 = o1
  o2 = o2
  o3 = o3
  o4 = o4
  o5 = o5
  Offers = {o1, o2, o3, o4, o5}
  Consumers = {c1}
  Size <- MixedSizes
  Cap = 2
  Slots = 1
  WaitForResult = TRUE
  BlockOnOverflow = TRUE
  Batching = TRUE
  UpstreamStopsFirst = FALSE
SYMMETRY SameSize
SPECIFICATION Spec
INVARIANTS
  SizeAccounted
  NoStrandedProducer
  ResultIsTruthful
  BlockingDoneExclusive
PROPERTIES
  RefinesBoundedQueue
