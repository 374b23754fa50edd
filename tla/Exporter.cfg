\* The exporter chain without wait_for_result: retries, back-off and shutdown.
CONSTANTS
  o1 = o1
  o2 = o2
  o3 = o3
  o4 = o4
  Offers = {o1, o2, o3, o4}
  Consumers = {c1, c2}
  Size <- ExporterSizes
  Cap = 2
  Slots = 1
  WaitForResult = FALSE
  BlockOnOverflow = TRUE
  Batching = FALSE
  UpstreamStopsFirst = TRUE
SPECIFICATION ExporterSpec
INVARIANTS
  NoStrandedElement
  FlushedBeforeShutdown
PROPERTIES
  ExporterShutdownReturns
