SPECIFICATION Spec
CONSTANTS
  Producer <- MCProducer
  MetadataOf <- MCMetadataOf
  LogsOf <- MCLogsOf
  MetricsOf <- MCMetricsOf
  Configs <- MCConfigsValid
  NumCPU = 1
INVARIANTS
  OrderKept
  ShutdownFlushes
PROPERTIES
  AcceptedIsSent
