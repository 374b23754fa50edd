\* A scraping receiver, its pipelines and their memory limiter.
SPECIFICATION Spec
CONSTANTS
  Configs <- MCScraped
  Limiters <- MCLimiters
  CheckInterval = 20
  MinSoft = 30
  MaxSoft = 70
  MinHard = 0
  MaxHard = 50
  MemAllocLimit = 100
  MemSpikeLimit = 0
  GCDisabled = FALSE
  Readings <- MCReadings
  NoHost = NoHost
  NumScrapers = 2
  InitialDelay = TRUE
INVARIANTS
  WriterIsAlone
  OwnChangesOnly
  UsedIsAlive
  RefusalIsReported
PROPERTIES
  ScraperShutdownReturns
CHECK_DEADLOCK FALSE
