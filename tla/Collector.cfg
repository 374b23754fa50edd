\* Startup, reloads, failures and shutdown of a collector with two pipelines
\* joined by a connector.
SPECIFICATION Spec
CONSTANTS
  Signal <- MCSignal
  Supported <- MCSupported
  Dependencies <- MCDependencies
  Configs <- MCConfigs
  InitialConfigs <- MCInitialConfigs
  SharedIds = {}
  SignalsCap = 1
  NoNode = NoNode
  MaxChanges = 1
  MaxSignals = 1
  MaxFaults = 1
INVARIANTS
  NothingLeftRunning
  GraphMatchesConfig
PROPERTIES
  RefinesLifecycle
  StopRequestHonoured
  ChangeIsApplied
CHECK_DEADLOCK FALSE
