\* A component reports a fatal error at any point of a run without reloads.
SPECIFICATION Spec
CONSTANTS
  Signal <- MCSignal
  Supported <- MCSupported
  Dependencies <- MCDependencies
  Configs <- MCConfigs
  InitialConfigs <- MCInitialConfigs
  SharedIds = {}
  SignalsCap = 1
  NoNode = NoNode
  MaxChanges = 0
  MaxSignals = 0
  MaxFaults = 1

PROPERTIES FatalErrorShutsDown
CHECK_DEADLOCK FALSE
