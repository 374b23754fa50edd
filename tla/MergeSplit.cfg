SPECIFICATION Spec
CONSTANTS
  Modes <- MCModes
  Maxes <- MCMaxes
  Requests <- MCRequests
  Merged <- MCMerged
  NoRequest = NoRequest
INVARIANTS ItemsAccounted PiecesWithinMax CachedSizeTrue DroppedIsOversized
PROPERTIES SplitProgress
