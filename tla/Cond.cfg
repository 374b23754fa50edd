CONSTANTS
  Goroutines = {g1, g2, g3}
  Slots = 1
SPECIFICATION FairSpec
PROPERTIES
  RefinesPermitCond
  CallsReturn
