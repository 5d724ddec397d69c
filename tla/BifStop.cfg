SPECIFICATION FairSpec
CONSTANTS
  MaxYield = 2
  MaxPackets = 3
  MaxRuns = 1
  MaxErrors = 0
PROPERTY RunStopsAnyway
CHECK_DEADLOCK FALSE
