SPECIFICATION FairSpec
CONSTANTS
  Inputs = {"tcp", "file"}
  MaxYield = 2
  MaxChunks = 3
  MaxRuns = 2
INVARIANTS RunFramed RawFileComplete StopDrains
PROPERTIES NotToStoppedCollector StopEnds
CHECK_DEADLOCK FALSE
