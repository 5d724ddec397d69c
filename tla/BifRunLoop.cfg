SPECIFICATION FairSpec
CONSTANTS
  MaxYield = 2
  MaxPackets = 3
  MaxRuns = 2
  MaxErrors = 1
INVARIANTS PacketsReassembled RawFileFaithful RunFramed StopDrains
PROPERTY RunStops
CHECK_DEADLOCK FALSE
