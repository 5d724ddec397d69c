SPECIFICATION Spec
CONSTANTS
  Kinds = {"trigid", "alpide", "calice", "hodoscope"}
  Conns = {"ahcal", "h1", "h2"}
  Ahcal = "ahcal"
  Partner = "h1"
  MinSub = 2
  MaxKey = 3
  MaxTrigger = 2
  NoTag = NoTag
  Bxid0 = {2}
  MaxBad = 1
INVARIANTS CoincidenceWritten NothingWaits
PROPERTY ImplementsMerge
CHECK_DEADLOCK FALSE
