SPECIFICATION TsFairSpec
CONSTANTS
  Kinds = {"Ts", "Tel"}
  Scale = 2
  Lead = 1
  TimeMod = 64
  Starts <- MCStarts
  CalSpans <- MCCalSpans
  BifSpans <- MCBifSpans
  Shifts <- MCShifts
  CalLimit = 2
  Limit = 2
  BoreChoices = {TRUE, FALSE}
  MaxEvents = 3
  MaxTrig = 3
  MaxUntimed = 1
  MaxWritten = 3
  None = None
  MaxRuns = 2
INVARIANTS SubeventsOverlap OverlapSeen TelescopeJoined
PROPERTY ReceiveReturns
CHECK_DEADLOCK FALSE
