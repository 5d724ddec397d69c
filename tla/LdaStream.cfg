SPECIFICATION Spec
CONSTANTS
  RocMod = 4
  RocBack = 1
  TrigMod = 8
  MaxRocJump = 1
  MaxTrigidSkip = 3
  TsGap = 1
  DataGap = 1
  DataLag = 1
  TrigGap = 2
  IdleSpans = {1}
  FirstTrigs = {6}
  MaxRoc = 5
  MaxTrig = 9
  MaxClock = 8
  MaxRuns = 2
  KeepBuffered = 1
INVARIANTS RocRecovered TriggersFaithful TimeAccounted TriggersAccounted
CHECK_DEADLOCK FALSE
