SPECIFICATION Spec
CONSTANTS
  CycleMod = 4
  MaxCompensate = 1
  Setups <- MCSetups
  BxidOffset = 1
  BxidLength = 2
  IgnorePeriod = 1
  TsMod = 4
  CountRocFrom = 1
  Fired = {0, 2}
  FirstCycle = 2
  FirstTrig = 1
  MaxGap = 2
  MaxPackets = 6
  MaxRuns = 2
INVARIANTS CycleFollowed TriggersFiled TriggersOnce RocUninterrupted
CHECK_DEADLOCK FALSE
