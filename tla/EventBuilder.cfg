SPECIFICATION BuilderSpec
CONSTANTS
  Modes = {"ROC", "TRIGGERID", "BXID_ALL", "BXID_VALIDATED"}
  DummyChoices = {TRUE, FALSE}
  MinHitChoices = {0}
  KeepBuffered = 2
  TrigidOffset = 0
  GenerateFrom = 0
  Bxid0Offset = 3
  BxidWidth = 2
  MinBxid = 0
  MaxTrigBxid = 2
  MaxLength = 9
  PartPackets = {{2}}
  FullPackets = {{1}, {2}}
  DataLag = 1
  Period = 10
  StopAfter = 7
  TrigTimes = {1, 2, 5, 6, 8}
  MaxRoc = 2
  MaxTrig = 2
  MaxPackets = 3
  MaxLost = 1
INVARIANTS HitsBelong OnlyComplete OutputOrdered EveryTriggerBuilt HitsOnce UninterruptedByRocOrTrigger
CHECK_DEADLOCK FALSE
