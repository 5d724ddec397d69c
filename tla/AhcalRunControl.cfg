SPECIFICATION Spec
CONSTANTS
  Stability = 3
  MaxLag = 1
  Garbage = 4
  MaxTimeouts = 1
  Configs <- MCConfigs
  Reprocessing = 1
  MaxEventN = 2
  MaxCmds = 2
  MaxTime = 2
  MaxStarts = 3
INVARIANTS PositionsTrue StageStands
CHECK_DEADLOCK FALSE
PROPERTY RestartCompletes
