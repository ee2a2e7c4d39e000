SPECIFICATION FairSpec
CONSTANTS
  Configs <- M1kConfigs
  NTransfers = 2
  Faults = FALSE
  MaxGen = 1
  MaxEpoch = 0
  MaxI = 8
CHECK_DEADLOCK FALSE
PROPERTY BoundedCaptureEnds
