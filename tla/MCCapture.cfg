SPECIFICATION FairSpec
CONSTANTS
  Configs <- MCConfigs
  NTransfers = 2
  Faults = TRUE
  MaxGen = 3
  MaxEpoch = 2
  MaxI = 6
CHECK_DEADLOCK FALSE
INVARIANTS TypeOK ViewIsTruth PipelineOwned CompletionNoticed
PROPERTY CompletesOrBreaks
