SPECIFICATION Spec
CONSTANTS
  Channels = {a}
  Modes = {0, 1}
  HiZ = 0
  Configs <- MCConfigs
  DefaultConfig <- Endless
  NTransfers = 2
  Settle = 1
  Window = 2
  MaxSkew = 1
  MaxStalls = 1
  None = None
INVARIANTS TypeOK ModesAgree Realigns
