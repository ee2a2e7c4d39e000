SPECIFICATION Spec
CONSTANTS
  Clients = {c1, c2}
  Ids = {1}
  Kinds = {"m1k", "cee", "bootloader"}
  Streams <- TwoStreams
  Modes = {0, 1}
  Samples = {1, 2}
  Outputs = {off, on}
  Off = off
  Gains = {g1, g2}
  Normal = g1
  Odd = odd
  Absent = absent
  Bad = bad
  Limits = {200, 400}
  CalData = {cal}
  DefaultData = uncal
  None = None
CHECK_DEADLOCK FALSE
INVARIANTS TypeOK ViewsAreTrue CalibrationKept
PROPERTY ErrorsChangeNothing
