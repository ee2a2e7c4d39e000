SPECIFICATION Spec
CONSTANTS
  Requests <- MCRequests
  Waves <- MCWaves
  Captures <- MCCaptures
  Packet = 3
  Period = 4
  Lead = 3
  MaxI = 12
  MaxFrames = 7
  Word = 1024
CHECK_DEADLOCK FALSE
INVARIANTS TypeOK Contiguous CountExact CaughtUp FollowerLosesNothing SweepsAdvance
