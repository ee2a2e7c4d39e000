SPECIFICATION Spec
CONSTANTS
  Requests <- EdgeRequests
  Waves <- EdgeWaves
  Captures <- EdgeCaptures
  Packet = 3
  Period = 4
  Lead = 0
  MaxI = 12
  MaxFrames = 7
  Word = 1024
CHECK_DEADLOCK FALSE
INVARIANT EdgesFromTwoTrigger
