SPECIFICATION FairSpec
CONSTANTS
  Sources <- MCSources
  Packet = 2
  Caps = 5
  Continuous = FALSE
  Lead = 4
  MaxI = 6
  MaxHeld = 1
  Word = 16
  None = None
CHECK_DEADLOCK FALSE
INVARIANTS TypeOK WalkIsWave PhaseZeroIsFirst
PROPERTIES WalkEnds PhaseContinues EffectiveIsSeen
