SPECIFICATION FairSpec
CONSTANTS
  Limit = 5
  Lengths <- MCLengths
  NFrames = 4
  MaxJson = 2
CHECK_DEADLOCK FALSE
INVARIANTS TypeOK CounterExact BacklogBounded JsonComplete FramesOrdered
PROPERTIES ImplementsQueue JsonDelivered
