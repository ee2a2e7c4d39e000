SPECIFICATION Spec
CONSTANTS
  Sizes <- MCSizes
  Values <- MCValues
  Zero = 0
  NaN = NaN
  MaxI = 7
INVARIANTS TypeOK ReadExact WindowExact
PROPERTY ImplementsLog
