SPECIFICATION Spec
CONSTANTS
  Options <- MCOptions
  Lengths = {1, 2}
  Sizes = {1, 2}
  NMid = 3
  NLow = 1
  MaxWrites = 2
  MaxIters = 2
INVARIANTS
  TypeOK
  LoadedIsWhole
  WindowIsItsIterations
  CleanExit
PROPERTIES
  EveryRunEnds
CHECK_DEADLOCK FALSE
