SPECIFICATION Spec
CONSTANTS
  Confs <- MCConfs
  Frames = {1, 8, 10}
  NLevels = 4
  MaxRuns = 2
INVARIANTS
  TypeOK
  ArenaFits
  FreshOutput
PROPERTIES
  RunReturns
CHECK_DEADLOCK FALSE
