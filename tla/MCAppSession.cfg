SPECIFICATION Spec
CONSTANTS
  Counts = {1, 2}
  Default = 3
  MaxIntents = 2
  MaxPresses = 1
  MaxLaps = 2
  MaxDowns = 1
INVARIANTS
  TypeOK
  RecordsAddUp
PROPERTY
  ExperimentEnds
CHECK_DEADLOCK FALSE
