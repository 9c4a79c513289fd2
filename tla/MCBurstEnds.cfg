SPECIFICATION Spec
CONSTANTS
  N = 2
  MaxBursts = 2
PROPERTY EveryBurstEnds
