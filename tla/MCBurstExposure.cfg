SPECIFICATION Spec
CONSTANTS
  N = 2
  MaxBursts = 2
INVARIANT BurstHasOneExposure
