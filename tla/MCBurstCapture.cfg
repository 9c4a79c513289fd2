SPECIFICATION Spec
CONSTANTS
  N = 2
  MaxBursts = 2
INVARIANTS
  TypeOK
  HandedOverOnce
  SlotsInCaptureOrder
  CountsSuffice
PROPERTY
  BurstWithFrameEnds
