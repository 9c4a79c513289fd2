SPECIFICATION KernelsSpec
CONSTANTS
  Sizes = {1, 2, 3, 4, 5, 6, 7, 8, 12}
  Radii = {0, 1, 2, 3, 9}
  DiscSizes <- MCDiscSizes
  DiscRadii = {0, 1, 2, 3, 4}
  Group = 2
  MaxRadius = 3
  ModelSide = 4
  Orientations <- MCOrientations
  ToneSizes <- MCToneSizes
  Top = 2
  Curves <- MCCurves
  Values = 4
  GrayTile = 2
  GraySizes <- MCGraySizes
  Frames <- MCFrames
  Shifts <- MCShifts
  SearchRadius = 1
  Sads = {0, 1}
  SampleRadius = 2
INVARIANT ResultIsItsRule
INVARIANT ReadsStayInside
