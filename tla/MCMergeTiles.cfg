SPECIFICATION Spec
CONSTANTS
  H = 9
  T = 4
INVARIANTS
  TypeOK
  NoRowShared
  EveryTileCounted
