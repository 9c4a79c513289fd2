SPECIFICATION Spec
CONSTANTS
  N = 2
  MaxShoots = 2
INVARIANTS
  TypeOK
  OutputIntact
PROPERTY
  ShootReturns
