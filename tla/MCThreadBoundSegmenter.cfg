SPECIFICATION Spec
CONSTANTS
  Clients = {c1, c2}
  Segs = {s1, s2}
  None = none
  MaxJobs = 3
INVARIANTS
  TypeOK
  OwnResult
  OneDelegate
  WaitsMatchWork
PROPERTY
  CallsReturn
