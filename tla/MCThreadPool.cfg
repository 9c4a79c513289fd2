SPECIFICATION Spec
CONSTANTS
  Workers = {w1, w2}
  Caller = caller
  MaxTasks = 3
  MaxCalls = 2
INVARIANTS
  TypeOK
  NoStaleFunction
  EachIndexOnce
  WaitsMatchWork
PROPERTIES
  CallerNeverStuck
  ImplementsParallelFor
