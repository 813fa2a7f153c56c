\* Every program of three operations with at most one if, on one array and
\* one member; the program ends where a bound stops it.
CONSTANTS
  Values = {0, 1}
  Params = {0}
  Arrays = {"array"}
  ConstIndices = {}
  MaxOps = 3
  MaxIfs = 1
SPECIFICATION Spec
INVARIANTS
  TypeOK
  StoreDescribesRun
CHECK_DEADLOCK FALSE
