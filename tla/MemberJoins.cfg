\* Programs that only write the member and constrain it, long enough for two
\* ifs that write and constrain it in both branches.
CONSTANTS
  Values = {0, 1}
  Params = {}
  Arrays = {}
  ConstIndices = {}
  MaxOps = 5
  MaxIfs = 2
SPECIFICATION Spec
INVARIANTS
  StoreDescribesRun
  EquivalentMeansEqual
CHECK_DEADLOCK FALSE
