\* Expected to fail: see the finding on StoreLattice::join.
CONSTANTS
  Values = {0, 1}
  Params = {}
  Arrays = {}
  ConstIndices = {0}
  MaxOps = 4
  MaxIfs = 1
SPECIFICATION Spec
INVARIANTS
  EmptyBranchesKeepSidesEqual
CHECK_DEADLOCK FALSE
