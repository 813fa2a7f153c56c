\* Expected to fail: see the finding on _anti_unify_impl.
CONSTANTS
  Values = {0, 1}
  Params = {}
  Arrays = {}
  ConstIndices = {0}
  MaxOps = 4
  MaxIfs = 1
SPECIFICATION Spec
INVARIANTS
  UnknownJoinsKeepSidesEqual
CHECK_DEADLOCK FALSE
