\* Expected to fail: see the finding on the candidates of computeInvariant.
SPECIFICATION Spec
CONSTANTS
  Members = {"a", "b"}
  Extent = 2
  Values = {0, 1}
  Programs <- CircularPrograms
INVARIANTS
  InductiveAreProved
CHECK_DEADLOCK FALSE
