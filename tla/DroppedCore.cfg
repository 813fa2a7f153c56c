\* Expected to fail: see the finding on getFailingCore.
SPECIFICATION Spec
CONSTANTS
  Members = {"a", "b"}
  Extent = 2
  Values = {0, 1}
  Programs <- MCPrograms
PROPERTIES
  ReturnedEntails
CHECK_DEADLOCK FALSE
