\* Two arrays of two bits.
SPECIFICATION Spec
CONSTANTS
  Members = {"a", "b"}
  Extent = 2
  Values = {0, 1}
  Programs <- MCPrograms
INVARIANTS
  TypeOK
  NoFalseProof
  CounterexamplesSurvive
  VisitedIsExecuted
  PlainLoopsAreProved
PROPERTIES
  LeftLoopsEntail
CHECK_DEADLOCK FALSE
