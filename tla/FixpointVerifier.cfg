\* Three members, one of them not a signal, over the field of order 3.
SPECIFICATION FairSpec
CONSTANTS
  Members = {in, out, aux}
  in = in
  out = out
  aux = aux
  Signals = {in, out}
  Prime = 3
  ModelValues <- MCModelValues
INVARIANTS
  TypeOK
  MembersPartitioned
  VerdictsAreRight
  ReportIsComplete
  IterationsBounded
PROPERTIES
  VerdictsAreFinal
  ImplementsContract
CHECK_DEADLOCK FALSE
