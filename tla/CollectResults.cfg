\* Pipes of one piece, so that stderr can fill.
SPECIFICATION FairSpec
CONSTANTS
  Capacity = 1
  MaxStderr = 2
  QueryPieces = 3
  GroupEPERM = TRUE
INVARIANTS
  TypeOK
  VerifiedIsTrue
  CounterexampleIsTrue
  NothingIsLeft
PROPERTIES
  LateDeadlineCutsNoWork
  Ends
CHECK_DEADLOCK FALSE
