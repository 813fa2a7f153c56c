\* z3 and cvc5, on a kernel that behaves as POSIX says, or as Darwin does.
SPECIFICATION FairSpec
CONSTANTS
  NumJobs = 2
  Quirks = {"groupEPERM"}
INVARIANTS
  TypeOK
  VerdictIsTrue
  ResultIsReported
  InconclusiveIsUnanimous
  FinishedMeansReaped
  ReturnLeavesNothing
PROPERTIES
  CancelledLeavesNoDescendant
  ImplementsContract
CHECK_DEADLOCK FALSE
