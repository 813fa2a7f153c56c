\* SIGCHLD ignored, signals refused, forks that fail.
SPECIFICATION FairSpec
CONSTANTS
  NumJobs = 2
  Quirks = {"autoReap", "groupEPERM", "noSignal", "spawnFails"}
INVARIANTS
  VerdictIsTrue
  ReturnLeavesNothing
PROPERTIES
  CleanupEnds
CHECK_DEADLOCK FALSE
