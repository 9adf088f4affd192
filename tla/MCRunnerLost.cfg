SPECIFICATION Spec
CONSTANTS
  NumThreads = 2
  VNum = 3
  Increments <- PlainIncrements
  Skipped <- MCSkipped
  Redundancy = 0
  Spurious = FALSE
  NoResult = NoResult
INVARIANT NeverWaitsForEnded
CHECK_DEADLOCK FALSE
