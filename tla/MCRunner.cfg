SPECIFICATION Spec
CONSTANTS
  NumThreads = 2
  VNum = 3
  Increments <- PlainIncrements
  Skipped <- MCSkipped
  Redundancy = 0
  Spurious = TRUE
  NoResult = NoResult
INVARIANTS TypeOK CountConserved ReturnsTotal FinishedIsTotal LateAnswerIsTotal PartialIsLowerBound
PROPERTY ExitsWithOneRow
CHECK_DEADLOCK FALSE
