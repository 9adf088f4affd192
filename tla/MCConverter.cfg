CONSTANTS
  Texts <- MCTexts
  MaxU32 = 4
  MaxRuns = 2
SPECIFICATION Spec
INVARIANTS TypeOK LoadsWholeGraph CompletedReplaces
CHECK_DEADLOCK FALSE
