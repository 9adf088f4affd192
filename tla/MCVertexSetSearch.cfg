SPECIFICATION SearchSpec
CONSTANTS
  MaxId = 6
  LinearLimit = 3
  Arrays <- MCArrays
  Keys <- MCKeys
INVARIANTS SearchTypeOK FoundPosition SearchReturnsPromised
PROPERTY SearchReturns
