SPECIFICATION Spec
CONSTANTS
  MaxId = 3
  INVALID_ID = INVALID_ID
  NoUpper = NoUpper
  Arrays <- MCArrays
  Vids <- MCVids
  Uppers <- MCUppers
INVARIANTS TypeOK ReturnsPromised ReturnsAscending WithinCapacity
PROPERTY Returns
