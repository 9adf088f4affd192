SPECIFICATION Spec
CONSTANTS
  Ids <- FourIds
  Adj <- Diamond
  Outers <- SharedCostModel
  Inners <- NoInner
INVARIANT RowsPromised
