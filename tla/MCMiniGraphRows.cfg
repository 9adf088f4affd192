SPECIFICATION Spec
CONSTANTS
  Ids <- FourIds
  Adj <- Diamond
  Outers <- OuterArgs
  Inners <- InnerArgs
INVARIANTS TypeOK RowsPromised WithinReserved
PROPERTY RowsStay
