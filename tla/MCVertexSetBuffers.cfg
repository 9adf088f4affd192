SPECIFICATION Spec
CONSTANTS
  MaxDepth = 2
  MaxSets = 4
  MaxLinks = 2
  Chained <- SafeChains
INVARIANTS TypeOK OwnedOnce ViewsOutlived KeepsElements
PROPERTY IsBufferPool
