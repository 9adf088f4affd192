SPECIFICATION Spec
CONSTANTS
  MaxDepth = 2
  MaxSets = 4
  MaxLinks = 2
  Chained <- EdgeChains
INVARIANT KeepsElements
