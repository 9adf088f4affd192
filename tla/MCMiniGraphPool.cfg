SPECIFICATION Spec
CONSTANTS
  c1 = c1
  c2 = c2
  c3 = c3
  Containers <- ThreeContainers
  SmallCap = 2
  Sizes <- SmallAndLarge
  MaxBuffers = 4
SYMMETRY AnyContainer
INVARIANTS TypeOK OwnedOnce RequestMet KeepsRows
PROPERTY GrowsOnlyIfNoneFits IsBufferPool
