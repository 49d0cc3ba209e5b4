SPECIFICATION Spec
CONSTANTS
  Layout <- MCLayout
  Starts <- MCStarts
  Ends <- MCEnds
  Open <- MCOpen
  VeryLarge = 99
  ChunkSizes = {1, 3}
  StoreLag = 1
  MaxVersions = 3
INVARIANT TypeOK
INVARIANT BytesInOrder
INVARIANT PromiseKept
PROPERTY WaitsMoveOn
PROPERTY DrainEnds
CHECK_DEADLOCK FALSE
