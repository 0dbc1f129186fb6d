SPECIFICATION Spec
CONSTANTS
  Terms <- MCTerms
  MaxBatch = 2
  MaxOffset = 5
  SegmentLimit = 2
  MaxDropped = 1
  RemoveFails = FALSE
INVARIANTS
  ReadsAreSlices
  RolloverBound
  
PROPERTIES
  
  TruncationKeepsPrefix
