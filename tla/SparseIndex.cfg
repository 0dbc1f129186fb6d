SPECIFICATION Spec
CONSTANTS
  MaxOffset = 5
  Position <- MCPosition
INVARIANTS
  LookupIsFloor
  FileIsMemory
PROPERTY
  FlushedStays
