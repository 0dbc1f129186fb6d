SPECIFICATION FairSpec
CONSTANTS
  Ids <- MCIds
  Size <- MCSize
  ChunkSize = 2
INVARIANTS
  LoadedIsComplete
PROPERTIES
  
  FetchEnds
CHECK_DEADLOCK FALSE
