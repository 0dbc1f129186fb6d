SPECIFICATION Spec
CONSTANTS
  Peer = {p1}
  MaxOffset = 2
  MaxTerm = 2
  Absent = Absent
  Torn = Torn
INVARIANTS
  NoGap
  
  AckedIsLoaded
  FilesParse
PROPERTIES
  SavesAreAtomic
  EpochsMatchLog
