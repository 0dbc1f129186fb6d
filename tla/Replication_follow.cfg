\* Two terms; a peer may also answer requests of an earlier term.
SPECIFICATION FairSpec
CONSTANTS
  n1 = n1
  n2 = n2
  n3 = n3
  Nil = Nil
  Self = n1
  Peers = {n2}
  Proposals = {"Command", "VotersRecord"}
  AnswersStale = TRUE
  MaxTerm = 2
  MaxLog = 2
INVARIANTS
  
  CompletionsAreTrue
  WaitersHaveEntries
  PendingChangeInLog
PROPERTIES
  FetchedIsStored
  CommittedIsKept
  
