\* Two voters and a node that is none; a loop may end at any time; with fairness.
SPECIFICATION FairSpec
CONSTANTS
  n1 = n1
  n2 = n2
  n3 = n3
  Nil = Nil
  Node = {n1, n2, n3}
  Voters = {n1, n2}
  PreVoters = {n1}
  Fetchers = {n1, n2, n3}
  IoFaults = TRUE
  MaxTerm = 1
INVARIANTS
  BatchSettlesMemory
  TermsHaveCandidates
PROPERTIES
  SavedVoteStable
  QuorumOrStepDown
