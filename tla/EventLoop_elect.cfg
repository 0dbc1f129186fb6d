\* Three voters, no loop ends with a batch under way.
SPECIFICATION Spec
CONSTANTS
  n1 = n1
  n2 = n2
  n3 = n3
  Nil = Nil
  Node = {n1, n2, n3}
  Voters = {n1, n2, n3}
  PreVoters = {}
  Fetchers = {}
  IoFaults = FALSE
  MaxTerm = 2
SYMMETRY MCSymmetry
CONSTRAINT BallotsBounded
PROPERTIES
  Implements
