\* A loop may end between a send and a save.
SPECIFICATION Spec
CONSTANTS
  n1 = n1
  n2 = n2
  n3 = n3
  Nil = Nil
  Node = {n1, n2, n3}
  Voters = {n1, n2, n3}
  PreVoters = {}
  Fetchers = {}
  IoFaults = TRUE
  MaxTerm = 1
SYMMETRY MCSymmetry
INVARIANTS
  ElectionSafety
