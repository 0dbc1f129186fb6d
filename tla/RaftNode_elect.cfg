\* Three voters from empty disks, two terms, store failures and crashes.
SPECIFICATION Spec
CONSTANTS
  n1 = n1
  n2 = n2
  n3 = n3
  Nil = Nil
  ClusterId = ClusterId
  Node = {n1, n2, n3}
  Voters = {n1, n2, n3}
  PreVoters = {}
  InitDisk <- MCFresh
  MaxTerm = 2
  MaxLog = 4
  MaxFailures = 1
SYMMETRY MCSymmetry
INVARIANTS
  ElectionSafety
  IInv
PROPERTIES
  Implements
