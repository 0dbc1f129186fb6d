\* Voters recovering from what an earlier term left, compacted or not.
SPECIFICATION Spec
CONSTANTS
  n1 = n1
  n2 = n2
  n3 = n3
  Nil = Nil
  ClusterId = ClusterId
  Node = {n1, n2, n3}
  Voters = {n1, n2, n3}
  PreVoters = {n1}
  InitDisk <- MCDisks
  MaxTerm = 2
  MaxLog = 4
  MaxFailures = 0
SYMMETRY MCPeers
PROPERTIES
  Implements
