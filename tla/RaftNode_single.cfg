\* The only voter of a cluster.
SPECIFICATION Spec
CONSTANTS
  n1 = n1
  n2 = n2
  n3 = n3
  Nil = Nil
  ClusterId = ClusterId
  Node = {n1}
  Voters = {n1}
  PreVoters = {}
  InitDisk <- MCFresh
  MaxTerm = 4
  MaxLog = 8
  MaxFailures = 4
INVARIANTS
  CommittedIsStored
PROPERTIES
  DurableTermMonotone
