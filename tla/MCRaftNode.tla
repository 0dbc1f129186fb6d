----------------------------- MODULE MCRaftNode -----------------------------
EXTENDS RaftNode, TLC

CONSTANTS n1, n2, n3

\* A data directory nothing was ever written to.
FreshDisk == [quorum_state |-> NoQuorumState, snapshot |-> NoSnapshot,
              log_start |-> 0, log |-> <<>>]

\* A node that took part in term 1 and has its leader's first entries.
VoterDisk == [quorum_state |-> QuorumState(1, Nil, ClusterId), snapshot |-> NoSnapshot,
              log_start |-> 0, log |-> <<Lcm(1), VotersRecord(1, Voters)>>]

\* The same, with a snapshot of these entries and two more and a log store
\* that was compacted up to its end.
CompactedDisk == [VoterDisk EXCEPT
    !.snapshot = [saved |-> TRUE, end |-> 4, voters |-> Voters],
    !.log_start = 4, !.log = <<>>]

\* A log store with entries and no quorum-state beside it.
OrphanDisk == [VoterDisk EXCEPT !.quorum_state = NoQuorumState]

MCFresh == {FreshDisk}
MCDisks == {VoterDisk, CompactedDisk, OrphanDisk}

MCSymmetry == Permutations(Voters)
MCPeers == Permutations({n2, n3})
=============================================================================
