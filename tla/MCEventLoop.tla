---------------------------- MODULE MCEventLoop ----------------------------
EXTENDS EventLoop, TLC

CONSTANTS n1, n2, n3

MCSymmetry == Permutations(Voters)

\* Three voters that vote in two terms give six ballots; the instance stops
\* exploring once the last of them is cast.
MaxBallots == 5
BallotsBounded == Cardinality(ballots) <= MaxBallots
=============================================================================
