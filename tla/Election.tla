------------------------------ MODULE Election ------------------------------
(***************************************************************************)
(* What an election promises, without saying how: nodes cast ballots that  *)
(* can never be taken back, a node that has voted in a term votes in no    *)
(* earlier one and for nobody else in that one, and a candidate wins a     *)
(* term once a majority of the voters has cast its ballot for it.  RaftNode *)
(* and EventLoop implement this specification.                             *)
(***************************************************************************)
EXTENDS Integers, FiniteSets

CONSTANTS Node,      \* every process that may take part
          Voters,    \* the voter set the cluster was bootstrapped with
          MaxTerm    \* bound on terms

VARIABLES ballots,   \* every vote ever made durable: [voter, term, candidate]
          elections  \* every election ever won: [term, leader]

vars == <<ballots, elections>>

Term == 0 .. MaxTerm

Ballot(v, t, c) == [voter |-> v, term |-> t, candidate |-> c]

Election(t, c) == [term |-> t, leader |-> c]

\* votes make up a majority of voters: voters.len() / 2 + 1 of them.
Majority(votes, voters) == Cardinality(votes) >= Cardinality(voters) \div 2 + 1

\* The voters whose ballots B holds for candidate c in term t.
Support(B, t, c) == {v \in Voters : Ballot(v, t, c) \in B}

Init == ballots = {} /\ elections = {}

\* Voter v may still vote for c in term t.
MayCast(v, t, c) ==
    \A b \in ballots : b.voter = v =>
        \/ b.term < t
        \/ b = Ballot(v, t, c)

\* A ballot becomes durable.
Cast(v, t, c) ==
    /\ ballots' = ballots \cup {Ballot(v, t, c)}
    /\ MayCast(v, t, c)

\* Candidate c wins term t with the ballots cast up to and including this
\* step (a candidate that is the only voter votes and wins at once).
Win(t, c) ==
    /\ elections' = elections \cup {Election(t, c)}
    /\ Majority(Support(ballots', t, c), Voters)

Next ==
    \E t \in Term, c \in Node :
        \/ \E v \in Node : Cast(v, t, c) /\ UNCHANGED elections
        \/ UNCHANGED ballots /\ Win(t, c)
        \/ Cast(c, t, c) /\ Win(t, c)

Spec == Init /\ [][Next]_vars

-----------------------------------------------------------------------------
TypeOK ==
    /\ ballots \subseteq [voter : Node, term : Term, candidate : Node]
    /\ elections \subseteq [term : Term, leader : Node]

\* No node has voted for two candidates in one term.
VoteOnce ==
    \A a, b \in ballots : a.voter = b.voter /\ a.term = b.term => a = b

\* Whoever won a term has a majority of the ballots of that term.
WinnersSupported ==
    \A e \in elections : Majority(Support(ballots, e.term, e.leader), Voters)

\* At most one leader per term, over the whole history of the cluster
\* (invariant_checker.rs, "Election safety: at most one leader per term").
ElectionSafety ==
    \A e, f \in elections : e.term = f.term => e.leader = f.leader
=============================================================================
