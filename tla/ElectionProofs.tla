--------------------------- MODULE ElectionProofs ---------------------------
(***************************************************************************)
(* Election keeps its promise for any nodes and finitely many voters: a    *)
(* ballot cast in a term rules out every other one of that voter in it,    *)
(* and two majorities of the voters share a voter.                         *)
(***************************************************************************)
EXTENDS Election, FiniteSetTheorems, TLAPS

\* Every variable keeps its type.
THEOREM TypeCorrect == Spec => []TypeOK
<1>1. Init => TypeOK
  BY DEF Init, TypeOK
<1>2. TypeOK /\ [Next]_vars => TypeOK'
  BY DEF TypeOK, Next, vars, Cast, Win, Ballot, Election
<1>3. QED
  BY <1>1, <1>2, PTL DEF Spec

\* No step makes a voter's second ballot of a term.
THEOREM VoteOnceHolds == Spec => []VoteOnce
<1>1. Init => VoteOnce
  BY DEF Init, VoteOnce
<1>2. TypeOK /\ VoteOnce /\ [Next]_vars => VoteOnce'
  <2> SUFFICES ASSUME TypeOK, VoteOnce, [Next]_vars
               PROVE  VoteOnce'
    OBVIOUS
  <2>1. ASSUME NEW v \in Node, NEW t \in Term, NEW c \in Node, Cast(v, t, c)
        PROVE  VoteOnce'
    BY <2>1 DEF VoteOnce, Cast, MayCast, Ballot, TypeOK, Term
  <2>2. CASE UNCHANGED ballots
    BY <2>2 DEF VoteOnce
  <2> QED
    BY <2>1, <2>2 DEF Next, vars
<1>3. QED
  BY <1>1, <1>2, TypeCorrect, PTL DEF Spec

\* Ballots are never withdrawn, so a winner keeps its majority.
THEOREM WinnersSupportedHolds ==
    ASSUME IsFiniteSet(Voters)
    PROVE  Spec => []WinnersSupported
<1>1. Init => WinnersSupported
  BY DEF Init, WinnersSupported
<1>2. TypeOK /\ WinnersSupported /\ [Next]_vars => WinnersSupported'
  <2> SUFFICES ASSUME TypeOK, WinnersSupported, [Next]_vars,
                      NEW e \in elections'
               PROVE  Majority(Support(ballots', e.term, e.leader), Voters)
    BY DEF WinnersSupported, Support
  <2>1. ballots \subseteq ballots'
    BY DEF Next, vars, Cast
  <2>2. CASE e \in elections
    <3> DEFINE old == Support(ballots, e.term, e.leader)
               new == Support(ballots', e.term, e.leader)
    <3>1. old \subseteq new /\ new \subseteq Voters
      BY <2>1 DEF Support
    <3>2. IsFiniteSet(new)
      BY <3>1, FS_Subset
    <3>3. Cardinality(old) <= Cardinality(new)
      BY <3>1, <3>2, FS_Subset
    <3>4. Cardinality(old) \in Nat /\ Cardinality(new) \in Nat /\ Cardinality(Voters) \in Nat
      BY <3>1, <3>2, FS_Subset, FS_CardinalityType
    <3>5. Majority(old, Voters)
      BY <2>2 DEF WinnersSupported
    <3> HIDE DEF old, new
    <3>6. Majority(new, Voters)
      BY <3>3, <3>4, <3>5 DEF Majority
    <3> QED
      BY <3>6 DEF new
  <2>3. CASE e \notin elections
    <3>1. PICK t \in Term, c \in Node : Win(t, c)
      BY <2>3 DEF Next, vars
    <3>2. e = Election(t, c)
      BY <2>3, <3>1 DEF Win
    <3> QED
      BY <3>1, <3>2 DEF Win, Election
  <2> QED
    BY <2>2, <2>3
<1>3. QED
  BY <1>1, <1>2, TypeCorrect, PTL DEF Spec

\* Two winners of one term share a voter, which voted once.
LEMMA SharedVoter ==
    ASSUME IsFiniteSet(Voters), TypeOK, VoteOnce, WinnersSupported
    PROVE  ElectionSafety
<1> SUFFICES ASSUME NEW e \in elections, NEW f \in elections, e.term = f.term
             PROVE  e.leader = f.leader
  BY DEF ElectionSafety
<1> DEFINE P == Support(ballots, e.term, e.leader)
           Q == Support(ballots, f.term, f.leader)
<1>1. P \subseteq Voters /\ Q \subseteq Voters
  BY DEF Support
<1>2. Majority(P, Voters) /\ Majority(Q, Voters)
  BY DEF WinnersSupported
<1>3. Cardinality(P) \in Nat /\ Cardinality(Q) \in Nat /\ Cardinality(Voters) \in Nat
  BY <1>1, FS_Subset, FS_CardinalityType
<1> HIDE DEF P, Q
<1>4. Cardinality(P) + Cardinality(Q) > Cardinality(Voters)
  BY <1>2, <1>3 DEF Majority
<1>5. P \cap Q # {}
  BY <1>1, <1>4, FS_MajoritiesIntersect
<1>6. PICK v \in P \cap Q : TRUE
  BY <1>5
<1>7. Ballot(v, e.term, e.leader) \in ballots /\ Ballot(v, f.term, f.leader) \in ballots
  BY <1>6 DEF P, Q, Support
<1> QED
  BY <1>7 DEF VoteOnce, Ballot

\* At most one leader per term.
THEOREM ElectionSafetyHolds ==
    ASSUME IsFiniteSet(Voters)
    PROVE  Spec => []ElectionSafety
BY TypeCorrect, VoteOnceHolds, WinnersSupportedHolds, SharedVoter, PTL
=============================================================================
