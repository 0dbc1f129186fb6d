-------------------------- MODULE RaftNodeRefinement --------------------------
(***************************************************************************)
(* The inductive invariant of RaftNode and the safety properties that      *)
(* follow from it; and RaftNode implements Election, so that a term has at *)
(* most one leader.                                                        *)
(***************************************************************************)
EXTENDS RaftNodeInvariant

USE SMTT(20), SMTT(21), Zenon, SMTT(22), SMTT(23)

\* A node that may win keeps the invariants about logs, leaders and winners.
LEMMA BecomeLeaderKeeps ==
    ASSUME IInv, NEW n \in Node, NEW t \in Term, role[n] # "Down",
           voter_set[n] = Voters, become_leader(n, t),
           current_term'[n] = t,
           \A k \in Node \ {n} : current_term'[k] = current_term[k],
           quorum_state'[n].saved,
           \A k \in Node \ {n} : quorum_state'[k] = quorum_state[k],
           UNCHANGED <<snapshot, log_start, voter_set>>
    PROVE  /\ role'[n] \in {"Candidate", "Leader"}
           /\ \A k \in Node \ {n} : role'[k] = role[k]
           /\ KnownVoters' /\ LeaderWroteItsTerm' /\ WinnersWroteVoters'
           /\ WinnersKeepVoters'
<1> DEFINE Wins == /\ BeLeader(n, t, StoreEnd(n)')
                   /\ log_has_voters_record(n)'
                   /\ LastTerm(n)' = t
<1>1. TypeOK /\ KnownVoters
  BY DEF IInv
<1>2. /\ \A k \in Node \ {n} : log'[k] = log[k]
      /\ \A i \in 1 .. Len(log'[n]) : log'[n][i].entry_type = "VotersRecord" =>
               log'[n][i].voters = Voters
      /\ log_has_voters_record(n) => log_has_voters_record(n)'
      /\ BeCandidate(n) \/ Wins
  BY Zenon, <1>1, BecomeLeaderWrites
<1>3. /\ role'[n] \in {"Candidate", "Leader"}
      /\ role'[n] = "Leader" => Wins
      /\ \A k \in Node \ {n} : role'[k] = role[k]
      /\ \A k \in Node \ {n} : log_end_offset'[k] = log_end_offset[k]
      /\ Wins => log_end_offset'[n] = StoreEnd(n)'
  <2>1. role \in [Node -> Role] /\ log_end_offset \in [Node -> Nat]
    BY <1>1 DEF TypeOK
  <2>2. BeCandidate(n) => /\ role' = [role EXCEPT ![n] = "Candidate"]
                          /\ log_end_offset' = log_end_offset
    BY DEF BeCandidate, offsetVars
  <2>3. Wins => /\ role' = [role EXCEPT ![n] = "Leader"]
                /\ log_end_offset' = [log_end_offset EXCEPT ![n] = StoreEnd(n)']
    BY DEF BeLeader
  <2> HIDE DEF Wins
  <2>4. CASE BeCandidate(n)
    BY <2>1, <2>2, <2>3, <2>4
  <2>5. CASE Wins
    BY <2>1, <2>3, <2>5
  <2> QED
    BY <1>2, <2>4, <2>5
<1>4. \A e \in elections' : e \in elections \/ (e.leader = n /\ Wins)
  BY <1>2 DEF BeCandidate, BeLeader, E!Election
<1>5. \A e \in elections : e.leader \in Node
  BY <1>1 DEF TypeOK, E!TypeOK
<1>6. KnownVoters'
  BY <1>1, <1>2 DEF KnownVoters, IsVotersRecord
<1>7. LeaderWroteItsTerm'
  <2> SUFFICES ASSUME NEW k \in Node, role'[k] = "Leader"
               PROVE  /\ LastTerm(k)' = current_term'[k]
                      /\ log_has_voters_record(k)'
                      /\ log_end_offset'[k] = StoreEnd(k)'
    BY DEF LeaderWroteItsTerm
  <2>1. CASE k = n
    BY <1>3, <2>1
  <2>2. CASE k # n
    <3>1. /\ role[k] = "Leader" /\ current_term'[k] = current_term[k]
          /\ log'[k] = log[k] /\ log_start'[k] = log_start[k]
          /\ log_end_offset'[k] = log_end_offset[k]
      BY Zenon, <1>2, <1>3, <2>2
    <3>2. /\ LastTerm(k) = current_term[k]
          /\ log_has_voters_record(k)
          /\ log_end_offset[k] = StoreEnd(k)
      BY <3>1 DEF IInv, LeaderWroteItsTerm
    <3>3. LastTerm(k)' = LastTerm(k) /\ StoreEnd(k)' = StoreEnd(k)
      BY <3>1 DEF LastTerm, StoreEnd
    <3>4. log_has_voters_record(k)' = log_has_voters_record(k)
      BY <3>1 DEF log_has_voters_record, IsVotersRecord
    <3> QED
      BY <3>1, <3>2, <3>3, <3>4
  <2> QED
    BY <2>1, <2>2
<1>8. WinnersWroteVoters'
  <2> SUFFICES ASSUME NEW e \in elections'
               PROVE  quorum_state'[e.leader].saved /\ log_has_voters_record(e.leader)'
    BY DEF WinnersWroteVoters
  <2>1. CASE e.leader = n
    BY Zenon, <1>2, <1>4, <2>1 DEF IInv, WinnersWroteVoters
  <2>2. CASE e.leader # n
    <3>1. e \in elections /\ e.leader \in Node
      BY <1>4, <1>5, <2>2
    <3>2. quorum_state[e.leader].saved /\ log_has_voters_record(e.leader)
      BY <3>1 DEF IInv, WinnersWroteVoters
    <3>3. log'[e.leader] = log[e.leader] /\ quorum_state'[e.leader] = quorum_state[e.leader]
      BY <1>2, <2>2, <3>1
    <3> QED
      BY <3>2, <3>3 DEF log_has_voters_record, IsVotersRecord
  <2> QED
    BY <2>1, <2>2
<1>9. WinnersKeepVoters'
  BY Zenon, <1>3, <1>4 DEF IInv, WinnersKeepVoters
<1> QED
  BY <1>3, <1>6, <1>7, <1>8, <1>9

LEMMA ResponseKeeps ==
    ASSUME IInv, NEW m \in msgs, handle_vote_response(m.dest, m)
    PROVE  IInv'
<1> DEFINE n == m.dest
           votes == votes_received[n] \cup {m.source}
<1>1. TypeOK /\ TypeOK'
  BY ResponseType DEF IInv
<1>2. m \in Message /\ m.type = "VoteResponse" /\ role[n] # "Down"
  BY <1>1 DEF handle_vote_response, Receives, TypeOK
<1>3. n \in Node /\ m.source \in Node /\ m.term \in Term /\ m.is_pre_vote \in BOOLEAN
  BY <1>2 DEF Message
<1>4. UNCHANGED <<snapshot, log_start, voter_set, msgs>>
  BY DEF handle_vote_response, attachVars
<1>5. CASE /\ m.term > current_term[n]
           /\ Follow(n, m.term, Nil)
           /\ \/ Save(n, m.term, Nil) /\ UNCHANGED failures
              \/ SaveFails
           /\ UNCHANGED <<log, offsetVars, elections>>
  <2>1. \/ UNCHANGED <<quorum_state, ballots>>
        \/ MaySave(n, m.term, Nil) /\ Save(n, m.term, Nil)
    BY <1>5 DEF SaveFails, MaySave
  <2>2. /\ KnownVoters' /\ MemoryCoversDisk' /\ DiskCoversBallots' /\ VotesAreBallots'
        /\ LeaderWroteItsTerm' /\ WinnersWroteVoters' /\ WinnersKeepVoters'
        /\ ballots \subseteq ballots'
    BY <1>2, <1>3, <1>4, <1>5, <2>1, FollowKeeps DEF offsetVars
  <2> QED
    BY <1>1, <1>4, <2>2, MessagesKeep DEF IInv
<1>6. CASE /\ CountsVote(n, m)
           /\ votes_received' = [votes_received EXCEPT ![n] = votes]
           /\ IF has_quorum(n, votes) THEN become_leader(n, current_term[n])
              ELSE UNCHANGED <<log, role, leader_id, offsetVars, elections, failures>>
           /\ NoSave
           /\ UNCHANGED <<current_term, voted_for>>
  <2>1. UNCHANGED <<quorum_state, ballots, current_term, voted_for>>
    BY <1>6 DEF NoSave
  <2>2. VotesAreDurable' /\ CandidatesVoted' /\ DiskCoversBallots'
    BY <1>1, <1>4, <2>1, MessagesKeep DEF IInv, DiskCoversBallots
  <2>3. /\ E!Ballot(m.source, current_term[n], n) \in ballots
        /\ E!Ballot(n, current_term[n], n) \in ballots
        /\ n \in Voters
    BY <1>1, <1>2, <1>6, MessagesBacked DEF CountsVote, Backed, IInv
  <2>4. /\ voter_set[n] = Voters
        /\ m.source \in Voters
        /\ role[n] = "Candidate"
        /\ current_term[n] \in Term
    BY Zenon, <1>1, <1>3, <1>6 DEF CountsVote, IInv, KnownVoters, TypeOK
  <2>5. /\ votes_received'[n] = votes
        /\ \A k \in Node \ {n} : votes_received'[k] = votes_received[k]
    <3>1. votes_received \in [Node -> SUBSET Node]
      BY <1>1 DEF TypeOK
    <3> HIDE DEF votes
    <3> QED
      BY <3>1, <1>3, <1>6
  <2>6. CASE UNCHANGED <<log, role, leader_id, offsetVars, elections, failures>>
    <3>1. VotesAreBallots'
      BY <2>1, <2>3, <2>4, <2>5, <2>6 DEF IInv, VotesAreBallots
    <3>2. KnownVoters'
      BY <1>4, <2>6 DEF IInv, KnownVoters, IsVotersRecord
    <3>3. MemoryCoversDisk'
      BY <1>4, <2>1, <2>6 DEF IInv, MemoryCoversDisk
    <3>4. LeaderWroteItsTerm'
      BY <1>4, <2>1, <2>6 DEF IInv, LeaderWroteItsTerm, LastTerm, StoreEnd, IsVotersRecord,
         log_has_voters_record, offsetVars
    <3>5. WinnersWroteVoters'
      BY <2>1, <2>6 DEF IInv, WinnersWroteVoters, IsVotersRecord, log_has_voters_record
    <3>6. WinnersKeepVoters'
      BY <1>4, <2>6 DEF IInv, WinnersKeepVoters
    <3> QED
      BY <1>1, <2>2, <3>1, <3>2, <3>3, <3>4, <3>5, <3>6 DEF IInv
  <2>7. CASE become_leader(n, current_term[n])
    <3>1. quorum_state[n].saved
      BY <2>3 DEF IInv, DiskCoversBallots, E!Ballot
    <3>2. /\ role'[n] \in {"Candidate", "Leader"}
          /\ \A k \in Node \ {n} : role'[k] = role[k]
          /\ KnownVoters' /\ LeaderWroteItsTerm' /\ WinnersWroteVoters'
          /\ WinnersKeepVoters'
      BY <1>2, <1>3, <1>4, <2>1, <2>4, <2>7, <3>1, BecomeLeaderKeeps
    <3>3. MemoryCoversDisk'
      BY <1>4, <2>1, <2>4, <3>2 DEF IInv, MemoryCoversDisk
    <3>4. VotesAreBallots'
      BY <2>1, <2>3, <2>4, <2>5, <3>2 DEF IInv, VotesAreBallots
    <3> QED
      BY <1>1, <2>2, <3>2, <3>3, <3>4 DEF IInv
  <2> QED
    BY <1>6, <2>6, <2>7
<1> QED
  BY <1>5, <1>6 DEF handle_vote_response

-----------------------------------------------------------------------------
(* The other handlers. *)

LEMMA TimeoutKeeps ==
    ASSUME IInv, NEW n \in Node, handle_election_timeout(n)
    PROVE  IInv'
<1> DEFINE t == current_term[n] + 1
<1>1. TypeOK /\ TypeOK'
  BY TimeoutType DEF IInv
<1>2. t \in Term /\ t \in Nat /\ current_term[n] \in Nat /\ t > current_term[n]
  BY <1>1, BoundsAssumption DEF handle_election_timeout, TypeOK, Term
<1>3. role[n] \in {"Follower", "Candidate"}
      /\ UNCHANGED <<snapshot, log_start, voter_set>>
  BY DEF handle_election_timeout, attachVars
<1>4. /\ current_term'[n] = t /\ voted_for'[n] = n /\ votes_received'[n] = {n}
      /\ \A k \in Node \ {n} : /\ current_term'[k] = current_term[k]
                               /\ voted_for'[k] = voted_for[k]
                               /\ votes_received'[k] = votes_received[k]
  BY <1>1 DEF handle_election_timeout, TypeOK
<1> HIDE DEF t
<1>5. ASSUME SaveFails \/ Save(n, t, n)
      PROVE  /\ DiskCoversBallots' /\ ballots \subseteq ballots'
             /\ \A k \in Node \ {n} : quorum_state'[k] = quorum_state[k]
             /\ \/ quorum_state'[n] = quorum_state[n]
                \/ quorum_state'[n] = QuorumState(t, n, cluster_id[n])
  <2>1. CASE SaveFails
    BY <2>1 DEF SaveFails, IInv, DiskCoversBallots
  <2>2. CASE Save(n, t, n)
    BY Zenon, <1>1, <1>2, <1>3, <2>2, SaveCasts DEF IInv, MaySave, Save, TypeOK
  <2> QED
    BY <1>5, <2>1, <2>2
<1>6. ASSUME SaveFails \/ Save(n, t, n), role'[n] \in {"Candidate", "Leader"},
             \A k \in Node \ {n} : role'[k] = role[k]
      PROVE  MemoryCoversDisk' /\ VotesAreBallots'
  <2>1. VotesAreBallots'
    BY <1>4, <1>5, <1>6 DEF IInv, VotesAreBallots
  <2>2. quorum_state[n].current_term \in Nat
    BY <1>1, BoundsAssumption DEF TypeOK, QuorumStates, Term
  <2>3. quorum_state[n].current_term < t
    BY <1>2, <1>3, <2>2 DEF IInv, MemoryCoversDisk
  <2>4. MemoryCoversDisk'
    <3> SUFFICES ASSUME NEW k \in Node
                 PROVE  /\ ~quorum_state'[k].saved => quorum_state'[k] = NoQuorumState
                        /\ role'[k] \in {"Down", "Unattached"} => voter_set'[k] = {}
                        /\ role'[k] = "Unattached" => ~quorum_state'[k].saved
                        /\ role'[k] # "Down" =>
                              \/ quorum_state'[k].current_term < current_term'[k]
                              \/ /\ quorum_state'[k].current_term = current_term'[k]
                                 /\ quorum_state'[k].voted_for \in {Nil, voted_for'[k]}
      BY Zenon DEF MemoryCoversDisk, NoQuorumState
    <3>1. CASE k # n
      BY <1>3, <1>4, <1>5, <1>6, <3>1 DEF IInv, MemoryCoversDisk
    <3>2. CASE k = n
      BY <1>3, <1>4, <1>5, <1>6, <2>3, <3>2 DEF IInv, MemoryCoversDisk, QuorumState
    <3> QED
      BY <3>1, <3>2
  <2> QED
    BY <2>1, <2>4
<1>7. ASSUME SaveFails \/ Save(n, t, n), BeCandidate(n), UNCHANGED log
      PROVE  /\ role'[n] = "Candidate" /\ \A k \in Node \ {n} : role'[k] = role[k]
             /\ KnownVoters' /\ LeaderWroteItsTerm' /\ WinnersWroteVoters'
             /\ WinnersKeepVoters'
  <2>1. /\ role'[n] = "Candidate" /\ \A k \in Node \ {n} : role'[k] = role[k]
        /\ UNCHANGED <<log_end_offset, elections>>
    BY <1>1, <1>7 DEF BeCandidate, TypeOK, offsetVars
  <2>2. KnownVoters' /\ WinnersKeepVoters'
    BY <1>3, <1>7, <2>1 DEF IInv, KnownVoters, WinnersKeepVoters, IsVotersRecord
  <2>3. LeaderWroteItsTerm'
    BY <1>3, <1>4, <1>7, <2>1 DEF IInv, LeaderWroteItsTerm, LastTerm, StoreEnd,
       log_has_voters_record, IsVotersRecord
  <2>4. WinnersWroteVoters'
    <3>1. \A e \in elections : e.leader \in Node
      BY <1>1 DEF TypeOK, E!TypeOK
    <3> QED
      BY <1>5, <1>7, <2>1, <3>1 DEF IInv, WinnersWroteVoters, QuorumState,
         log_has_voters_record, IsVotersRecord
  <2> QED
    BY <2>1, <2>2, <2>3, <2>4
<1>8. CASE SaveFails /\ BeCandidate(n) /\ UNCHANGED <<log, msgs>>
  BY <1>1, <1>5, <1>6, <1>7, <1>8, MessagesKeep DEF IInv
<1>9. CASE /\ Save(n, t, n)
           /\ BeCandidate(n)
           /\ broadcast_vote_requests(n, t)
           /\ UNCHANGED log
  <2>1. E!Ballot(n, t, n) \in ballots'
    BY <1>9, NilAssumption DEF Save
  <2>2. \A m \in msgs' \ msgs : Backed(m, ballots')
    BY <1>9, <2>1 DEF broadcast_vote_requests, Send, VoteRequest, Backed
  <2> QED
    BY <1>1, <1>5, <1>6, <1>7, <1>9, <2>2, MessagesKeep DEF IInv
<1>10. CASE Save(n, t, n) /\ has_quorum(n, {n}) /\ become_leader(n, t) /\ UNCHANGED msgs
  <2>1. voter_set[n] = Voters
    BY <1>10 DEF has_quorum, IInv, KnownVoters
  <2>2. quorum_state'[n].saved
    BY <1>1, <1>10 DEF Save, QuorumState, TypeOK
  <2>3. /\ role'[n] \in {"Candidate", "Leader"}
        /\ \A k \in Node \ {n} : role'[k] = role[k]
        /\ KnownVoters' /\ LeaderWroteItsTerm' /\ WinnersWroteVoters'
        /\ WinnersKeepVoters'
    BY <1>2, <1>3, <1>4, <1>5, <1>10, <2>1, <2>2, BecomeLeaderKeeps
  <2> QED
    BY <1>1, <1>5, <1>6, <1>10, <2>3, MessagesKeep DEF IInv
<1> QED
  BY <1>8, <1>9, <1>10 DEF handle_election_timeout, t

\* recover() finds a winner's voters again.
LEMMA RecoveredVotersKnown ==
    ASSUME TypeOK, KnownVoters, NEW n \in Node
    PROVE  /\ RecoveredVoters(n) \in {{}, Voters}
           /\ quorum_state[n].saved /\ log_has_voters_record(n) =>
                RecoveredVoters(n) = Voters
<1>1. log_has_voters_record(n) => LatestVoters(n) = Voters
  <2> SUFFICES ASSUME log_has_voters_record(n)
               PROVE  LatestVoters(n) = Voters
    OBVIOUS
  <2>1. PICK i \in 1 .. Len(log[n]) :
            IsVotersRecord(n, i) /\ LatestVoters(n) = log[n][i].voters
    BY LatestVotersRecord
  <2> QED
    BY <2>1 DEF KnownVoters
<1>2. snapshot[n].saved => snapshot[n].voters = Voters
  BY DEF KnownVoters
<1> QED
  BY <1>1, <1>2 DEF RecoveredVoters

LEMMA StartKeeps ==
    ASSUME IInv, NEW n \in Node,
           Crash(n) \/ NewUnattached(n) \/ Recover(n) \/ Bootstrap(n)
    PROVE  IInv'
<1>1. TypeOK /\ TypeOK'
  BY StartType DEF IInv
<1>2. UNCHANGED <<quorum_state, snapshot, log_start, log, msgs, ballots, elections>>
  BY DEF Crash, NewUnattached, Recover, Bootstrap, diskVars, history
<1>0. /\ role \in [Node -> Role] /\ current_term \in [Node -> Term]
      /\ voted_for \in [Node -> Node \cup {Nil}] /\ voter_set \in [Node -> SUBSET Node]
      /\ votes_received \in [Node -> SUBSET Node] /\ log_end_offset \in [Node -> Nat]
  BY Zenon, <1>1 DEF TypeOK
<1>3. \A k \in Node \ {n} :
        /\ role'[k] = role[k] /\ current_term'[k] = current_term[k]
        /\ voted_for'[k] = voted_for[k] /\ voter_set'[k] = voter_set[k]
        /\ votes_received'[k] = votes_received[k] /\ log_end_offset'[k] = log_end_offset[k]
  <2>1. CASE Crash(n)
    BY <1>0, <2>1 DEF Crash
  <2>2. CASE NewUnattached(n)
    BY <1>0, <2>2 DEF NewUnattached, attachVars, offsetVars
  <2>3. CASE Recover(n)
    BY <1>0, <2>3 DEF Recover
  <2>4. CASE Bootstrap(n)
    BY <1>0, <2>4 DEF Bootstrap, offsetVars
  <2> QED
    BY <2>1, <2>2, <2>3, <2>4
<1>4. /\ quorum_state[n] \in QuorumStates
      /\ quorum_state[n].current_term \in Nat
      /\ current_term[n] \in Nat
  BY <1>1, BoundsAssumption DEF TypeOK, QuorumStates, Term
<1>5. VotesAreDurable' /\ CandidatesVoted'
  BY <1>1, <1>2, MessagesKeep
<1>6. DiskCoversBallots' /\ WinnersWroteVoters'
  BY <1>2 DEF IInv, DiskCoversBallots, WinnersWroteVoters, log_has_voters_record,
              IsVotersRecord
<1>7. /\ role'[n] \in {"Down", "Unattached", "Follower"}
      /\ voter_set'[n] \in {{}, Voters}
      /\ role'[n] \in {"Down", "Unattached"} => voter_set'[n] = {}
      /\ role'[n] = "Unattached" => ~quorum_state[n].saved
      /\ role'[n] # "Down" =>
            \/ quorum_state[n].current_term < current_term'[n]
            \/ /\ quorum_state[n].current_term = current_term'[n]
               /\ quorum_state[n].voted_for \in {Nil, voted_for'[n]}
      /\ role'[n] # "Down" /\ quorum_state[n].saved /\ log_has_voters_record(n) =>
            voter_set'[n] = Voters
  <2>1. CASE Crash(n)
    BY <1>0, <2>1 DEF Crash
  <2>2. CASE NewUnattached(n)
    <3>1. /\ role'[n] = "Unattached" /\ ~quorum_state[n].saved /\ role[n] = "Down"
          /\ UNCHANGED <<voter_set, current_term, voted_for>>
      BY <1>0, <2>2 DEF NewUnattached, has_existing_data, attachVars
    <3>2. quorum_state[n] = NoQuorumState /\ voter_set[n] = {}
      BY <3>1 DEF IInv, MemoryCoversDisk
    <3> QED
      BY <1>4, <3>1, <3>2 DEF NoQuorumState
  <2>3. CASE Recover(n)
    <3>1. /\ role'[n] = "Follower" /\ voter_set'[n] = RecoveredVoters(n)
          /\ current_term'[n] = quorum_state[n].current_term
          /\ voted_for'[n] = quorum_state[n].voted_for
      BY <1>0, <2>3 DEF Recover
    <3> QED
      BY <1>1, <3>1, RecoveredVotersKnown DEF IInv
  <2>4. CASE Bootstrap(n)
    <3>1. /\ role'[n] = "Follower" /\ voter_set'[n] = Voters
          /\ current_term'[n] = 0 /\ voted_for'[n] = Nil /\ role[n] = "Unattached"
      BY <1>0, <2>4 DEF Bootstrap
    <3>2. quorum_state[n] = NoQuorumState
      BY <3>1 DEF IInv, MemoryCoversDisk
    <3> QED
      BY <3>1, <3>2 DEF NoQuorumState
  <2> QED
    BY <2>1, <2>2, <2>3, <2>4
<1>8. KnownVoters'
  BY <1>2, <1>3, <1>7 DEF IInv, KnownVoters, IsVotersRecord
<1>9. MemoryCoversDisk'
  BY Zenon, <1>2, <1>3, <1>7 DEF IInv, MemoryCoversDisk, NoQuorumState
<1>10. VotesAreBallots'
  BY <1>2, <1>3, <1>7 DEF IInv, VotesAreBallots
<1>11. LeaderWroteItsTerm'
  BY <1>2, <1>3, <1>7 DEF IInv, LeaderWroteItsTerm, LastTerm, StoreEnd,
     log_has_voters_record, IsVotersRecord
<1>12. WinnersKeepVoters'
  BY <1>2, <1>3, <1>7 DEF IInv, WinnersKeepVoters, WinnersWroteVoters
<1> QED
  BY <1>1, <1>5, <1>6, <1>8, <1>9, <1>10, <1>11, <1>12 DEF IInv

LEMMA InitKeeps == Init => IInv
<1> SUFFICES ASSUME Init
             PROVE  IInv
  OBVIOUS
<1>1. TypeOK
  BY InitType
<1>2. PICK disk \in [Node -> InitDisk] :
        /\ quorum_state = [n \in Node |-> disk[n].quorum_state]
        /\ snapshot = [n \in Node |-> disk[n].snapshot]
        /\ log = [n \in Node |-> disk[n].log]
  BY DEF Init
<1>3. ASSUME NEW n \in Node
      PROVE  /\ ~quorum_state[n].saved => quorum_state[n] = NoQuorumState
             /\ snapshot[n].saved => snapshot[n].voters = Voters
             /\ \A i \in 1 .. Len(log[n]) :
                   log[n][i].entry_type = "VotersRecord" => log[n][i].voters = Voters
  <2>1. disk[n] \in InitDisk
    BY <1>2
  <2> QED
    BY <1>2, <2>1, DiskAssumption
<1>4. KnownVoters
  BY <1>3 DEF Init, KnownVoters, IsVotersRecord
<1>5. MemoryCoversDisk
  BY <1>3 DEF Init, MemoryCoversDisk
<1> QED
  BY <1>1, <1>4, <1>5 DEF Init, IInv, DiskCoversBallots, VotesAreDurable, CandidatesVoted,
     VotesAreBallots, LeaderWroteItsTerm, WinnersWroteVoters, WinnersKeepVoters

LEMMA PreVoteKeeps ==
    ASSUME IInv, NEW c \in Node, NEW v \in Node, PeerPreVote(c, v)
    PROVE  IInv'
<1>1. TypeOK'
  BY PreVoteType DEF IInv
<1>2. UNCHANGED <<quorum_state, snapshot, log_start, log, role, current_term, voted_for,
                  voter_set, votes_received, log_end_offset, ballots, elections>>
  BY DEF PeerPreVote, diskVars, nodeVars, voteVars, attachVars, offsetVars, history
<1>3. \A m \in msgs' \ msgs : Backed(m, ballots')
  BY DEF PeerPreVote, Send, VoteRequest, Backed
<1>4. VotesAreDurable' /\ CandidatesVoted'
  BY <1>1, <1>2, <1>3, MessagesKeep
<1> QED
  BY Zenon, <1>1, <1>2, <1>4, SameKeeps DEF IInv

LEMMA StutterKeeps == IInv /\ UNCHANGED vars => IInv'
<1> SUFFICES ASSUME IInv, UNCHANGED vars
             PROVE  IInv'
  OBVIOUS
<1>1. UNCHANGED <<quorum_state, snapshot, log_start, log, role, current_term, voted_for,
                  voter_set, votes_received, log_end_offset, ballots, elections>>
      /\ UNCHANGED msgs
  BY DEF vars, diskVars, nodeVars, voteVars, attachVars, offsetVars, history
<1>2. TypeOK'
  BY NextType DEF IInv
<1>3. VotesAreDurable' /\ CandidatesVoted'
  BY <1>1, <1>2, MessagesKeep
<1> QED
  BY Zenon, <1>1, <1>2, <1>3, SameKeeps DEF IInv

\* The inductive invariant holds throughout.
THEOREM Inductive == Spec => []IInv
<1>1. IInv /\ [Next]_vars => IInv'
  BY StutterKeeps, StartKeeps, TimeoutKeeps, PreVoteKeeps, RequestKeeps, ResponseKeeps
     DEF Next
<1> QED
  BY InitKeeps, <1>1, PTL DEF Spec

\* A vote that left a node is durable there, over crashes and failing saves.
THEOREM VotesDurable == Spec => []VotesAreDurable
<1>1. IInv => VotesAreDurable
  BY DEF IInv
<1> QED
  BY <1>1, Inductive, PTL

\* A node that may be bootstrapped has never voted.
THEOREM UnattachedFresh == Spec => []UnattachedNeverVoted
<1>1. IInv => UnattachedNeverVoted
  BY DEF IInv, UnattachedNeverVoted, MemoryCoversDisk, DiskCoversBallots
<1> QED
  BY <1>1, Inductive, PTL

\* A leader's log store ends with its own term and holds the voters.
THEOREM LeaderWrote == Spec => []LeaderWroteItsTerm
<1>1. IInv => LeaderWroteItsTerm
  BY DEF IInv
<1> QED
  BY <1>1, Inductive, PTL

\* A node that ever won an election knows the voters whenever it runs.
THEOREM WinnersKnow == Spec => []WinnersKeepVoters
<1>1. IInv => WinnersKeepVoters
  BY DEF IInv
<1> QED
  BY <1>1, Inductive, PTL

-----------------------------------------------------------------------------
(* Steps of Election. *)

\* A save of a vote handler is a ballot of Election, and no save takes the
\* durable term back.
LEMMA SaveStep ==
    ASSUME IInv, NEW n \in Node, NEW t \in Term, NEW v \in Node \cup {Nil},
           role[n] # "Down",
           \/ UNCHANGED <<quorum_state, ballots>>
           \/ MaySave(n, t, v) /\ Save(n, t, v)
    PROVE  /\ UNCHANGED ballots \/ (v \in Node /\ E!Cast(n, t, v))
           /\ \A k \in Node :
                quorum_state'[k].current_term >= quorum_state[k].current_term
<1>1. TypeOK /\ MemoryCoversDisk /\ DiskCoversBallots
  BY DEF IInv
<1>2. \A k \in Node : quorum_state[k].current_term \in Nat
  BY <1>1, BoundsAssumption DEF TypeOK, QuorumStates, Term
<1>3. CASE UNCHANGED <<quorum_state, ballots>>
  BY <1>2, <1>3
<1>4. CASE MaySave(n, t, v) /\ Save(n, t, v)
  <2>1. /\ quorum_state[n].current_term <= t
        /\ v # Nil => E!Cast(n, t, v)
        /\ v = Nil => UNCHANGED ballots
    BY <1>1, <1>4, SaveCasts
  <2>2. /\ quorum_state'[n].current_term = t
        /\ \A k \in Node \ {n} : quorum_state'[k] = quorum_state[k]
    BY <1>1, <1>4 DEF Save, QuorumState, TypeOK
  <2>3. t \in Nat
    BY BoundsAssumption DEF Term
  <2> QED
    BY <1>2, <2>1, <2>2, <2>3
<1> QED
  BY <1>3, <1>4

\* What handle_vote_request saves, it may.
LEMMA RequestSaves ==
    ASSUME IInv, NEW m \in msgs, handle_vote_request(m.dest, m)
    PROVE  /\ UNCHANGED elections
           /\ m.dest \in Node /\ role[m.dest] # "Down"
           /\ \/ UNCHANGED <<quorum_state, ballots>>
              \/ \E t \in Term, v \in Node \cup {Nil} :
                    MaySave(m.dest, t, v) /\ Save(m.dest, t, v)
<1> DEFINE n       == m.dest
           newer   == m.term > current_term[n]
           t       == IF newer THEN m.term ELSE current_term[n]
           vote    == IF newer THEN Nil ELSE voted_for[n]
<1>1. m \in Message /\ UNCHANGED elections /\ role[n] # "Down"
  BY Zenon DEF handle_vote_request, Receives, IInv, TypeOK
<1>2. n \in Node /\ m.source \in Node /\ m.term \in Term
  BY <1>1 DEF Message
<1>3. t \in Term /\ current_term[n] \in Nat /\ m.term \in Nat
  BY <1>2, BoundsAssumption DEF IInv, TypeOK, Term
<1>4. \/ UNCHANGED <<quorum_state, ballots>>
      \/ newer /\ Save(n, t, Nil)
      \/ vote \in {Nil, m.source} /\ Save(n, t, m.source)
  BY Zenon DEF handle_vote_request, NoSave, SaveFails
<1>5. newer => MaySave(n, t, Nil)
  BY DEF MaySave
<1>6. vote \in {Nil, m.source} => MaySave(n, t, m.source)
  BY <1>2, NilAssumption DEF MaySave
<1> QED
  BY <1>1, <1>2, <1>3, <1>4, <1>5, <1>6

\* The durable term of a node never goes back.
LEMMA TermStep ==
    IInv /\ [Next]_vars =>
        \A k \in Node : quorum_state'[k].current_term >= quorum_state[k].current_term
<1> SUFFICES ASSUME IInv, [Next]_vars
             PROVE  \A k \in Node :
                      quorum_state'[k].current_term >= quorum_state[k].current_term
  OBVIOUS
<1> DEFINE Grows == \A k \in Node :
                      quorum_state'[k].current_term >= quorum_state[k].current_term
<1>1. UNCHANGED quorum_state => Grows
  BY BoundsAssumption DEF IInv, TypeOK, QuorumStates, Term
<1>2. ASSUME NEW n \in Node, handle_election_timeout(n)
      PROVE  Grows
  <2>1. /\ current_term[n] + 1 \in Term /\ role[n] # "Down"
        /\ MaySave(n, current_term[n] + 1, n)
    BY <1>2, BoundsAssumption DEF handle_election_timeout, IInv, TypeOK, Term, MaySave
  <2>2. UNCHANGED <<quorum_state, ballots>> \/ Save(n, current_term[n] + 1, n)
    BY <1>2 DEF handle_election_timeout, SaveFails
  <2> QED
    BY <2>1, <2>2, SaveStep
<1>3. ASSUME NEW m \in msgs, handle_vote_request(m.dest, m)
      PROVE  Grows
  <2>1. /\ m.dest \in Node /\ role[m.dest] # "Down"
        /\ \/ UNCHANGED <<quorum_state, ballots>>
           \/ \E t \in Term, v \in Node \cup {Nil} :
                 MaySave(m.dest, t, v) /\ Save(m.dest, t, v)
    BY <1>3, RequestSaves
  <2>2. CASE UNCHANGED <<quorum_state, ballots>>
    BY <1>1, <2>2
  <2>3. ASSUME NEW t \in Term, NEW v \in Node \cup {Nil},
               MaySave(m.dest, t, v), Save(m.dest, t, v)
        PROVE  Grows
    BY <2>1, <2>3, SaveStep
  <2> QED
    BY <2>1, <2>2, <2>3
<1>4. ASSUME NEW m \in msgs, handle_vote_response(m.dest, m)
      PROVE  Grows
  <2>1. m \in Message /\ role[m.dest] # "Down"
    BY Zenon, <1>4 DEF handle_vote_response, Receives, IInv, TypeOK
  <2>2. m.dest \in Node /\ m.term \in Term
    BY <2>1 DEF Message
  <2>3. \/ UNCHANGED <<quorum_state, ballots>>
        \/ MaySave(m.dest, m.term, Nil) /\ Save(m.dest, m.term, Nil)
    BY <1>4 DEF handle_vote_response, NoSave, SaveFails, MaySave
  <2> QED
    BY <2>1, <2>2, <2>3, SaveStep
<1>5. ASSUME NEW n \in Node,
             \/ Crash(n) \/ NewUnattached(n) \/ Recover(n) \/ Bootstrap(n)
             \/ \E v \in Node : PeerPreVote(n, v)
      PROVE  UNCHANGED quorum_state
  BY Zenon, <1>5 DEF Crash, NewUnattached, Recover, Bootstrap, PeerPreVote, diskVars
<1>6. CASE UNCHANGED vars
  BY <1>1, <1>6 DEF vars, diskVars
<1> QED
  BY <1>1, <1>2, <1>3, <1>4, <1>5, <1>6 DEF Next

\* No step takes a node's durable term back.
THEOREM DurableTerm == Spec => DurableTermMonotone
<1>1. IInv /\ [Next]_vars =>
        [\A n \in Node :
           quorum_state'[n].current_term >= quorum_state[n].current_term]_vars
  BY TermStep
<1> QED
  BY <1>1, Inductive, PTL DEF Spec, DurableTermMonotone

\* The instance of Election counts with the same Cardinality.
LEMMA SameCardinality == \A S : E!Cardinality(S) = Cardinality(S)
BY Zenon DEF Cardinality, E!Cardinality

\* What the proofs use of cardinalities.  It is proved at the end, where the
\* theorems on finite sets come into scope.
CardinalityFacts ==
    /\ \A x : Cardinality({x}) = 1
    /\ Cardinality(Voters) \in Nat
    /\ Voters # {} => Cardinality(Voters) # 0
    /\ \A S \in SUBSET Voters :
          Cardinality(S) \in Nat /\ \A R \in SUBSET S : Cardinality(R) <= Cardinality(S)

\* n wins term t with votes that are all ballots for it.
LEMMA WinStep ==
    ASSUME CardinalityFacts, TypeOK, NEW n \in Node, NEW t \in Term,
           NEW votes \in SUBSET Voters, NEW B,
           \A v \in votes : E!Ballot(v, t, n) \in B,
           voter_set[n] = Voters, has_quorum(n, votes)
    PROVE  E!Majority(E!Support(B, t, n), Voters)
<1> DEFINE S == E!Support(B, t, n)
<1>1. votes \in SUBSET S /\ S \in SUBSET Voters
  BY DEF E!Support
<1> HIDE DEF S
<1>2. /\ Cardinality(votes) <= Cardinality(S)
      /\ Cardinality(votes) \in Nat /\ Cardinality(S) \in Nat /\ Cardinality(Voters) \in Nat
  BY Zenon, <1>1 DEF CardinalityFacts
<1>3. Cardinality(votes) >= Cardinality(Voters) \div 2 + 1
  BY SameCardinality DEF has_quorum, E!Majority
<1>4. Cardinality(S) >= Cardinality(Voters) \div 2 + 1
  BY <1>2, <1>3
<1> QED
  BY <1>4, SameCardinality DEF S, E!Majority

\* become_leader leaves the elections alone or wins its term.
LEMMA BecomeLeaderWins ==
    ASSUME NEW n, NEW t, become_leader(n, t)
    PROVE  UNCHANGED elections \/ elections' = elections \cup {E!Election(t, n)}
BY DEF become_leader, BeCandidate, BeLeader

LEMMA TimeoutStep ==
    ASSUME CardinalityFacts, IInv, Node = Voters \/ Cardinality(Voters) # 1,
           NEW n \in Node, handle_election_timeout(n)
    PROVE  E!Next \/ UNCHANGED E!vars
<1> DEFINE t == current_term[n] + 1
<1>1. t \in Term /\ role[n] # "Down" /\ MaySave(n, t, n)
  BY BoundsAssumption DEF handle_election_timeout, IInv, TypeOK, Term, MaySave
<1>2. E!Term = Term
  BY DEF E!Term, Term
<1> HIDE DEF t
<1>3. Save(n, t, n) => E!Cast(n, t, n)
  BY <1>1, NilAssumption, SaveCasts DEF IInv
<1>4. CASE SaveFails /\ BeCandidate(n)
  BY <1>4 DEF SaveFails, BeCandidate, E!vars
<1>5. CASE Save(n, t, n) /\ BeCandidate(n)
  BY <1>1, <1>2, <1>3, <1>5 DEF BeCandidate, E!Next
<1>6. CASE Save(n, t, n) /\ has_quorum(n, {n}) /\ become_leader(n, t)
  <2>1. voter_set[n] = Voters
    BY Zenon, <1>6 DEF has_quorum, IInv, KnownVoters
  <2>2. E!Ballot(n, t, n) \in ballots'
    BY <1>3, <1>6 DEF E!Cast
  <2>3. n \in Voters
    <3>1. 1 >= Cardinality(Voters) \div 2 + 1 /\ Voters # {}
      BY Zenon, <1>6, <2>1, SameCardinality DEF has_quorum, E!Majority, CardinalityFacts
    <3>2. Cardinality(Voters) \in Nat /\ Cardinality(Voters) # 0
      BY Zenon, <3>1 DEF CardinalityFacts
    <3>3. Cardinality(Voters) = 1
      BY <3>1, <3>2
    <3> QED
      BY <3>3
  <2>4. E!Majority(E!Support(ballots', t, n), Voters)
    BY <1>1, <1>6, <2>1, <2>2, <2>3, WinStep DEF IInv
  <2> QED
    BY <1>1, <1>2, <1>3, <1>6, <2>4, BecomeLeaderWins DEF E!Next, E!Win
<1> QED
  BY <1>4, <1>5, <1>6 DEF handle_election_timeout, t

LEMMA ResponseStep ==
    ASSUME CardinalityFacts, IInv, NEW m \in msgs, handle_vote_response(m.dest, m)
    PROVE  E!Next \/ UNCHANGED E!vars
<1> DEFINE n == m.dest
           votes == votes_received[n] \cup {m.source}
<1>1. TypeOK /\ m \in Message /\ m.type = "VoteResponse"
  BY Zenon DEF handle_vote_response, Receives, IInv, TypeOK
<1>2. n \in Node /\ m.source \in Node
  BY <1>1 DEF Message
<1>3. CASE /\ \/ Save(n, m.term, Nil) /\ UNCHANGED failures
              \/ SaveFails
           /\ UNCHANGED <<log, offsetVars, elections>>
  BY <1>3 DEF Save, SaveFails, E!vars
<1>4. CASE /\ CountsVote(n, m)
           /\ IF has_quorum(n, votes) THEN become_leader(n, current_term[n])
              ELSE UNCHANGED <<log, role, leader_id, offsetVars, elections, failures>>
           /\ NoSave
  <2>1. /\ voter_set[n] = Voters
        /\ role[n] = "Candidate"
        /\ current_term[n] \in Term
        /\ m.source \in Voters
        /\ UNCHANGED ballots
    BY Zenon, <1>1, <1>2, <1>4 DEF CountsVote, IInv, KnownVoters, TypeOK, NoSave
  <2>2. /\ E!Ballot(m.source, current_term[n], n) \in ballots
        /\ E!Ballot(n, current_term[n], n) \in ballots
        /\ n \in Voters
    BY Zenon, <1>1, <1>4, MessagesBacked DEF CountsVote, Backed, IInv
  <2>3. \A v \in votes : v \in Voters /\ E!Ballot(v, current_term[n], n) \in ballots
    BY <1>2, <2>1, <2>2 DEF IInv, VotesAreBallots
  <2>4. CASE ~has_quorum(n, votes)
    BY <1>4, <2>1, <2>4 DEF E!vars
  <2>5. CASE has_quorum(n, votes)
    <3>1. E!Majority(E!Support(ballots, current_term[n], n), Voters)
      BY <1>1, <1>2, <2>1, <2>3, <2>5, WinStep
    <3>2. UNCHANGED elections
          \/ elections' = elections \cup {E!Election(current_term[n], n)}
      BY <1>4, <2>5, BecomeLeaderWins
    <3>3. E!Term = Term
      BY DEF E!Term, Term
    <3> QED
      BY <1>2, <2>1, <3>1, <3>2, <3>3 DEF E!Next, E!Win, E!vars
  <2> QED
    BY <2>4, <2>5
<1> QED
  BY <1>3, <1>4 DEF handle_vote_response

LEMMA RequestStep ==
    ASSUME IInv, NEW m \in msgs, handle_vote_request(m.dest, m)
    PROVE  E!Next \/ UNCHANGED E!vars
<1>1. /\ UNCHANGED elections
      /\ m.dest \in Node /\ role[m.dest] # "Down"
      /\ \/ UNCHANGED <<quorum_state, ballots>>
         \/ \E t \in Term, v \in Node \cup {Nil} :
               MaySave(m.dest, t, v) /\ Save(m.dest, t, v)
  BY RequestSaves
<1>2. CASE UNCHANGED <<quorum_state, ballots>>
  BY <1>1, <1>2 DEF E!vars
<1>3. ASSUME NEW t \in Term, NEW v \in Node \cup {Nil},
             MaySave(m.dest, t, v), Save(m.dest, t, v)
      PROVE  E!Next \/ UNCHANGED E!vars
  <2>1. UNCHANGED ballots \/ (v \in Node /\ E!Cast(m.dest, t, v))
    BY <1>1, <1>3, SaveStep
  <2>2. E!Term = Term
    BY DEF E!Term, Term
  <2> QED
    BY <1>1, <2>1, <2>2 DEF E!Next, E!vars
<1> QED
  BY <1>1, <1>2, <1>3

LEMMA ElectionStep ==
    ASSUME CardinalityFacts, Node = Voters \/ Cardinality(Voters) # 1
    PROVE  IInv /\ [Next]_vars => [E!Next]_(E!vars)
<1> SUFFICES ASSUME IInv, [Next]_vars
             PROVE  E!Next \/ UNCHANGED E!vars
  OBVIOUS
<1>1. ASSUME NEW n \in Node,
             \/ Crash(n) \/ NewUnattached(n) \/ Recover(n) \/ Bootstrap(n)
             \/ \E v \in Node : PeerPreVote(n, v)
      PROVE  UNCHANGED E!vars
  BY Zenon, <1>1 DEF Crash, NewUnattached, Recover, Bootstrap, PeerPreVote, history, E!vars
<1>2. CASE UNCHANGED vars
  BY <1>2 DEF vars, history, E!vars
<1> QED
  BY <1>1, <1>2, TimeoutStep, RequestStep, ResponseStep DEF Next

INSTANCE FiniteSetTheorems

LEMMA CardinalityFactsHold == CardinalityFacts
<1>1. \A x : Cardinality({x}) = 1
  BY Zenon, FS_Singleton
<1>2. Cardinality(Voters) \in Nat /\ (Voters # {} => Cardinality(Voters) # 0)
  BY VotersAssumption, FS_CardinalityType, FS_EmptySet
<1>3. ASSUME NEW S \in SUBSET Voters, NEW R \in SUBSET S
      PROVE  Cardinality(S) \in Nat /\ Cardinality(R) <= Cardinality(S)
  <2>1. IsFiniteSet(S)
    BY VotersAssumption, FS_Subset
  <2> QED
    BY <2>1, FS_Subset, FS_CardinalityType
<1>4. \A S \in SUBSET Voters : S \in SUBSET S
  OBVIOUS
<1> QED
  BY Zenon, <1>1, <1>2, <1>3, <1>4 DEF CardinalityFacts

\* Unless a single voter has nodes beside it that are no voters, the cluster
\* implements Election.
THEOREM Refinement ==
    ASSUME Node = Voters \/ Cardinality(Voters) # 1
    PROVE  Spec => Implements
<1>1. Init => E!Init
  BY DEF Init, E!Init
<1>2. IInv /\ [Next]_vars => [E!Next]_(E!vars)
  BY ElectionStep, CardinalityFactsHold
<1> QED
  BY <1>1, <1>2, Inductive, PTL DEF Spec, Implements, E!Spec

EP == INSTANCE ElectionProofs

\* What is proved of Election holds of the instance RaftNode uses.
LEMMA ElectionKeepsItsPromise == E!Spec => []E!ElectionSafety
<1>1. EP!IsFiniteSet(Voters)
  BY VotersAssumption DEF EP!IsFiniteSet, IsFiniteSet
<1>2. EP!Spec => []EP!ElectionSafety
  BY EP!ElectionSafetyHolds, <1>1
<1>3. \A S : E!Cardinality(S) = EP!Cardinality(S)
  BY Zenon DEF E!Cardinality, EP!Cardinality
<1>4. E!Init => EP!Init
  BY DEF E!Init, EP!Init
<1>5. [E!Next]_(E!vars) => [EP!Next]_(EP!vars)
  BY <1>3 DEF E!Next, EP!Next, E!Cast, EP!Cast, E!Win, EP!Win, E!MayCast, EP!MayCast,
     E!Ballot, EP!Ballot, E!Support, EP!Support, E!Election, EP!Election, E!Majority,
     EP!Majority, E!Term, EP!Term, E!vars, EP!vars
<1>6. EP!ElectionSafety => E!ElectionSafety
  BY DEF EP!ElectionSafety, E!ElectionSafety
<1> QED
  BY <1>2, <1>4, <1>5, <1>6, PTL DEF E!Spec, EP!Spec

\* So at most one node ever leads a term.
THEOREM ElectionSafe ==
    ASSUME Node = Voters \/ Cardinality(Voters) # 1
    PROVE  Spec => []ElectionSafety
<1>1. Spec => E!Spec
  BY Refinement DEF Implements
<1>2. E!ElectionSafety => ElectionSafety
  BY DEF ElectionSafety
<1> QED
  BY <1>1, <1>2, ElectionKeepsItsPromise, PTL
=============================================================================
