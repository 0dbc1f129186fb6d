--------------------------- MODULE RaftNodeInvariant --------------------------
(***************************************************************************)
(* RaftNode is type correct for every cluster, every set of disks and      *)
(* every bound and stores what it takes as committed; and what its helpers *)
(* and its vote handlers do to the inductive invariant.                    *)
(***************************************************************************)
EXTENDS RaftNode, WellFoundedInduction, TLAPS

USE SMTT(20), SMTT(21), Zenon, SMTT(22), SMTT(23)

-----------------------------------------------------------------------------
(* The log store's latest VotersRecord. *)

\* A nonempty set of naturals has a least element.
LEMMA LeastNat ==
    ASSUME NEW S \in SUBSET Nat, S # {}
    PROVE  \E x \in S : \A y \in S : x <= y
<1>1. PICK x \in S : \A y \in S : ~(<<y, x>> \in OpToRel(<, Nat))
  BY Zenon, NatLessThanWellFounded, WFMin
<1>2. \A y \in S : ~(y < x)
  BY Zenon, <1>1 DEF OpToRel
<1> QED
  BY <1>2

\* When the log store has a VotersRecord, LatestVoters reads one.
LEMMA LatestVotersRecord ==
    ASSUME TypeOK, NEW n \in Node, log_has_voters_record(n)
    PROVE  \E i \in 1 .. Len(log[n]) :
                IsVotersRecord(n, i) /\ LatestVoters(n) = log[n][i].voters
<1> DEFINE L == Len(log[n])
           P(i) == /\ IsVotersRecord(n, i)
                   /\ \A j \in i + 1 .. L : ~IsVotersRecord(n, j)
           S == {d \in Nat : d < L /\ IsVotersRecord(n, L - d)}
<1>1. L \in Nat
  BY DEF TypeOK
<1>2. PICK k \in 1 .. L : IsVotersRecord(n, k)
  BY DEF log_has_voters_record
<1> HIDE DEF L
<1>3. L - k \in Nat /\ L - k < L /\ L - (L - k) = k
  BY <1>1, <1>2
<1>4. L - k \in S
  BY <1>2, <1>3
<1>5. PICK x \in S : \A y \in S : x <= y
  BY Zenon, <1>4, LeastNat
<1>6. L - x \in 1 .. L
  BY <1>1, <1>5
<1>7. ASSUME NEW j \in L - x + 1 .. L, IsVotersRecord(n, j)
      PROVE  FALSE
  <2>1. L - j \in Nat /\ L - j < x /\ L - (L - j) = j /\ L - j < L
    BY <1>1, <1>5, <1>6
  <2>2. L - j \in S
    BY <2>1, <1>7
  <2> QED
    BY <2>1, <2>2, <1>5
<1>8. P(L - x)
  BY <1>5, <1>7
<1>9. \E i \in 1 .. L : P(i)
  BY <1>6, <1>8
<1> QED
  BY Zenon, <1>9 DEF LatestVoters, L

-----------------------------------------------------------------------------
(* Type correctness. *)

LEMMA SaveType ==
    ASSUME TypeOK, NEW n \in Node, NEW t \in Term, NEW v \in Node \cup {Nil},
           Save(n, t, v)
    PROVE  /\ quorum_state' \in [Node -> QuorumStates]
           /\ ballots' \subseteq [voter : Node, term : Term, candidate : Node]
BY DEF TypeOK, Save, QuorumState, QuorumStates, E!Ballot, E!TypeOK, E!Term, Term

LEMMA BecomeLeaderType ==
    ASSUME TypeOK, NEW n \in Node, NEW t \in Term, become_leader(n, t)
    PROVE  /\ log' \in [Node -> Seq(Entry)]
           /\ role' \in [Node -> Role]
           /\ leader_id' \in [Node -> Node \cup {Nil}]
           /\ log_end_offset' \in [Node -> Nat]
           /\ high_watermark' \in [Node -> Nat]
           /\ elections' \subseteq [term : Term, leader : Node]
           /\ failures' \in Nat
<1> DEFINE lcm     == Append(log[n], Lcm(t))
           written == IF ~log_has_voters_record(n)
                      THEN Append(lcm, VotersRecord(t, voter_set[n])) ELSE lcm
<1>1. lcm \in Seq(Entry) /\ written \in Seq(Entry)
  <2>1. Lcm(t) \in Entry /\ VotersRecord(t, voter_set[n]) \in Entry
    BY DEF TypeOK, Lcm, VotersRecord, Entry
  <2>2. log[n] \in Seq(Entry)
    BY DEF TypeOK
  <2> QED
    BY <2>1, <2>2
<1>2. PICK end \in Nat : BeCandidate(n) \/ BeLeader(n, t, end)
  <2>1. log_start[n] + Len(written) \in Nat
    BY <1>1 DEF TypeOK
  <2> QED
    BY <2>1 DEF become_leader
<1> HIDE DEF lcm, written
<1>3. log' \in [Node -> Seq(Entry)]
  BY Zenon, <1>1 DEF become_leader, lcm, written, TypeOK
<1>4. /\ role' \in [Node -> Role]
      /\ leader_id' \in [Node -> Node \cup {Nil}]
      /\ log_end_offset' \in [Node -> Nat]
      /\ high_watermark' \in [Node -> Nat]
  <2>1. CASE BeCandidate(n)
    BY <2>1 DEF BeCandidate, TypeOK, offsetVars, Role
  <2>2. CASE BeLeader(n, t, end)
    BY <2>2 DEF BeLeader, TypeOK, Role
  <2> QED
    BY <1>2, <2>1, <2>2
<1>5. elections' \subseteq [term : Term, leader : Node]
  BY <1>2 DEF BeCandidate, BeLeader, TypeOK, E!TypeOK, E!Election, E!Term, Term
<1>6. failures' \in Nat
  BY DEF become_leader, Fails, TypeOK
<1> QED
  BY <1>3, <1>4, <1>5, <1>6

LEMMA FollowType ==
    ASSUME TypeOK, NEW n \in Node, NEW t \in Term, NEW v \in Node \cup {Nil},
           Follow(n, t, v)
    PROVE  /\ current_term' \in [Node -> Term]
           /\ voted_for' \in [Node -> Node \cup {Nil}]
           /\ role' \in [Node -> Role]
           /\ leader_id' \in [Node -> Node \cup {Nil}]
           /\ votes_received' \in [Node -> SUBSET Node]
BY DEF Follow, TypeOK, Role

LEMMA LastType ==
    ASSUME TypeOK, NEW n \in Node
    PROVE  LastOffset(n) \in Nat /\ LastTerm(n) \in Term
<1>1. log[n] \in Seq(Entry) /\ log_start[n] \in Nat
  BY DEF TypeOK
<1>2. LastOffset(n) \in Nat
  BY <1>1 DEF LastOffset, StoreEnd
<1>3. CASE Len(log[n]) = 0
  BY <1>2, <1>3, BoundsAssumption DEF LastTerm, Term
<1>4. CASE Len(log[n]) # 0
  <2>1. log[n][Len(log[n])] \in Entry
    BY <1>1, <1>4
  <2> QED
    BY <1>2, <1>4, <2>1 DEF LastTerm, Entry
<1> QED
  BY <1>3, <1>4

LEMMA VoteRequestType ==
    ASSUME TypeOK, NEW n \in Node, NEW v \in Node, NEW t \in Term, NEW pre \in BOOLEAN
    PROVE  VoteRequest(n, v, cluster_id[n], t, LastOffset(n), LastTerm(n), pre) \in Message
<1>1. cluster_id[n] \in {ClusterId, Nil}
  BY DEF TypeOK
<1> QED
  BY <1>1, LastType DEF VoteRequest, Message

LEMMA ReplyType ==
    ASSUME TypeOK, NEW m \in msgs, NEW t \in Term, NEW granted \in BOOLEAN,
           Reply(m.dest, m, t, granted), m.type = "VoteRequest"
    PROVE  msgs' \subseteq Message
BY DEF Reply, Send, VoteResponse, Message, TypeOK

LEMMA RecoveredVotersType ==
    ASSUME TypeOK, NEW n \in Node
    PROVE  RecoveredVoters(n) \in SUBSET Node
<1>1. snapshot[n].voters \in SUBSET Node
  BY DEF TypeOK, Snapshots
<1>2. log_has_voters_record(n) => LatestVoters(n) \in SUBSET Node
  <2> SUFFICES ASSUME log_has_voters_record(n)
               PROVE  LatestVoters(n) \in SUBSET Node
    OBVIOUS
  <2>1. PICK i \in 1 .. Len(log[n]) : LatestVoters(n) = log[n][i].voters
    BY LatestVotersRecord
  <2>2. log[n][i] \in Entry
    BY DEF TypeOK
  <2> QED
    BY <2>1, <2>2 DEF Entry
<1> QED
  BY <1>1, <1>2 DEF RecoveredVoters

LEMMA InitType == Init => TypeOK
<1> SUFFICES ASSUME Init
             PROVE  TypeOK
  OBVIOUS
<1>1. PICK disk \in [Node -> InitDisk] :
        /\ quorum_state = [n \in Node |-> disk[n].quorum_state]
        /\ snapshot = [n \in Node |-> disk[n].snapshot]
        /\ log_start = [n \in Node |-> disk[n].log_start]
        /\ log = [n \in Node |-> disk[n].log]
  BY DEF Init
<1>2. \A n \in Node : disk[n] \in Disks
  BY <1>1, DiskAssumption
<1>3. /\ quorum_state \in [Node -> QuorumStates]
      /\ snapshot \in [Node -> Snapshots]
      /\ log_start \in [Node -> Nat]
      /\ log \in [Node -> Seq(Entry)]
  BY <1>1, <1>2 DEF Disks
<1>4. E!TypeOK
  BY DEF Init, E!TypeOK
<1> QED
  BY <1>3, <1>4, BoundsAssumption DEF Init, TypeOK, Role, Term

LEMMA StartType ==
    ASSUME TypeOK, NEW n \in Node,
           Crash(n) \/ NewUnattached(n) \/ Recover(n) \/ Bootstrap(n)
    PROVE  TypeOK'
<1>1. CASE Crash(n)
  <2>1. UNCHANGED <<quorum_state, snapshot, log_start, log, msgs, ballots, elections,
                    failures>>
    BY <1>1 DEF Crash, diskVars, history
  <2>2. /\ role' \in [Node -> Role]
        /\ current_term' \in [Node -> Term]
        /\ voted_for' \in [Node -> Node \cup {Nil}]
        /\ leader_id' \in [Node -> Node \cup {Nil}]
        /\ cluster_id' \in [Node -> {ClusterId, Nil}]
    BY <1>1, BoundsAssumption DEF Crash, TypeOK, Role, Term
  <2>3. /\ voter_set' \in [Node -> SUBSET Node]
        /\ votes_received' \in [Node -> SUBSET Node]
        /\ log_end_offset' \in [Node -> Nat]
        /\ high_watermark' \in [Node -> Nat]
        /\ bootstrapped' \in [Node -> BOOLEAN]
    BY <1>1 DEF Crash, TypeOK
  <2> QED
    BY Zenon, <2>1, <2>2, <2>3 DEF TypeOK, E!TypeOK
<1>2. CASE NewUnattached(n)
  BY <1>2 DEF NewUnattached, TypeOK, Role, diskVars, attachVars, offsetVars,
              history, E!TypeOK
<1>3. CASE Recover(n)
  <2>1. /\ quorum_state[n] \in QuorumStates
        /\ snapshot[n].end \in Nat
        /\ StoreEnd(n) \in Nat
    BY DEF TypeOK, Snapshots, StoreEnd
  <2>2. RecoveredVoters(n) \in SUBSET Node
    BY RecoveredVotersType
  <2>3. UNCHANGED <<quorum_state, snapshot, log_start, log, votes_received, msgs,
                    ballots, elections, failures>>
    BY <1>3 DEF Recover, diskVars, history
  <2>4. /\ role' \in [Node -> Role]
        /\ current_term' \in [Node -> Term]
        /\ voted_for' \in [Node -> Node \cup {Nil}]
        /\ leader_id' \in [Node -> Node \cup {Nil}]
        /\ cluster_id' \in [Node -> {ClusterId, Nil}]
    BY <1>3, <2>1 DEF Recover, TypeOK, Role, QuorumStates
  <2>5. /\ voter_set' \in [Node -> SUBSET Node]
        /\ log_end_offset' \in [Node -> Nat]
        /\ high_watermark' \in [Node -> Nat]
        /\ bootstrapped' \in [Node -> BOOLEAN]
    BY <1>3, <2>1, <2>2 DEF Recover, TypeOK
  <2> QED
    BY Zenon, <2>3, <2>4, <2>5 DEF TypeOK, E!TypeOK
<1>4. CASE Bootstrap(n)
  <2>1. UNCHANGED <<quorum_state, snapshot, log_start, log, log_end_offset,
                    high_watermark, msgs, ballots, elections, failures>>
    BY <1>4 DEF Bootstrap, diskVars, offsetVars, history
  <2>2. /\ role' \in [Node -> Role]
        /\ current_term' \in [Node -> Term]
        /\ voted_for' \in [Node -> Node \cup {Nil}]
        /\ leader_id' \in [Node -> Node \cup {Nil}]
    BY <1>4, BoundsAssumption DEF Bootstrap, TypeOK, Role, Term
  <2>3. /\ cluster_id' \in [Node -> {ClusterId, Nil}]
        /\ voter_set' \in [Node -> SUBSET Node]
        /\ votes_received' \in [Node -> SUBSET Node]
        /\ bootstrapped' \in [Node -> BOOLEAN]
    BY <1>4, VotersAssumption DEF Bootstrap, TypeOK
  <2> QED
    BY Zenon, <2>1, <2>2, <2>3 DEF TypeOK, E!TypeOK
<1> QED
  BY <1>1, <1>2, <1>3, <1>4

LEMMA TimeoutType ==
    ASSUME TypeOK, NEW n \in Node, handle_election_timeout(n)
    PROVE  TypeOK'
<1> DEFINE t == current_term[n] + 1
<1>1. t \in Term
  BY BoundsAssumption DEF handle_election_timeout, TypeOK, Term
<1>2. UNCHANGED <<snapshot, log_start, cluster_id, voter_set, bootstrapped>>
  BY DEF handle_election_timeout, attachVars
<1>3. /\ current_term' \in [Node -> Term]
      /\ voted_for' \in [Node -> Node \cup {Nil}]
      /\ votes_received' \in [Node -> SUBSET Node]
  BY <1>1 DEF handle_election_timeout, TypeOK
<1>4. ASSUME BeCandidate(n)
      PROVE  /\ role' \in [Node -> Role]
             /\ leader_id' \in [Node -> Node \cup {Nil}]
             /\ UNCHANGED <<log_end_offset, high_watermark, elections>>
  BY <1>4 DEF BeCandidate, TypeOK, Role, offsetVars
<1> HIDE DEF t
<1>5. CASE SaveFails /\ BeCandidate(n) /\ UNCHANGED <<log, msgs>>
  BY <1>2, <1>3, <1>4, <1>5 DEF TypeOK, SaveFails, Fails, E!TypeOK
<1>6. CASE /\ Save(n, t, n)
           /\ BeCandidate(n)
           /\ broadcast_vote_requests(n, t)
           /\ UNCHANGED <<log, failures>>
  <2>1. msgs' \subseteq Message
    <3>1. \A v \in Node : VoteRequest(n, v, cluster_id[n], t, LastOffset(n), LastTerm(n),
                                      FALSE) \in Message
      BY Zenon, <1>1, VoteRequestType
    <3>2. voter_set[n] \subseteq Node /\ msgs \subseteq Message
      BY DEF TypeOK
    <3> QED
      BY Zenon, <1>6, <3>1, <3>2 DEF broadcast_vote_requests, Send
  <2>2. /\ quorum_state' \in [Node -> QuorumStates]
        /\ ballots' \subseteq [voter : Node, term : Term, candidate : Node]
    BY <1>1, <1>6, SaveType
  <2> QED
    BY Zenon, <1>2, <1>3, <1>4, <1>6, <2>1, <2>2 DEF TypeOK, E!TypeOK, E!Term, Term
<1>7. CASE Save(n, t, n) /\ become_leader(n, t) /\ UNCHANGED msgs
  <2>1. /\ quorum_state' \in [Node -> QuorumStates]
        /\ ballots' \subseteq [voter : Node, term : Term, candidate : Node]
    BY <1>1, <1>7, SaveType
  <2> QED
    BY Zenon, <1>1, <1>2, <1>3, <1>7, <2>1, BecomeLeaderType DEF TypeOK, E!TypeOK, E!Term, Term
<1> QED
  BY <1>5, <1>6, <1>7 DEF handle_election_timeout, t

LEMMA RequestType ==
    ASSUME TypeOK, NEW m \in msgs, handle_vote_request(m.dest, m)
    PROVE  TypeOK'
<1> DEFINE n       == m.dest
           newer   == m.term > current_term[n]
           t       == IF newer THEN m.term ELSE current_term[n]
           vote    == IF newer THEN Nil ELSE voted_for[n]
           granted == m.term = t /\ vote \in {Nil, m.source} /\ LogOk(n, m)
           votes   == granted /\ ~m.is_pre_vote
           SaveTerm == IF newer THEN Save(n, t, Nil) ELSE NoSave
<1>1. m \in Message /\ m.type = "VoteRequest"
  BY Zenon DEF handle_vote_request, Receives, TypeOK
<1>2. n \in Node /\ m.source \in Node /\ m.term \in Term
  BY <1>1 DEF Message
<1>3. t \in Term /\ vote \in Node \cup {Nil} /\ granted \in BOOLEAN
      /\ current_term[n] \in Term
  BY <1>2 DEF TypeOK
<1>4. UNCHANGED <<snapshot, log_start, log, cluster_id, voter_set, bootstrapped,
                  log_end_offset, high_watermark, elections>>
  BY DEF handle_vote_request, attachVars, offsetVars
<1> DEFINE Voted == /\ current_term' \in [Node -> Term]
                    /\ voted_for' \in [Node -> Node \cup {Nil}]
                    /\ role' \in [Node -> Role]
                    /\ leader_id' \in [Node -> Node \cup {Nil}]
                    /\ votes_received' \in [Node -> SUBSET Node]
           Saved == /\ quorum_state' \in [Node -> QuorumStates]
                    /\ ballots' \subseteq [voter : Node, term : Term, candidate : Node]
<1>5. ASSUME NoSave \/ SaveTerm
      PROVE  Saved
  <2>1. NoSave => Saved
    BY DEF NoSave, TypeOK, E!TypeOK, E!Term, Term
  <2>2. Save(n, t, Nil) => Saved
    BY <1>2, <1>3, SaveType
  <2> QED
    BY <1>5, <2>1, <2>2
<1>6. Voted
  <2>1. UNCHANGED voteVars => Voted
    BY DEF voteVars, TypeOK
  <2>2. ASSUME NEW v \in Node \cup {Nil}, Follow(n, t, v)
        PROVE  Voted
    BY <2>2, <1>2, <1>3, FollowType
  <2> QED
    BY Zenon, <1>2, <1>3, <2>1, <2>2 DEF handle_vote_request
<1>7. Saved
  <2>1. SaveFails => NoSave
    BY DEF SaveFails, NoSave
  <2>2. Save(n, t, m.source) => Saved
    BY <1>2, <1>3, SaveType
  <2> QED
    BY Zenon, <1>5, <2>1, <2>2 DEF handle_vote_request
<1>8. msgs' \subseteq Message
  <2>1. UNCHANGED msgs => msgs' \subseteq Message
    BY DEF TypeOK
  <2>2. \A u \in Term, g \in BOOLEAN : Reply(n, m, u, g) => msgs' \subseteq Message
    BY <1>1, ReplyType
  <2> QED
    BY Zenon, <1>3, <2>1, <2>2 DEF handle_vote_request
<1>9. failures' \in Nat
  <2>1. Fails \/ UNCHANGED failures
    BY Zenon DEF handle_vote_request, SaveFails
  <2> QED
    BY <2>1 DEF Fails, TypeOK
<1> QED
  BY <1>4, <1>6, <1>7, <1>8, <1>9 DEF TypeOK, E!TypeOK, E!Term, Term

LEMMA ResponseType ==
    ASSUME TypeOK, NEW m \in msgs, handle_vote_response(m.dest, m)
    PROVE  TypeOK'
<1> DEFINE n == m.dest
           votes == votes_received[n] \cup {m.source}
<1>1. m \in Message
  BY DEF TypeOK
<1>2. n \in Node /\ m.source \in Node /\ m.term \in Term
  BY <1>1 DEF Message
<1>3. UNCHANGED <<snapshot, log_start, cluster_id, voter_set, bootstrapped, msgs>>
  BY DEF handle_vote_response, attachVars
<1>4. CASE /\ Follow(n, m.term, Nil)
           /\ \/ Save(n, m.term, Nil) /\ UNCHANGED failures
              \/ SaveFails
           /\ UNCHANGED <<log, offsetVars, elections>>
  <2>1. /\ quorum_state' \in [Node -> QuorumStates]
        /\ ballots' \subseteq [voter : Node, term : Term, candidate : Node]
        /\ failures' \in Nat
    <3>1. CASE Save(n, m.term, Nil) /\ UNCHANGED failures
      BY <3>1, <1>2, SaveType DEF TypeOK
    <3>2. CASE SaveFails
      BY <3>2 DEF SaveFails, Fails, TypeOK, E!TypeOK, E!Term, Term
    <3> QED
      BY <1>4, <3>1, <3>2
  <2>2. /\ current_term' \in [Node -> Term]
        /\ voted_for' \in [Node -> Node \cup {Nil}]
        /\ role' \in [Node -> Role]
        /\ leader_id' \in [Node -> Node \cup {Nil}]
        /\ votes_received' \in [Node -> SUBSET Node]
    BY <1>2, <1>4, FollowType
  <2> QED
    BY <1>3, <1>4, <2>1, <2>2 DEF TypeOK, E!TypeOK, E!Term, Term, offsetVars
<1>5. CASE /\ votes_received' = [votes_received EXCEPT ![n] = votes]
           /\ IF has_quorum(n, votes) THEN become_leader(n, current_term[n])
              ELSE UNCHANGED <<log, role, leader_id, offsetVars, elections, failures>>
           /\ NoSave
           /\ UNCHANGED <<current_term, voted_for>>
  <2>1. votes_received' \in [Node -> SUBSET Node] /\ current_term[n] \in Term
    BY <1>2, <1>5 DEF TypeOK
  <2>2. CASE has_quorum(n, votes)
    BY Zenon, <1>2, <1>3, <1>5, <2>1, <2>2, BecomeLeaderType
       DEF TypeOK, E!TypeOK, E!Term, Term, NoSave
  <2>3. CASE ~has_quorum(n, votes)
    BY Zenon, <1>2, <1>3, <1>5, <2>1, <2>3 DEF TypeOK, E!TypeOK, NoSave, offsetVars
  <2> QED
    BY <2>2, <2>3
<1> QED
  BY <1>4, <1>5 DEF handle_vote_response

LEMMA PreVoteType ==
    ASSUME TypeOK, NEW c \in Node, NEW v \in Node, PeerPreVote(c, v)
    PROVE  TypeOK'
<1>1. current_term[c] + 1 \in Term
  BY BoundsAssumption DEF PeerPreVote, TypeOK, Term
<1>2. msgs' \subseteq Message
  <2>1. VoteRequest(c, v, cluster_id[c], current_term[c] + 1, LastOffset(c), LastTerm(c),
                    TRUE) \in Message
    BY Zenon, <1>1, VoteRequestType
  <2> QED
    BY Zenon, <2>1 DEF PeerPreVote, Send, TypeOK
<1> QED
  BY Zenon, <1>2 DEF PeerPreVote, TypeOK, diskVars, nodeVars, voteVars, attachVars,
              offsetVars, history, E!TypeOK

LEMMA NextType == TypeOK /\ [Next]_vars => TypeOK'
<1> SUFFICES ASSUME TypeOK, [Next]_vars
             PROVE  TypeOK'
  OBVIOUS
<1>1. CASE UNCHANGED vars
  BY <1>1 DEF vars, TypeOK, diskVars, nodeVars, voteVars, attachVars, offsetVars,
              history, E!TypeOK
<1>2. CASE Next
  BY <1>2, StartType, TimeoutType, PreVoteType, RequestType, ResponseType DEF Next
<1> QED
  BY <1>1, <1>2

\* Every variable keeps its type, whatever the cluster, its disks and bounds.
THEOREM TypeCorrect == Spec => []TypeOK
BY InitType, NextType, PTL DEF Spec

-----------------------------------------------------------------------------
(* What is committed is stored. *)

\* Becoming leader shortens no log store, and commits at most up to its end.
LEMMA LeaderStores ==
    ASSUME TypeOK, NEW n \in Node, NEW t \in Term, become_leader(n, t), UNCHANGED log_start
    PROVE  \A k \in Node :
              /\ StoreEnd(k)' >= StoreEnd(k)
              /\ high_watermark'[k] = high_watermark[k] \/ high_watermark'[k] <= StoreEnd(k)'
<1> DEFINE lcm     == Append(log[n], Lcm(t))
           written == IF ~log_has_voters_record(n)
                      THEN Append(lcm, VotersRecord(t, voter_set[n])) ELSE lcm
<1>1. lcm \in Seq(Entry) /\ written \in Seq(Entry)
      /\ Len(lcm) >= Len(log[n]) /\ Len(written) >= Len(log[n])
  <2>1. Lcm(t) \in Entry /\ VotersRecord(t, voter_set[n]) \in Entry /\ log[n] \in Seq(Entry)
    BY Zenon DEF TypeOK, Lcm, VotersRecord, Entry
  <2>2. lcm \in Seq(Entry) /\ Len(lcm) = Len(log[n]) + 1
    BY <2>1
  <2> HIDE DEF lcm
  <2> QED
    BY <2>1, <2>2
<1>2. \/ log' \in {log, [log EXCEPT ![n] = lcm]} /\ BeCandidate(n)
      \/ log' = [log EXCEPT ![n] = written] /\ BeLeader(n, t, log_start[n] + Len(written))
  BY Zenon DEF become_leader
<1> HIDE DEF lcm, written
<1>3. /\ log \in [Node -> Seq(Entry)] /\ log_start \in [Node -> Nat]
      /\ high_watermark \in [Node -> Nat]
  BY DEF TypeOK
<1>4. CASE log' \in {log, [log EXCEPT ![n] = lcm]} /\ BeCandidate(n)
  <2>1. \A k \in Node : log'[k] \in Seq(Entry) /\ Len(log'[k]) >= Len(log[k])
    BY <1>1, <1>3, <1>4
  <2>2. UNCHANGED high_watermark
    BY <1>4 DEF BeCandidate, offsetVars
  <2> QED
    BY <1>3, <2>1, <2>2 DEF StoreEnd
<1>5. CASE log' = [log EXCEPT ![n] = written] /\ BeLeader(n, t, log_start[n] + Len(written))
  <2>1. ASSUME NEW k \in Node, k # n
        PROVE  log'[k] = log[k] /\ high_watermark'[k] = high_watermark[k]
    BY <1>3, <1>5, <2>1 DEF BeLeader
  <2>2. log'[n] = written /\ high_watermark'[n] \in {high_watermark[n], log_start[n] + Len(written)}
    BY <1>3, <1>5 DEF BeLeader
  <2> QED
    BY <1>1, <1>3, <2>1, <2>2 DEF StoreEnd
<1> QED
  BY <1>2, <1>4, <1>5

\* Every step leaves what a node takes as committed in its stores.
LEMMA StoredStep ==
    ASSUME TypeOK, CommittedIsStored, [Next]_vars
    PROVE  CommittedIsStored'
<1>1. /\ snapshot \in [Node -> Snapshots] /\ log_start \in [Node -> Nat]
      /\ log \in [Node -> Seq(Entry)] /\ high_watermark \in [Node -> Nat]
      /\ current_term \in [Node -> Term]
  BY DEF TypeOK
<1>2. \A k \in Node : snapshot[k].end \in Nat /\ StoreEnd(k) \in Nat
  BY <1>1 DEF Snapshots, StoreEnd
<1>3. ASSUME UNCHANGED <<snapshot, log_start, log>>,
             \A k \in Node : high_watermark'[k] \in {high_watermark[k], 0, snapshot[k].end}
      PROVE  CommittedIsStored'
  BY <1>2, <1>3 DEF CommittedIsStored, StoreEnd
<1>4. ASSUME NEW n \in Node, NEW t \in Term, become_leader(n, t),
             UNCHANGED <<snapshot, log_start>>
      PROVE  CommittedIsStored'
  <2>1. \A k \in Node :
           /\ StoreEnd(k)' >= StoreEnd(k)
           /\ high_watermark'[k] = high_watermark[k] \/ high_watermark'[k] <= StoreEnd(k)'
    BY <1>1, <1>4, LeaderStores
  <2>2. \A k \in Node : StoreEnd(k)' \in Nat
    BY <1>1, <1>4, BecomeLeaderType DEF StoreEnd
  <2> QED
    BY <1>1, <1>2, <1>4, <2>1, <2>2 DEF CommittedIsStored
<1>5. ASSUME NEW n \in Node,
             \/ Crash(n) \/ NewUnattached(n) \/ Recover(n) \/ Bootstrap(n)
             \/ \E v \in Node : PeerPreVote(n, v)
      PROVE  CommittedIsStored'
  <2>1. UNCHANGED <<snapshot, log_start, log>>
    BY Zenon, <1>5 DEF Crash, NewUnattached, Recover, Bootstrap, PeerPreVote, diskVars
  <2>2. \/ UNCHANGED high_watermark
        \/ high_watermark' = [high_watermark EXCEPT ![n] = 0]
        \/ high_watermark' = [high_watermark EXCEPT ![n] = snapshot[n].end]
    BY Zenon, <1>5 DEF Crash, NewUnattached, Recover, Bootstrap, PeerPreVote, offsetVars, nodeVars
  <2> QED
    BY <1>1, <1>3, <2>1, <2>2
<1>6. ASSUME NEW n \in Node, handle_election_timeout(n)
      PROVE  CommittedIsStored'
  <2>1. UNCHANGED <<snapshot, log_start>> /\ current_term[n] + 1 \in Term
    BY <1>1, <1>6, BoundsAssumption DEF handle_election_timeout, Term
  <2>2. UNCHANGED <<log, high_watermark>> \/ become_leader(n, current_term[n] + 1)
    BY Zenon, <1>6 DEF handle_election_timeout, BeCandidate, offsetVars
  <2> QED
    BY <1>3, <1>4, <2>1, <2>2
<1>7. ASSUME NEW m \in msgs, handle_vote_request(m.dest, m)
      PROVE  CommittedIsStored'
  BY Zenon, <1>3, <1>7 DEF handle_vote_request, offsetVars
<1>8. ASSUME NEW m \in msgs, handle_vote_response(m.dest, m)
      PROVE  CommittedIsStored'
  <2>1. m.dest \in Node
    BY DEF TypeOK, Message
  <2>2. UNCHANGED <<snapshot, log_start>> /\ current_term[m.dest] \in Term
    BY <1>1, <1>8, <2>1 DEF handle_vote_response
  <2>3. UNCHANGED <<log, high_watermark>> \/ become_leader(m.dest, current_term[m.dest])
    BY Zenon, <1>8 DEF handle_vote_response, offsetVars
  <2> QED
    BY <1>3, <1>4, <2>1, <2>2, <2>3
<1>9. CASE UNCHANGED vars
  BY Zenon, <1>3, <1>9 DEF vars, diskVars, nodeVars, offsetVars
<1> QED
  BY Zenon, <1>5, <1>6, <1>7, <1>8, <1>9 DEF Next

\* What a node takes as committed is in its snapshot or in its log store, also
\* when the log it recovers ends before the snapshot (raft_node.rs, recover
\* and become_leader).
THEOREM CommittedStored == Spec => []CommittedIsStored
<1>1. Init => CommittedIsStored
  <2> SUFFICES ASSUME Init PROVE CommittedIsStored
    OBVIOUS
  <2>1. TypeOK /\ \A n \in Node : high_watermark[n] = 0
    BY InitType DEF Init
  <2>2. \A n \in Node : snapshot[n].end \in Nat
    BY <2>1 DEF TypeOK, Snapshots
  <2> QED
    BY <2>1, <2>2 DEF CommittedIsStored
<1>2. TypeOK /\ CommittedIsStored /\ [Next]_vars => CommittedIsStored'
  BY StoredStep
<1> QED
  BY <1>1, <1>2, TypeCorrect, PTL DEF Spec

-----------------------------------------------------------------------------
(* What the helpers do to the invariant. *)

\* Extending a log store keeps its VotersRecords.
LEMMA Extend ==
    ASSUME NEW s \in Seq(Entry), NEW e \in Entry
    PROVE  /\ Append(s, e) \in Seq(Entry)
           /\ Len(Append(s, e)) = Len(s) + 1
           /\ Append(s, e)[Len(s) + 1] = e
           /\ \A i \in 1 .. Len(s) : Append(s, e)[i] = s[i]
OBVIOUS

\* Whatever become_leader writes, a VotersRecord in the log store stays, says
\* Voters, and a leader has one and an entry of its term at the end.
LEMMA BecomeLeaderWrites ==
    ASSUME TypeOK, KnownVoters, NEW n \in Node, NEW t \in Term,
           voter_set[n] = Voters, become_leader(n, t), UNCHANGED log_start
    PROVE  /\ \A k \in Node \ {n} : log'[k] = log[k]
           /\ \A i \in 1 .. Len(log'[n]) : log'[n][i].entry_type = "VotersRecord" =>
                    log'[n][i].voters = Voters
           /\ log_has_voters_record(n) => log_has_voters_record(n)'
           /\ \/ BeCandidate(n)
              \/ /\ BeLeader(n, t, StoreEnd(n)')
                 /\ log_has_voters_record(n)'
                 /\ LastTerm(n)' = t
<1> DEFINE s       == log[n]
           lcm     == Append(s, Lcm(t))
           written == IF ~log_has_voters_record(n)
                      THEN Append(lcm, VotersRecord(t, voter_set[n])) ELSE lcm
           Good(q) == \A i \in 1 .. Len(q) :
                        q[i].entry_type = "VotersRecord" => q[i].voters = Voters
           Has(q)  == \E i \in 1 .. Len(q) : q[i].entry_type = "VotersRecord"
<1>1. s \in Seq(Entry) /\ Good(s) /\ (log_has_voters_record(n) <=> Has(s))
  BY DEF TypeOK, KnownVoters, IsVotersRecord, log_has_voters_record
<1>2. Lcm(t) \in Entry /\ VotersRecord(t, voter_set[n]) \in Entry
  BY DEF TypeOK, Lcm, VotersRecord, Entry
<1>3. /\ Lcm(t).entry_type # "VotersRecord" /\ Lcm(t).term = t
      /\ VotersRecord(t, voter_set[n]).entry_type = "VotersRecord"
      /\ VotersRecord(t, voter_set[n]).voters = Voters
      /\ VotersRecord(t, voter_set[n]).term = t
  BY DEF Lcm, VotersRecord
<1> HIDE DEF s
<1>4. lcm \in Seq(Entry) /\ Good(lcm) /\ (Has(s) => Has(lcm)) /\ Len(lcm) \in Nat \ {0}
      /\ lcm[Len(lcm)].term = t
  BY <1>1, <1>2, <1>3, Extend
<1> HIDE DEF lcm
<1>5. written \in Seq(Entry) /\ Good(written) /\ Has(written)
      /\ Len(written) \in Nat \ {0} /\ written[Len(written)].term = t
  <2>1. CASE log_has_voters_record(n)
    BY <1>1, <1>4, <2>1
  <2>2. CASE ~log_has_voters_record(n)
    <3> DEFINE vr == VotersRecord(t, voter_set[n])
    <3> HIDE DEF vr
    <3>1. Append(lcm, vr) \in Seq(Entry) /\ Good(Append(lcm, vr)) /\ Has(Append(lcm, vr))
          /\ Len(Append(lcm, vr)) \in Nat \ {0}
          /\ Append(lcm, vr)[Len(Append(lcm, vr))].term = t
      BY <1>2, <1>3, <1>4, Extend DEF vr
    <3> QED
      BY <2>2, <3>1 DEF vr
  <2> QED
    BY <2>1, <2>2
<1> HIDE DEF written
<1>6. \/ UNCHANGED log /\ BeCandidate(n)
      \/ log' = [log EXCEPT ![n] = lcm] /\ BeCandidate(n)
      \/ log' = [log EXCEPT ![n] = written] /\ BeLeader(n, t, log_start[n] + Len(written))
  BY DEF become_leader, lcm, written, s
<1>7. log \in [Node -> Seq(Entry)]
  BY DEF TypeOK
<1>8. CASE UNCHANGED log /\ BeCandidate(n)
  BY <1>1, <1>8 DEF log_has_voters_record, IsVotersRecord, s
<1>9. CASE log' = [log EXCEPT ![n] = lcm] /\ BeCandidate(n)
  BY <1>1, <1>4, <1>7, <1>9 DEF log_has_voters_record, IsVotersRecord, s
<1>10. CASE log' = [log EXCEPT ![n] = written] /\ BeLeader(n, t, log_start[n] + Len(written))
  <2>1. log'[n] = written /\ \A k \in Node \ {n} : log'[k] = log[k]
    BY <1>7, <1>10
  <2>2. log_has_voters_record(n)' /\ LastTerm(n)' = t
        /\ StoreEnd(n)' = log_start[n] + Len(written)
    BY <1>5, <2>1 DEF log_has_voters_record, IsVotersRecord, LastTerm, StoreEnd
  <2> QED
    BY <1>5, <1>10, <2>1, <2>2
<1> QED
  BY Zenon, <1>6, <1>8, <1>9, <1>10

\* n may save vote v of term t: newer than what memory holds, or the vote
\* memory holds or may still give.
MaySave(n, t, v) ==
    \/ t > current_term[n]
    \/ t = current_term[n] /\ v # Nil /\ voted_for[n] \in {Nil, v}

\* Such a save casts a ballot of Election, and the store still covers all.
LEMMA SaveCasts ==
    ASSUME TypeOK, MemoryCoversDisk, DiskCoversBallots,
           NEW n \in Node, NEW t \in Term, NEW v \in Node \cup {Nil},
           role[n] # "Down", MaySave(n, t, v), Save(n, t, v)
    PROVE  /\ DiskCoversBallots'
           /\ quorum_state[n].current_term <= t
           /\ v # Nil => E!Cast(n, t, v)
           /\ v = Nil => UNCHANGED ballots
<1>1. /\ quorum_state[n] \in QuorumStates
      /\ current_term[n] \in Nat /\ t \in Nat /\ quorum_state[n].current_term \in Nat
  BY BoundsAssumption DEF TypeOK, QuorumStates, Term
<1>2. \/ quorum_state[n].current_term < t
      \/ /\ quorum_state[n].current_term = t
         /\ v # Nil
         /\ quorum_state[n].voted_for \in {Nil, v}
  BY <1>1 DEF MemoryCoversDisk, MaySave
<1>3. /\ quorum_state'[n] = QuorumState(t, v, cluster_id[n])
      /\ \A k \in Node \ {n} : quorum_state'[k] = quorum_state[k]
  BY DEF Save, TypeOK
<1>4. ASSUME NEW b \in ballots
      PROVE  /\ b.voter \in Node /\ b.candidate \in Node /\ b.term \in Nat
             /\ b = [voter |-> b.voter, term |-> b.term, candidate |-> b.candidate]
  <2>1. b \in [voter : Node, term : 0 .. MaxTerm, candidate : Node]
    BY DEF TypeOK, E!TypeOK, E!Term
  <2> QED
    BY <2>1, BoundsAssumption
<1>5. ASSUME NEW b \in ballots, b.voter = n
      PROVE  b.term < t \/ (b.term = t /\ b.candidate = v /\ v # Nil)
  BY <1>1, <1>2, <1>4, <1>5, NilAssumption DEF DiskCoversBallots
<1>6. v # Nil => E!Cast(n, t, v)
  BY <1>4, <1>5 DEF Save, E!Cast, E!MayCast, E!Ballot
<1>7. v = Nil => UNCHANGED ballots
  BY DEF Save
<1>8. ASSUME NEW b \in ballots'
      PROVE  /\ quorum_state'[b.voter].saved
             /\ \/ b.term < quorum_state'[b.voter].current_term
                \/ /\ b.term = quorum_state'[b.voter].current_term
                   /\ b.candidate = quorum_state'[b.voter].voted_for
  <2>1. CASE b \in ballots /\ b.voter # n
    BY <1>3, <1>4, <2>1 DEF DiskCoversBallots
  <2>2. CASE b \in ballots /\ b.voter = n
    BY <1>3, <1>5, <2>2 DEF QuorumState
  <2>3. CASE b \notin ballots
    BY <1>3, <2>3 DEF Save, QuorumState, E!Ballot
  <2> QED
    BY <2>1, <2>2, <2>3
<1>9. DiskCoversBallots'
  BY <1>8 DEF DiskCoversBallots
<1> QED
  BY <1>1, <1>2, <1>6, <1>7, <1>9

\* A vote handler that follows term t with vote v, and saves nothing, the term
\* or the vote, keeps all but the invariants about messages.
LEMMA FollowKeeps ==
    ASSUME IInv, NEW n \in Node, NEW t \in Term, NEW v \in Node \cup {Nil},
           Follow(n, t, v),
           role[n] # "Down",
           \/ t > current_term[n]
           \/ /\ t = current_term[n]
              /\ voted_for[n] \in {Nil, v}
              /\ role[n] # "Unattached",
           \/ UNCHANGED <<quorum_state, ballots>>
           \/ \E w \in {Nil, v} : MaySave(n, t, w) /\ Save(n, t, w),
           UNCHANGED <<snapshot, log_start, log, voter_set, log_end_offset, elections>>
    PROVE  /\ KnownVoters' /\ MemoryCoversDisk' /\ DiskCoversBallots' /\ VotesAreBallots'
           /\ LeaderWroteItsTerm' /\ WinnersWroteVoters' /\ WinnersKeepVoters'
           /\ ballots \subseteq ballots'
<1>1. TypeOK /\ MemoryCoversDisk /\ DiskCoversBallots
  BY DEF IInv
<1>0. /\ role \in [Node -> Role] /\ current_term \in [Node -> Term]
      /\ voted_for \in [Node -> Node \cup {Nil}] /\ votes_received \in [Node -> SUBSET Node]
      /\ quorum_state \in [Node -> QuorumStates]
  BY Zenon, <1>1 DEF TypeOK
<1>2. /\ current_term[n] \in Nat /\ t \in Nat
      /\ quorum_state[n].current_term \in Nat
  BY <1>0, BoundsAssumption DEF QuorumStates, Term
<1>3. /\ current_term'[n] = t
      /\ voted_for'[n] = v
      /\ role'[n] = IF t > current_term[n] THEN "Follower" ELSE role[n]
      /\ t = current_term[n] => votes_received'[n] = votes_received[n]
  BY <1>0, <1>2 DEF Follow
<1>4. \A k \in Node \ {n} :
        /\ current_term'[k] = current_term[k]
        /\ voted_for'[k] = voted_for[k]
        /\ role'[k] = role[k]
        /\ votes_received'[k] = votes_received[k]
  BY <1>0 DEF Follow
<1>5. \A k \in Node : role'[k] = "Down" <=> role[k] = "Down"
  BY <1>3, <1>4
<1>6. KnownVoters'
  BY DEF IInv, KnownVoters, IsVotersRecord
<1>7. DiskCoversBallots' /\ ballots \subseteq ballots'
  <2>1. CASE UNCHANGED <<quorum_state, ballots>>
    BY <1>1, <2>1 DEF DiskCoversBallots
  <2>2. ASSUME NEW w \in {Nil, v}, MaySave(n, t, w), Save(n, t, w)
        PROVE  DiskCoversBallots' /\ ballots \subseteq ballots'
    BY Zenon, <1>1, <2>2, SaveCasts DEF Save
  <2> QED
    BY <2>1, <2>2
<1>8. /\ \A k \in Node \ {n} : quorum_state'[k] = quorum_state[k]
      /\ \/ quorum_state'[n] = quorum_state[n]
         \/ /\ quorum_state'[n].saved
            /\ quorum_state'[n].current_term = t
            /\ quorum_state'[n].voted_for \in {Nil, v}
            /\ role[n] = "Unattached" => t > current_term[n]
  BY <1>0, <1>2 DEF Save, QuorumState
<1>9. MemoryCoversDisk'
  <2> SUFFICES ASSUME NEW k \in Node
               PROVE  /\ ~quorum_state'[k].saved => quorum_state'[k] = NoQuorumState
                      /\ role'[k] \in {"Down", "Unattached"} => voter_set'[k] = {}
                      /\ role'[k] = "Unattached" => ~quorum_state'[k].saved
                      /\ role'[k] # "Down" =>
                            \/ quorum_state'[k].current_term < current_term'[k]
                            \/ /\ quorum_state'[k].current_term = current_term'[k]
                               /\ quorum_state'[k].voted_for \in {Nil, voted_for'[k]}
    BY Zenon DEF MemoryCoversDisk, NoQuorumState
  <2>1. CASE k # n
    BY <1>1, <1>4, <1>8, <2>1 DEF MemoryCoversDisk
  <2>2. CASE k = n
    BY <1>1, <1>2, <1>3, <1>8, <2>2 DEF MemoryCoversDisk
  <2> QED
    BY <2>1, <2>2
<1>10. VotesAreBallots'
  BY <1>2, <1>3, <1>4, <1>7 DEF IInv, VotesAreBallots, E!Ballot
<1>11. LeaderWroteItsTerm'
  BY <1>2, <1>3, <1>4 DEF IInv, LeaderWroteItsTerm, LastTerm, log_has_voters_record,
                          IsVotersRecord, StoreEnd
<1>12. WinnersWroteVoters'
  <2>1. \A e \in elections : e.leader \in Node
    BY <1>1 DEF TypeOK, E!TypeOK
  <2> QED
    BY <1>8, <2>1 DEF IInv, WinnersWroteVoters, log_has_voters_record, IsVotersRecord
<1>13. WinnersKeepVoters'
  BY <1>5 DEF IInv, WinnersKeepVoters
<1> QED
  BY <1>6, <1>7, <1>9, <1>10, <1>11, <1>12, <1>13

\* What a message says of ballots B.
Backed(m, B) ==
    ~m.is_pre_vote =>
        /\ m.type = "VoteRequest" => E!Ballot(m.source, m.term, m.source) \in B
        /\ m.type = "VoteResponse" /\ m.vote_granted =>
              /\ m.dest \in Voters
              /\ E!Ballot(m.source, m.term, m.dest) \in B
              /\ E!Ballot(m.dest, m.term, m.dest) \in B

\* The invariants about messages, in one piece.
LEMMA MessagesBacked ==
    ASSUME TypeOK
    PROVE  VotesAreDurable /\ CandidatesVoted <=> \A m \in msgs : Backed(m, ballots)
<1>1. \A m \in msgs : m.type \in {"VoteRequest", "VoteResponse"}
  BY DEF TypeOK, Message
<1> QED
  BY <1>1 DEF VotesAreDurable, CandidatesVoted, Backed

LEMMA MessagesKeep ==
    ASSUME IInv, TypeOK', ballots \subseteq ballots',
           \A m \in msgs' \ msgs : Backed(m, ballots')
    PROVE  VotesAreDurable' /\ CandidatesVoted'
<1>1. \A m \in msgs : Backed(m, ballots)
  BY MessagesBacked DEF IInv
<1>2. \A m \in msgs' : Backed(m, ballots')
  BY <1>1 DEF Backed
<1>3. (VotesAreDurable /\ CandidatesVoted <=> \A m \in msgs : Backed(m, ballots))'
  BY MessagesBacked, PTL
<1> QED
  BY <1>2, <1>3

\* What does not depend on the messages stays when only they change.
LEMMA SameKeeps ==
    ASSUME IInv,
           UNCHANGED <<quorum_state, snapshot, log_start, log, role, current_term, voted_for,
                       voter_set, votes_received, log_end_offset, ballots, elections>>
    PROVE  /\ KnownVoters' /\ MemoryCoversDisk' /\ DiskCoversBallots'
           /\ VotesAreBallots' /\ LeaderWroteItsTerm' /\ WinnersWroteVoters'
           /\ WinnersKeepVoters'
<1>1. KnownVoters' /\ MemoryCoversDisk' /\ DiskCoversBallots'
  BY DEF IInv, KnownVoters, MemoryCoversDisk, DiskCoversBallots, IsVotersRecord,
     log_has_voters_record
<1>2. VotesAreBallots' /\ LeaderWroteItsTerm'
  BY DEF IInv, VotesAreBallots, LeaderWroteItsTerm, log_has_voters_record, IsVotersRecord,
     LastTerm, StoreEnd
<1>3. WinnersWroteVoters' /\ WinnersKeepVoters'
  BY DEF IInv, WinnersWroteVoters, WinnersKeepVoters, IsVotersRecord, log_has_voters_record
<1> QED
  BY Zenon, <1>1, <1>2, <1>3

LEMMA RequestKeeps ==
    ASSUME IInv, NEW m \in msgs, handle_vote_request(m.dest, m)
    PROVE  IInv'
<1> DEFINE n       == m.dest
           newer   == m.term > current_term[n]
           t       == IF newer THEN m.term ELSE current_term[n]
           vote    == IF newer THEN Nil ELSE voted_for[n]
           granted == m.term = t /\ vote \in {Nil, m.source} /\ LogOk(n, m)
           votes   == granted /\ ~m.is_pre_vote
           SaveTerm == IF newer THEN Save(n, t, Nil) ELSE NoSave
           Rest == /\ KnownVoters' /\ MemoryCoversDisk' /\ DiskCoversBallots'
                   /\ VotesAreBallots' /\ LeaderWroteItsTerm' /\ WinnersWroteVoters'
                   /\ WinnersKeepVoters' /\ ballots \subseteq ballots'
<1>1. TypeOK /\ TypeOK'
  BY RequestType DEF IInv
<1>2. m \in Message /\ m.type = "VoteRequest" /\ role[n] # "Down"
  BY Zenon, <1>1 DEF handle_vote_request, Receives, TypeOK
<1>3. n \in Node /\ m.source \in Node /\ m.term \in Term /\ m.is_pre_vote \in BOOLEAN
  BY <1>2 DEF Message
<1>4. current_term[n] \in Nat /\ m.term \in Nat /\ t \in Term
      /\ vote \in Node \cup {Nil} /\ granted \in BOOLEAN
  <2>1. t \in Term /\ vote \in Node \cup {Nil} /\ granted \in BOOLEAN
        /\ current_term[n] \in Term
    BY <1>1, <1>3 DEF TypeOK
  <2> QED
    BY <1>3, <2>1, BoundsAssumption DEF Term
<1>5. UNCHANGED <<snapshot, log_start, log, voter_set, log_end_offset, elections>>
  BY Zenon DEF handle_vote_request, attachVars, offsetVars
<1>6. m.source \in voter_set[n] => role[n] # "Unattached" /\ m.source \in Voters
  BY <1>3 DEF IInv, MemoryCoversDisk, KnownVoters
<1>7. ~m.is_pre_vote => E!Ballot(m.source, m.term, m.source) \in ballots
  BY <1>1, <1>2, MessagesBacked DEF IInv, Backed
<1>8. ASSUME NEW u, NEW g \in BOOLEAN, Reply(n, m, u, g), ballots \subseteq ballots',
             g /\ ~m.is_pre_vote =>
                u = m.term /\ m.source \in Voters /\ E!Ballot(n, u, m.source) \in ballots'
      PROVE  \A k \in msgs' \ msgs : Backed(k, ballots')
  BY <1>7, <1>8 DEF Reply, Send, VoteResponse, Backed
<1> HIDE DEF granted
<1>9. CASE /\ m.source \notin voter_set[n]
           /\ Reply(n, m, current_term[n], FALSE)
           /\ NoSave
           /\ UNCHANGED <<voteVars, failures>>
  <2>1. UNCHANGED <<quorum_state, ballots, role, current_term, voted_for, votes_received>>
    BY <1>9 DEF NoSave, voteVars
  <2>2. Rest
    BY Zenon, <1>5, <2>1, SameKeeps
  <2>3. \A k \in msgs' \ msgs : Backed(k, ballots')
    BY Zenon, <1>8, <1>9, <2>2
  <2> QED
    BY <1>1, <2>2, <2>3, MessagesKeep DEF IInv
<1>10. CASE /\ m.source \in voter_set[n]
            /\ newer
            /\ SaveFails
            /\ Follow(n, t, Nil)
            /\ UNCHANGED msgs
  <2>1. Rest
    BY <1>2, <1>3, <1>4, <1>5, <1>10, FollowKeeps DEF SaveFails
  <2> QED
    BY <1>1, <1>10, <2>1, MessagesKeep DEF IInv
<1>11. CASE /\ m.source \in voter_set[n]
            /\ ~votes
            /\ SaveTerm
            /\ Follow(n, t, vote)
            /\ Reply(n, m, t, granted)
  <2>1. \/ UNCHANGED <<quorum_state, ballots>>
        \/ MaySave(n, t, Nil) /\ Save(n, t, Nil)
    BY <1>4, <1>11 DEF NoSave, MaySave
  <2>2. Rest
    BY Zenon, <1>2, <1>3, <1>4, <1>5, <1>6, <1>11, <2>1, FollowKeeps
  <2>3. \A k \in msgs' \ msgs : Backed(k, ballots')
    BY <1>4, <1>8, <1>11, <2>2
  <2> QED
    BY <1>1, <2>2, <2>3, MessagesKeep DEF IInv
<1>12. CASE /\ m.source \in voter_set[n]
            /\ votes
            /\ Save(n, t, m.source)
            /\ Follow(n, t, m.source)
            /\ Reply(n, m, t, TRUE)
  <2>1. MaySave(n, t, m.source) /\ m.term = t
    BY Zenon, <1>3, <1>4, <1>12, NilAssumption DEF MaySave, granted
  <2>2. Rest
    BY Zenon, <1>2, <1>3, <1>4, <1>5, <1>6, <1>12, <2>1, FollowKeeps DEF MaySave
  <2>3. E!Ballot(n, t, m.source) \in ballots'
    BY Zenon, <1>3, <1>12, NilAssumption DEF Save
  <2>4. \A k \in msgs' \ msgs : Backed(k, ballots')
    BY Zenon, <1>6, <1>8, <1>12, <2>1, <2>2, <2>3
  <2> QED
    BY <1>1, <2>2, <2>4, MessagesKeep DEF IInv
<1>13. CASE /\ m.source \in voter_set[n]
            /\ votes
            /\ SaveTerm
            /\ Follow(n, t, m.source)
            /\ UNCHANGED msgs
  <2>1. \/ UNCHANGED <<quorum_state, ballots>>
        \/ MaySave(n, t, Nil) /\ Save(n, t, Nil)
    BY <1>4, <1>13 DEF NoSave, MaySave
  <2>2. vote \in {Nil, m.source}
    BY <1>13 DEF granted
  <2>3. Rest
    BY Zenon, <1>2, <1>3, <1>4, <1>5, <1>6, <1>13, <2>1, <2>2, FollowKeeps
  <2> QED
    BY <1>1, <1>13, <2>3, MessagesKeep DEF IInv
<1> QED
  BY Zenon, <1>9, <1>10, <1>11, <1>12, <1>13 DEF handle_vote_request, granted
===============================================================================
