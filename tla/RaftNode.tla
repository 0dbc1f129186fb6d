------------------------------ MODULE RaftNode ------------------------------
(***************************************************************************)
(* A cluster of RaftNode processes (xraft-core/src/raft_node.rs): first-   *)
(* time bootstrap, recovery from disk, elections, and the entries a new    *)
(* leader writes.  A process may stop at any time and be started again;    *)
(* what its quorum-state store, snapshot store and log store hold survives. *)
(* Every write to a store may fail, and a failing write ends the handler   *)
(* with what it changed in memory in place; a crash between two writes is  *)
(* a failing write followed by Crash.  Messages may be lost, duplicated    *)
(* and reordered: a message once sent may be received at any later time,   *)
(* any number of times, or never.  Timers are not modelled: a node's       *)
(* election timer may fire whenever the role lets it run.                  *)
(***************************************************************************)
EXTENDS Integers, FiniteSets, Sequences

CONSTANTS Node,       \* process identities (NodeId)
          Voters,     \* initial_voters the operator bootstraps the cluster with
          ClusterId,  \* the cluster's identity
          Nil,        \* None, and the nil cluster id
          PreVoters,  \* nodes whose process asks for pre-votes
          InitDisk,   \* what a node's stores may hold at the start
          MaxTerm,    \* bound on terms
          MaxLog,     \* bound on the entries a log store holds
          MaxFailures \* bound on store calls that fail

VARIABLES
    \* the stores, durable
    quorum_state, snapshot, log_start, log,
    \* NodeState and RaftNode.bootstrapped, lost in a crash
    role, current_term, voted_for, leader_id, cluster_id, voter_set,
    votes_received, log_end_offset, high_watermark, bootstrapped,
    \* every envelope ever sent
    msgs,
    \* history: the votes made durable and the elections won (see Election)
    ballots, elections,
    \* how many store calls have failed
    failures

diskVars == <<quorum_state, snapshot, log_start, log>>
voteVars == <<role, current_term, voted_for, leader_id, votes_received>>
attachVars == <<cluster_id, voter_set, bootstrapped>>
offsetVars == <<log_end_offset, high_watermark>>
nodeVars == <<voteVars, attachVars, offsetVars>>
history == <<ballots, elections>>
vars == <<diskVars, nodeVars, msgs, history, failures>>

E == INSTANCE Election

Term == 0 .. MaxTerm
Role == {"Down", "Unattached", "Follower", "Candidate", "Leader"}

-----------------------------------------------------------------------------
(* The stores. *)

Lcm(t) == [term |-> t, entry_type |-> "LeaderChangeMessage", voters |-> {}]
VotersRecord(t, vs) == [term |-> t, entry_type |-> "VotersRecord", voters |-> vs]

Entry == [term : Term, entry_type : {"LeaderChangeMessage", "VotersRecord", "Command"},
          voters : SUBSET Node]

\* Variant: the vote is left out of what is saved.
QuorumStateWithoutVote(t, v, cid) ==
    [saved |-> TRUE, current_term |-> t, voted_for |-> Nil, leader_id |-> Nil,
     cluster_id |-> cid]

\* saved is FALSE for a store that holds nothing.
QuorumState(t, v, cid) ==
    [saved |-> TRUE, current_term |-> t, voted_for |-> v, leader_id |-> Nil,
     cluster_id |-> cid]
NoQuorumState ==
    [saved |-> FALSE, current_term |-> 0, voted_for |-> Nil, leader_id |-> Nil,
     cluster_id |-> Nil]
NoSnapshot == [saved |-> FALSE, end |-> 0, voters |-> {}]

QuorumStates ==
    [saved : BOOLEAN, current_term : Term, voted_for : Node \cup {Nil},
     leader_id : Node \cup {Nil}, cluster_id : {ClusterId, Nil}]
Snapshots == [saved : BOOLEAN, end : Nat, voters : SUBSET Node]
Disks == [quorum_state : QuorumStates, snapshot : Snapshots, log_start : Nat,
          log : Seq(Entry)]

ASSUME NilAssumption == Nil \notin Node /\ ClusterId # Nil
ASSUME VotersAssumption == Voters \subseteq Node /\ IsFiniteSet(Voters)
ASSUME BoundsAssumption == MaxTerm \in Nat /\ MaxLog \in Nat /\ MaxFailures \in Nat

\* The disks of one cluster whose membership never changed.
ASSUME DiskAssumption ==
    \A d \in InitDisk :
        /\ d \in Disks
        /\ ~d.quorum_state.saved => d.quorum_state = NoQuorumState
        /\ d.snapshot.saved => d.snapshot.voters = Voters
        /\ \A i \in 1 .. Len(d.log) :
              d.log[i].entry_type = "VotersRecord" => d.log[i].voters = Voters

StoreEnd(n) == log_start[n] + Len(log[n])

IsVotersRecord(n, i) == log[n][i].entry_type = "VotersRecord"

\* Some entry of the log store is a VotersRecord.
log_has_voters_record(n) == \E i \in 1 .. Len(log[n]) : IsVotersRecord(n, i)

\* The voters of the latest VotersRecord in the log store.
LatestVoters(n) ==
    LET last == CHOOSE i \in 1 .. Len(log[n]) :
                    /\ IsVotersRecord(n, i)
                    /\ \A j \in i + 1 .. Len(log[n]) : ~IsVotersRecord(n, j)
    IN  log[n][last].voters

\* Variant: a quorum-state alone does not count as data.
IgnoresQuorumState(n) == log_start[n] # 0 \/ StoreEnd(n) # 0 \/ snapshot[n].saved

has_existing_data(n) ==
    \/ log_start[n] # 0
    \/ StoreEnd(n) # 0
    \/ quorum_state[n].saved
    \/ snapshot[n].saved

\* (offset, term) of the last entry; term 0 when the store no longer has it.
LastOffset(n) == IF StoreEnd(n) = 0 THEN 0 ELSE StoreEnd(n) - 1
LastTerm(n) == IF Len(log[n]) = 0 THEN 0 ELSE log[n][Len(log[n])].term

-----------------------------------------------------------------------------
(* Messages: an RpcEnvelope addressed to one node. *)

VoteRequest(n, dst, cid, t, offset, lterm, pre) ==
    [type |-> "VoteRequest", source |-> n, dest |-> dst, cluster_id |-> cid,
     term |-> t, last_log_offset |-> offset, last_log_term |-> lterm,
     is_pre_vote |-> pre]

VoteResponse(n, dst, cid, t, granted, pre) ==
    [type |-> "VoteResponse", source |-> n, dest |-> dst, cluster_id |-> cid,
     term |-> t, vote_granted |-> granted, is_pre_vote |-> pre]

Send(ms) == msgs' = msgs \cup ms

\* handle_rpc's fence: a node that knows its cluster takes no other envelope.
Fenced(n, m) ==
    bootstrapped[n] /\ cluster_id[n] # Nil /\ m.cluster_id # cluster_id[n]

Receives(n, m, type) ==
    /\ role[n] # "Down"
    /\ m.type = type
    /\ m.dest = n
    /\ ~Fenced(n, m)

-----------------------------------------------------------------------------
Init ==
    /\ \E disk \in [Node -> InitDisk] :
        /\ quorum_state = [n \in Node |-> disk[n].quorum_state]
        /\ snapshot = [n \in Node |-> disk[n].snapshot]
        /\ log_start = [n \in Node |-> disk[n].log_start]
        /\ log = [n \in Node |-> disk[n].log]
    /\ role = [n \in Node |-> "Down"]
    /\ current_term = [n \in Node |-> 0]
    /\ voted_for = [n \in Node |-> Nil]
    /\ leader_id = [n \in Node |-> Nil]
    /\ cluster_id = [n \in Node |-> Nil]
    /\ voter_set = [n \in Node |-> {}]
    /\ votes_received = [n \in Node |-> {}]
    /\ log_end_offset = [n \in Node |-> 0]
    /\ high_watermark = [n \in Node |-> 0]
    /\ bootstrapped = [n \in Node |-> FALSE]
    /\ msgs = {}
    /\ ballots = {}
    /\ elections = {}
    /\ failures = 0

\* The process stops, whatever it was doing; memory is gone.
Crash(n) ==
    /\ role[n] # "Down"
    /\ role' = [role EXCEPT ![n] = "Down"]
    /\ current_term' = [current_term EXCEPT ![n] = 0]
    /\ voted_for' = [voted_for EXCEPT ![n] = Nil]
    /\ leader_id' = [leader_id EXCEPT ![n] = Nil]
    /\ cluster_id' = [cluster_id EXCEPT ![n] = Nil]
    /\ voter_set' = [voter_set EXCEPT ![n] = {}]
    /\ votes_received' = [votes_received EXCEPT ![n] = {}]
    /\ log_end_offset' = [log_end_offset EXCEPT ![n] = 0]
    /\ high_watermark' = [high_watermark EXCEPT ![n] = 0]
    /\ bootstrapped' = [bootstrapped EXCEPT ![n] = FALSE]
    /\ UNCHANGED <<diskVars, msgs, history, failures>>

\* RaftNode::new on a node without data: Unattached, waiting for bootstrap.
NewUnattached(n) ==
    /\ role[n] = "Down"
    /\ ~has_existing_data(n)
    /\ role' = [role EXCEPT ![n] = "Unattached"]
    /\ UNCHANGED <<diskVars, current_term, voted_for, leader_id, votes_received,
                   attachVars, offsetVars, msgs, history, failures>>

\* The voter set recover() leaves: the snapshot's, else the latest
\* VotersRecord's when a quorum-state exists, else none.
RecoveredVoters(n) ==
    CASE snapshot[n].saved -> snapshot[n].voters
      [] ~snapshot[n].saved /\ quorum_state[n].saved /\ log_has_voters_record(n)
            -> LatestVoters(n)
      [] OTHER -> {}

\* RaftNode::new on a node with data: recover() from the stores.
Recover(n) ==
    /\ role[n] = "Down"
    /\ has_existing_data(n)
    /\ role' = [role EXCEPT ![n] = "Follower"]
    /\ current_term' = [current_term EXCEPT ![n] = quorum_state[n].current_term]
    /\ voted_for' = [voted_for EXCEPT ![n] = quorum_state[n].voted_for]
    /\ leader_id' = [leader_id EXCEPT ![n] = quorum_state[n].leader_id]
    /\ cluster_id' = [cluster_id EXCEPT ![n] = quorum_state[n].cluster_id]
    /\ voter_set' = [voter_set EXCEPT ![n] = RecoveredVoters(n)]
    /\ log_end_offset' = [log_end_offset EXCEPT ![n] =
            IF StoreEnd(n) > snapshot[n].end THEN StoreEnd(n) ELSE snapshot[n].end]
    /\ high_watermark' = [high_watermark EXCEPT ![n] = snapshot[n].end]
    /\ bootstrapped' = [bootstrapped EXCEPT ![n] = TRUE]
    /\ UNCHANGED <<diskVars, votes_received, msgs, history, failures>>

\* bootstrap(): accepted on a fresh node that is one of the initial voters
\* (validate_bootstrap_config); nothing is written to the stores.
Bootstrap(n) ==
    /\ role[n] = "Unattached"
    /\ ~bootstrapped[n]
    /\ ~has_existing_data(n)
    /\ n \in Voters
    /\ cluster_id' = [cluster_id EXCEPT ![n] = ClusterId]
    /\ voter_set' = [voter_set EXCEPT ![n] = Voters]
    /\ current_term' = [current_term EXCEPT ![n] = 0]
    /\ voted_for' = [voted_for EXCEPT ![n] = Nil]
    /\ leader_id' = [leader_id EXCEPT ![n] = Nil]
    /\ role' = [role EXCEPT ![n] = "Follower"]
    /\ votes_received' = [votes_received EXCEPT ![n] = {}]
    /\ bootstrapped' = [bootstrapped EXCEPT ![n] = TRUE]
    /\ UNCHANGED <<diskVars, offsetVars, msgs, history, failures>>

-----------------------------------------------------------------------------
(* Elections. *)

\* Variant: half of the voters will do.
HasHalf(n, votes) ==
    voter_set[n] # {} /\ Cardinality(votes) >= Cardinality(voter_set[n]) \div 2

\* votes_received makes a majority of a voter set that is not empty.
has_quorum(n, votes) == voter_set[n] # {} /\ E!Majority(votes, voter_set[n])

\* quorum_state_store.save succeeds: term t and vote v of n are durable.
Save(n, t, v) ==
    /\ quorum_state' =
         [quorum_state EXCEPT ![n] = QuorumState(t, v, cluster_id[n])]
    /\ ballots' = ballots \cup (IF v = Nil THEN {} ELSE {E!Ballot(n, t, v)})

\* A store call returns Err.
Fails == failures < MaxFailures /\ failures' = failures + 1

SaveFails == Fails /\ UNCHANGED <<quorum_state, ballots>>

NoSave == UNCHANGED <<quorum_state, ballots>>

\* n is a candidate and no leader is known.
BeCandidate(n) ==
    /\ role' = [role EXCEPT ![n] = "Candidate"]
    /\ leader_id' = [leader_id EXCEPT ![n] = Nil]
    /\ UNCHANGED <<offsetVars, elections>>

\* Variant: the only voter commits one entry too many.
BeLeaderPastEnd(n, t, end) ==
    /\ role' = [role EXCEPT ![n] = "Leader"]
    /\ leader_id' = [leader_id EXCEPT ![n] = n]
    /\ log_end_offset' = [log_end_offset EXCEPT ![n] = end]
    /\ high_watermark' =
         [high_watermark EXCEPT ![n] = IF Cardinality(voter_set[n]) = 1 THEN end + 1 ELSE @]
    /\ elections' = elections \cup {E!Election(t, n)}

\* n leads term t, its log store ending at end.
BeLeader(n, t, end) ==
    /\ role' = [role EXCEPT ![n] = "Leader"]
    /\ leader_id' = [leader_id EXCEPT ![n] = n]
    /\ log_end_offset' = [log_end_offset EXCEPT ![n] = end]
    /\ high_watermark' =
         [high_watermark EXCEPT ![n] = IF Cardinality(voter_set[n]) = 1 THEN end ELSE @]
    /\ elections' = elections \cup {E!Election(t, n)}

\* become_leader(): candidate n, with a quorum in term t, writes a
\* LeaderChangeMessage and, if its log has none, a VotersRecord.  When the
\* second append fails the first entry is truncated away again, which may
\* fail in its turn.  Only a node that wrote everything leads.
become_leader(n, t) ==
    LET lcm     == Append(log[n], Lcm(t))
        needs   == ~log_has_voters_record(n)
        written == IF needs THEN Append(lcm, VotersRecord(t, voter_set[n])) ELSE lcm
    IN  \/ /\ Fails
           /\ UNCHANGED log
           /\ BeCandidate(n)
        \/ /\ Fails
           /\ needs
           /\ Len(lcm) <= MaxLog
           /\ log' = [log EXCEPT ![n] = lcm]
           /\ BeCandidate(n)
        \/ /\ UNCHANGED failures
           /\ Len(written) <= MaxLog
           /\ log' = [log EXCEPT ![n] = written]
           /\ BeLeader(n, t, log_start[n] + Len(written))

\* One VoteRequest to every other voter; a failing send is a lost message.
broadcast_vote_requests(n, t) ==
    Send({VoteRequest(n, v, cluster_id[n], t, LastOffset(n), LastTerm(n), FALSE) :
            v \in voter_set[n] \ {n}})

\* handle_election_timeout(): vote for oneself in the next term, save, then
\* lead at once or ask the other voters.
handle_election_timeout(n) ==
    LET t == current_term[n] + 1
    IN  /\ role[n] \in {"Follower", "Candidate"}
        /\ t <= MaxTerm
        /\ current_term' = [current_term EXCEPT ![n] = t]
        /\ voted_for' = [voted_for EXCEPT ![n] = n]
        /\ votes_received' = [votes_received EXCEPT ![n] = {n}]
        /\ \/ /\ SaveFails
              /\ BeCandidate(n)
              /\ UNCHANGED <<log, msgs>>
           \/ /\ Save(n, t, n)
              /\ ~has_quorum(n, {n})
              /\ BeCandidate(n)
              /\ broadcast_vote_requests(n, t)
              /\ UNCHANGED <<log, failures>>
           \/ /\ Save(n, t, n)
              /\ has_quorum(n, {n})
              /\ become_leader(n, t)
              /\ UNCHANGED msgs
        /\ UNCHANGED <<snapshot, log_start, attachVars>>

\* Memory follows term t, newer than n's own or not, with vote v.
Follow(n, t, v) ==
    LET newer == t > current_term[n]
    IN  /\ current_term' = [current_term EXCEPT ![n] = t]
        /\ voted_for' = [voted_for EXCEPT ![n] = v]
        /\ role' = [role EXCEPT ![n] = IF newer THEN "Follower" ELSE @]
        /\ leader_id' = [leader_id EXCEPT ![n] = IF newer THEN Nil ELSE @]
        /\ votes_received' = [votes_received EXCEPT ![n] = IF newer THEN {} ELSE @]

\* The candidate's log is at least as up to date as n's.
LogOk(n, m) ==
    \/ m.last_log_term > LastTerm(n)
    \/ m.last_log_term = LastTerm(n) /\ m.last_log_offset >= LastOffset(n)

\* handle_rpc answers the candidate that sent m.  A refusal of a real vote in
\* a term not above the request's is left out: the candidate saved that term
\* before it asked, and handle_vote_response takes no notice of the refusal.
Reply(n, m, t, granted) ==
    Send(IF ~granted /\ ~m.is_pre_vote /\ t <= m.term THEN {}
         ELSE {VoteResponse(n, m.source, cluster_id[n], t, granted, m.is_pre_vote)})

\* handle_vote_request(): only candidates of the voter set are heard; a
\* higher term is followed and saved, by a pre-vote too; a vote is saved
\* before the answer leaves.  (candidate_id is the envelope's source.)
handle_vote_request(n, m) ==
    LET newer   == m.term > current_term[n]
        t       == IF newer THEN m.term ELSE current_term[n]
        vote    == IF newer THEN Nil ELSE voted_for[n]
        granted == m.term = t /\ vote \in {Nil, m.source} /\ LogOk(n, m)
        votes   == granted /\ ~m.is_pre_vote
        SaveTerm == IF newer THEN Save(n, t, Nil) ELSE NoSave
    IN  /\ Receives(n, m, "VoteRequest")
        /\ \/ /\ m.source \notin voter_set[n]
              /\ Reply(n, m, current_term[n], FALSE)
              /\ NoSave
              /\ UNCHANGED <<voteVars, failures>>
           \/ /\ m.source \in voter_set[n]
              /\ newer
              /\ SaveFails
              /\ Follow(n, t, Nil)
              /\ UNCHANGED msgs
           \/ /\ m.source \in voter_set[n]
              /\ ~votes
              /\ SaveTerm
              /\ Follow(n, t, vote)
              /\ Reply(n, m, t, granted)
              /\ UNCHANGED failures
           \/ /\ m.source \in voter_set[n]
              /\ votes
              /\ Save(n, t, m.source)
              /\ Follow(n, t, m.source)
              /\ Reply(n, m, t, TRUE)
              /\ UNCHANGED failures
           \/ /\ m.source \in voter_set[n]
              /\ votes
              /\ SaveTerm
              /\ Fails                       \* saving the vote, that is
              /\ Follow(n, t, m.source)
              /\ UNCHANGED msgs
        /\ UNCHANGED <<snapshot, log_start, log, attachVars, offsetVars, elections>>

\* Variant: votes of earlier candidacies count.
CountsAnyTerm(n, m) ==
    /\ role[n] = "Candidate"
    /\ ~m.is_pre_vote
    /\ m.source \in voter_set[n]
    /\ m.vote_granted

\* Variant: pre-votes count.
CountsPreVotes(n, m) ==
    /\ role[n] = "Candidate"
    /\ m.term = current_term[n]
    /\ m.source \in voter_set[n]
    /\ m.vote_granted

\* The response is a voter's vote for n's current candidacy.
CountsVote(n, m) ==
    /\ role[n] = "Candidate"
    /\ m.term = current_term[n]
    /\ ~m.is_pre_vote
    /\ m.source \in voter_set[n]
    /\ m.vote_granted

\* handle_vote_response(): follow a higher term, else count the vote of a
\* voter for this candidacy and lead once the votes make a quorum.
handle_vote_response(n, m) ==
    LET votes == votes_received[n] \cup {m.source}
    IN  /\ Receives(n, m, "VoteResponse")
        /\ \/ /\ m.term > current_term[n]
              /\ Follow(n, m.term, Nil)
              /\ \/ Save(n, m.term, Nil) /\ UNCHANGED failures
                 \/ SaveFails
              /\ UNCHANGED <<log, offsetVars, elections>>
           \/ /\ CountsVote(n, m)
              /\ votes_received' = [votes_received EXCEPT ![n] = votes]
              /\ IF has_quorum(n, votes) THEN become_leader(n, current_term[n])
                 ELSE UNCHANGED <<log, role, leader_id, offsetVars, elections, failures>>
              /\ NoSave
              /\ UNCHANGED <<current_term, voted_for>>
        /\ UNCHANGED <<snapshot, log_start, attachVars, msgs>>

\* A voter's process that asks for a pre-vote before it campaigns: the
\* receiver's handler takes such requests, no code of this crate sends them.
PeerPreVote(c, v) ==
    /\ c \in PreVoters
    /\ role[c] \in {"Follower", "Candidate"}
    /\ v \in voter_set[c] \ {c}
    /\ current_term[c] < MaxTerm
    /\ Send({VoteRequest(c, v, cluster_id[c], current_term[c] + 1,
                         LastOffset(c), LastTerm(c), TRUE)})
    /\ UNCHANGED <<diskVars, nodeVars, history, failures>>

Next ==
    \/ \E n \in Node :
        \/ Crash(n)
        \/ NewUnattached(n)
        \/ Recover(n)
        \/ Bootstrap(n)
        \/ handle_election_timeout(n)
        \/ \E v \in Node : PeerPreVote(n, v)
    \/ \E m \in msgs :
        \/ handle_vote_request(m.dest, m)
        \/ handle_vote_response(m.dest, m)

Spec == Init /\ [][Next]_vars

-----------------------------------------------------------------------------
Message ==
    [type : {"VoteRequest"}, source : Node, dest : Node,
     cluster_id : {ClusterId, Nil}, term : Term, last_log_offset : Nat,
     last_log_term : Term, is_pre_vote : BOOLEAN]
      \cup
    [type : {"VoteResponse"}, source : Node, dest : Node,
     cluster_id : {ClusterId, Nil}, term : Term, vote_granted : BOOLEAN,
     is_pre_vote : BOOLEAN]

\* Every variable has the type its declaration in NodeState gives it.
TypeOK ==
    /\ quorum_state \in [Node -> QuorumStates]
    /\ snapshot \in [Node -> Snapshots]
    /\ log_start \in [Node -> Nat]
    /\ log \in [Node -> Seq(Entry)]
    /\ role \in [Node -> Role]
    /\ current_term \in [Node -> Term]
    /\ voted_for \in [Node -> Node \cup {Nil}]
    /\ leader_id \in [Node -> Node \cup {Nil}]
    /\ cluster_id \in [Node -> {ClusterId, Nil}]
    /\ voter_set \in [Node -> SUBSET Node]
    /\ votes_received \in [Node -> SUBSET Node]
    /\ log_end_offset \in [Node -> Nat]
    /\ high_watermark \in [Node -> Nat]
    /\ bootstrapped \in [Node -> BOOLEAN]
    /\ msgs \subseteq Message
    /\ failures \in Nat
    /\ E!TypeOK

\* A vote leaves the node only once it is durable: every granted vote ever
\* sent is a ballot, so no crash and no failing save can make the node forget
\* it (handle_vote_request, "fsync-before-ack").
VotesAreDurable ==
    \A m \in msgs :
        m.type = "VoteResponse" /\ m.vote_granted /\ ~m.is_pre_vote =>
            E!Ballot(m.source, m.term, m.dest) \in ballots

\* The election of Election: nobody votes twice in a term, a winner has the
\* durable ballots of a majority of Voters.
Implements == E!Spec

\* At most one leader per term, over all crashes and recoveries.
ElectionSafety == E!ElectionSafety

\* A node that is Unattached, and may be bootstrapped to term 0, has never
\* voted: has_existing_data sees everything an earlier life may have left.
UnattachedNeverVoted ==
    \A n \in Node : role[n] = "Unattached" => \A b \in ballots : b.voter # n

\* A leader's log store ends with its LeaderChangeMessage and holds the voter
\* set, whatever appends and rollbacks failed before (become_leader, "Only
\* transition to Leader after all appends succeeded").
LeaderWroteItsTerm ==
    \A n \in Node : role[n] = "Leader" =>
        /\ LastTerm(n) = current_term[n]
        /\ log_has_voters_record(n)
        /\ log_end_offset[n] = StoreEnd(n)

\* A node that ever won an election still knows the voters after any crash
\* and recovery, so its cluster can elect again.
WinnersKeepVoters ==
    \A n \in Node, e \in elections :
        e.leader = n /\ role[n] # "Down" => voter_set[n] = Voters

\* What a node takes as committed is in its stores: in its snapshot or its log.
CommittedIsStored ==
    \A n \in Node : high_watermark[n] <= snapshot[n].end \/ high_watermark[n] <= StoreEnd(n)

-----------------------------------------------------------------------------
(* The inductive invariant behind the safety properties. *)

\* Every voter set a node holds, in memory or on disk, is Voters; a
\* recovered node may have none.
KnownVoters ==
    \A n \in Node :
        /\ voter_set[n] \in {{}, Voters}
        /\ snapshot[n].saved => snapshot[n].voters = Voters
        /\ \A i \in 1 .. Len(log[n]) : IsVotersRecord(n, i) => log[n][i].voters = Voters

\* Memory is never behind the quorum-state store: a failing save leaves it
\* ahead, recover() makes it equal.
MemoryCoversDisk ==
    \A n \in Node :
        /\ ~quorum_state[n].saved => quorum_state[n] = NoQuorumState
        /\ role[n] \in {"Down", "Unattached"} => voter_set[n] = {}
        /\ role[n] = "Unattached" => ~quorum_state[n].saved
        /\ role[n] # "Down" =>
              \/ quorum_state[n].current_term < current_term[n]
              \/ /\ quorum_state[n].current_term = current_term[n]
                 /\ quorum_state[n].voted_for \in {Nil, voted_for[n]}

\* The quorum-state store covers every ballot its node cast.
DiskCoversBallots ==
    \A b \in ballots :
        /\ quorum_state[b.voter].saved
        /\ \/ b.term < quorum_state[b.voter].current_term
           \/ /\ b.term = quorum_state[b.voter].current_term
              /\ b.candidate = quorum_state[b.voter].voted_for

\* Who asks for a vote has cast its own ballot, who gets one is a voter.
CandidatesVoted ==
    \A m \in msgs : ~m.is_pre_vote =>
        /\ m.type = "VoteRequest" => E!Ballot(m.source, m.term, m.source) \in ballots
        /\ m.type = "VoteResponse" /\ m.vote_granted =>
              m.dest \in Voters /\ E!Ballot(m.dest, m.term, m.dest) \in ballots

\* A candidate's other votes are voters' ballots, and with one of them the
\* candidate is a voter and its own vote is a ballot.
VotesAreBallots ==
    \A n \in Node : role[n] = "Candidate" =>
        \A v \in votes_received[n] \ {n} :
            /\ {v, n} \subseteq Voters
            /\ E!Ballot(v, current_term[n], n) \in ballots
            /\ E!Ballot(n, current_term[n], n) \in ballots

\* What WinnersKeepVoters needs of the stores.
WinnersWroteVoters ==
    \A e \in elections :
        quorum_state[e.leader].saved /\ log_has_voters_record(e.leader)

IInv ==
    /\ TypeOK
    /\ KnownVoters
    /\ MemoryCoversDisk
    /\ DiskCoversBallots
    /\ VotesAreDurable
    /\ CandidatesVoted
    /\ VotesAreBallots
    /\ LeaderWroteItsTerm
    /\ WinnersWroteVoters
    /\ WinnersKeepVoters

\* A node's durable term never goes back.
DurableTermMonotone ==
    [][\A n \in Node :
         quorum_state'[n].current_term >= quorum_state[n].current_term]_vars
=============================================================================
