----------------------------- MODULE EventLoop -----------------------------
(***************************************************************************)
(* A cluster of EventLoop processes (xraft-core/src/event_loop.rs) with     *)
(* their ElectionManager (election.rs) and IoStage (io_action.rs).  A       *)
(* handler changes NodeState in memory and collects a batch of I/O actions; *)
(* the loop then waits until the batch is done before it looks at a timer   *)
(* or a message again.  The storage actions of a batch run one after the    *)
(* other, its sends run beside them: a message may leave before the state   *)
(* it speaks of is saved.  The first action that fails ends the loop.       *)
(*                                                                          *)
(* The methods of NodeState that the handlers call and its restart from     *)
(* the stores are not part of the crate; they are modelled from their       *)
(* callers and from the tests of the event loop.  A message once sent may   *)
(* be received at any later time, any number of times, or never; one of     *)
(* another cluster is dropped unseen (handle_rpc's fence) and left out.     *)
(***************************************************************************)
EXTENDS Integers, FiniteSets, Sequences

CONSTANTS Node,      \* process identities (NodeId)
          Voters,    \* the voter set, which no handler of this module changes
          Nil,       \* None
          PreVoters, \* nodes that send pre-vote requests
          Fetchers,  \* nodes that send Fetch RPCs
          IoFaults,  \* whether a loop may end while its batch is under way
          MaxTerm    \* bound on terms

VARIABLES state,         \* NodeState of each node
          storage,       \* the storage actions of the batch under way, in order
          network,       \* its sends
          quorum_state,  \* the quorum-state store
          log,           \* the log store: the terms of its entries
          msgs,          \* every envelope ever sent
          ballots,       \* history: every vote ever given, in memory (see Election)
          elections      \* history: every election won

memory == <<state, storage, network>>
disk == <<quorum_state, log>>
history == <<ballots, elections>>
vars == <<memory, disk, msgs, history>>

E == INSTANCE Election

ASSUME NilAssumption == Nil \notin Node
ASSUME VotersAssumption == Voters \subseteq Node /\ IsFiniteSet(Voters)
ASSUME MaxTermAssumption == MaxTerm \in Nat
ASSUME IoFaultsAssumption == IoFaults \in BOOLEAN
ASSUME FetchersAssumption == Fetchers \subseteq Node

Term == 0 .. MaxTerm

-----------------------------------------------------------------------------
(* NodeState and the methods the handlers use. *)

\* fetched: the followers whose Fetch may still count at the next check.
NodeState ==
    [role : {"Down", "Follower", "Candidate", "Leader"}, current_term : Term,
     voted_for : Node \cup {Nil}, leader_id : Node \cup {Nil},
     log_end_offset : Nat, last_log_term : Term, votes_received : SUBSET Node,
     pre_votes_received : SUBSET Node, fetched : SUBSET Node]

QuorumStates ==
    [current_term : Term, voted_for : Node \cup {Nil}, leader_id : Node \cup {Nil}]

become_follower(s, t) ==
    [s EXCEPT !.role = "Follower", !.current_term = t, !.voted_for = Nil,
              !.leader_id = Nil, !.votes_received = {}, !.pre_votes_received = {},
              !.fetched = {}]

become_candidate(s, n) ==
    [s EXCEPT !.role = "Candidate", !.current_term = @ + 1, !.voted_for = n,
              !.leader_id = Nil, !.votes_received = {n}, !.pre_votes_received = {}]

become_leader(s, n) ==
    [s EXCEPT !.role = "Leader", !.leader_id = n, !.fetched = {}]

\* What a process holds that starts on the stores of node n.
FromStores(n) ==
    [role |-> "Follower", current_term |-> quorum_state[n].current_term,
     voted_for |-> quorum_state[n].voted_for, leader_id |-> quorum_state[n].leader_id,
     log_end_offset |-> Len(log[n]),
     last_log_term |-> IF log[n] = <<>> THEN 0 ELSE log[n][Len(log[n])],
     votes_received |-> {}, pre_votes_received |-> {}, fetched |-> {}]

LastOffset(s) == IF s.log_end_offset > 0 THEN s.log_end_offset - 1 ELSE 0

-----------------------------------------------------------------------------
(* I/O actions. *)

PersistQuorumState(s) ==
    [op |-> "PersistQuorumState",
     quorum |-> [current_term |-> s.current_term, voted_for |-> s.voted_for,
                 leader_id |-> s.leader_id]]
AppendLog(offset, t) == [op |-> "AppendLog", offset |-> offset, term |-> t]

VoteRequest(s, n, dst, t, pre) ==
    [type |-> "VoteRequest", source |-> n, dest |-> dst, term |-> t,
     last_log_offset |-> LastOffset(s), last_log_term |-> s.last_log_term,
     is_pre_vote |-> pre]
VoteResponse(n, dst, t, granted, pre) ==
    [type |-> "VoteResponse", source |-> n, dest |-> dst, term |-> t,
     vote_granted |-> granted, is_pre_vote |-> pre]

\* The loop of n waits for a timer or a message.
Idle(n) == state[n].role # "Down" /\ storage[n] = <<>> /\ network[n] = {}

\* A handler of n ends: the new NodeState, and the batch it hands over.
Handled(n, s, writes, sends) ==
    /\ state' = [state EXCEPT ![n] = s]
    /\ storage' = [storage EXCEPT ![n] = writes]
    /\ network' = [network EXCEPT ![n] = sends]
    /\ UNCHANGED <<disk, msgs>>

\* IoStage::execute: the next storage action of n's batch is done.
Write(n) ==
    /\ storage[n] # <<>>
    /\ storage' = [storage EXCEPT ![n] = Tail(@)]
    /\ LET a == Head(storage[n])
       IN  IF a.op = "PersistQuorumState"
           THEN /\ quorum_state' = [quorum_state EXCEPT ![n] = a.quorum]
                /\ UNCHANGED log
           ELSE /\ log' = [log EXCEPT ![n] = Append(@, a.term)]
                /\ UNCHANGED quorum_state
    /\ UNCHANGED <<state, network, msgs, history>>

\* IoStage::execute: the sends of n's batch, whatever storage is doing.  They
\* leave one by one; as any of them may be lost, one step says the same.
Transmit(n) ==
    /\ network[n] # {}
    /\ msgs' = msgs \cup network[n]
    /\ network' = [network EXCEPT ![n] = {}]
    /\ UNCHANGED <<state, storage, disk, history>>

\* The loop of n has ended; memory and what is left of the batch are gone.
Stopped(n) ==
    /\ state' = [state EXCEPT ![n] = [FromStores(n) EXCEPT !.role = "Down"]]
    /\ storage' = [storage EXCEPT ![n] = <<>>]
    /\ network' = [network EXCEPT ![n] = {}]
    /\ UNCHANGED <<disk, history>>

\* A storage action fails, or the process stops.
Crash(n) ==
    /\ state[n].role # "Down"
    /\ IoFaults \/ Idle(n)
    /\ Stopped(n)
    /\ UNCHANGED msgs

\* A send fails: execute returns its error, and with it run().
SendFails(n) ==
    /\ IoFaults
    /\ network[n] # {}
    /\ \E sent \in SUBSET network[n] : sent # network[n] /\ msgs' = msgs \cup sent
    /\ Stopped(n)

Restart(n) ==
    /\ state[n].role = "Down"
    /\ state' = [state EXCEPT ![n] = FromStores(n)]
    /\ UNCHANGED <<storage, network, disk, msgs, history>>

-----------------------------------------------------------------------------
(* Timers.  Each fires when the role lets it run and the loop is idle. *)

\* n leads: on_become_leader saves the state and appends a LeaderChangeMessage.
Led(n, s) ==
    [become_leader(s, n) EXCEPT !.log_end_offset = @ + 1, !.last_log_term = s.current_term]
on_become_leader(n, s) ==
    <<PersistQuorumState(become_leader(s, n)), AppendLog(s.log_end_offset, s.current_term)>>

\* handle_election_timeout(): a voter campaigns; the only voter leads at once.
handle_election_timeout(n) ==
    LET s == become_candidate(state[n], n)
    IN  /\ Idle(n)
        /\ state[n].role \in {"Follower", "Candidate"}
        /\ n \in Voters
        /\ s.current_term <= MaxTerm
        /\ ballots' = ballots \cup {E!Ballot(n, s.current_term, n)}
        /\ \/ /\ Cardinality(Voters) = 1
              /\ Handled(n, Led(n, s), <<PersistQuorumState(s)>> \o on_become_leader(n, s), {})
              /\ elections' = elections \cup {E!Election(s.current_term, n)}
           \/ /\ Cardinality(Voters) # 1
              /\ Handled(n, s, <<PersistQuorumState(s)>>,
                         {VoteRequest(s, n, v, s.current_term, FALSE) : v \in Voters \ {n}})
              /\ UNCHANGED elections

\* Variant: the vote is cleared with the rest.
LostQuorumForgets(s) == become_follower(s, s.current_term)

\* The NodeState of a leader that failed its quorum check: it keeps its vote.
LostQuorum(s) == [become_follower(s, s.current_term) EXCEPT !.voted_for = s.voted_for]

\* Variant: half of the voters will do.
CheckHalf(n) ==
    /\ Idle(n)
    /\ state[n].role = "Leader"
    /\ \E recent \in SUBSET state[n].fetched :
        IF Cardinality((recent \cap Voters) \cup {n}) >= Cardinality(Voters) \div 2
        THEN Handled(n, [state[n] EXCEPT !.fetched = {}], <<>>, {})
        ELSE Handled(n, LostQuorum(state[n]), <<PersistQuorumState(LostQuorum(state[n]))>>, {})
    /\ UNCHANGED history

\* handle_check_quorum(): recent are the fetches still within the interval; a
\* check that comes late finds fewer of them.  A fetch counts for one check: it
\* is older than the interval at the next.
handle_check_quorum(n) ==
    /\ Idle(n)
    /\ state[n].role = "Leader"
    /\ \E recent \in SUBSET state[n].fetched :
        IF E!Majority((recent \cap Voters) \cup {n}, Voters)
        THEN Handled(n, [state[n] EXCEPT !.fetched = {}], <<>>, {})
        ELSE Handled(n, LostQuorum(state[n]), <<PersistQuorumState(LostQuorum(state[n]))>>, {})
    /\ UNCHANGED history

-----------------------------------------------------------------------------
(* handle_rpc(). *)

\* Variant: the node's own term makes it step down too.
StepDownSameTerm(s, t) == IF t >= s.current_term THEN become_follower(s, t) ELSE s

\* maybe_step_down_on_higher_term(), and what handle_rpc saves for it.
StepDown(s, t) == IF t > s.current_term THEN become_follower(s, t) ELSE s

\* Variant: the term is not saved.
StepDownUnsaved(s, t) == <<>>

StepDownWrites(s, t) ==
    IF t > s.current_term THEN <<PersistQuorumState(StepDown(s, t))>> ELSE <<>>

\* The candidate's log is at least as up to date as that of s.
LogOk(s, m) ==
    \/ m.last_log_term > s.last_log_term
    \/ m.last_log_term = s.last_log_term /\ m.last_log_offset >= LastOffset(s)
    \/ s.log_end_offset = 0

Grants(s, m) ==
    /\ s.role # "Leader"
    /\ m.term >= s.current_term
    /\ s.voted_for \in {Nil, m.source}
    /\ LogOk(s, m)

Receives(n, m, type, pre) ==
    /\ Idle(n)
    /\ m.dest = n
    /\ m.type = type
    /\ m.is_pre_vote = pre

\* A refusal in a term not above the request's is left out: the candidate
\* takes no notice of it.
handle_vote_request(n, m) ==
    LET s == StepDown(state[n], m.term)
        granted == Grants(s, m)
        voted == IF granted THEN [s EXCEPT !.voted_for = m.source] ELSE s
        saved == IF granted THEN <<PersistQuorumState(voted)>> ELSE <<>>
    IN  /\ Receives(n, m, "VoteRequest", FALSE)
        /\ Handled(n, voted, StepDownWrites(state[n], m.term) \o saved,
                   IF ~granted /\ s.current_term <= m.term THEN {}
                   ELSE {VoteResponse(n, m.source, s.current_term, granted, FALSE)})
        /\ ballots' = ballots \cup
             (IF granted THEN {E!Ballot(n, s.current_term, m.source)} ELSE {})
        /\ UNCHANGED elections

\* Variant: a higher term is followed first, as for a real vote.
PreVoteStepsDown(n, m) ==
    LET s == StepDown(state[n], m.term)
        granted == m.term >= s.current_term /\ LogOk(s, m)
    IN  /\ Receives(n, m, "VoteRequest", TRUE)
        /\ Handled(n, s, StepDownWrites(state[n], m.term),
                   {VoteResponse(n, m.source, s.current_term, granted, TRUE)})
        /\ UNCHANGED history

\* handle_pre_vote_request(): an answer, and nothing else.
handle_pre_vote_request(n, m) ==
    LET granted == m.term >= state[n].current_term /\ LogOk(state[n], m)
    IN  /\ Receives(n, m, "VoteRequest", TRUE)
        /\ Handled(n, state[n], <<>>,
                   {VoteResponse(n, m.source, state[n].current_term, granted, TRUE)})
        /\ UNCHANGED history

record_vote(s, voter) == [s EXCEPT !.votes_received = @ \cup {voter}]

\* A real VoteResponse: follow its higher term, or count the vote of a voter.
handle_vote_response(n, m) ==
    LET s == record_vote(state[n], m.source)
    IN  /\ Receives(n, m, "VoteResponse", FALSE)
        /\ UNCHANGED ballots
        /\ \/ /\ m.term > state[n].current_term
              /\ Handled(n, StepDown(state[n], m.term), StepDownWrites(state[n], m.term), {})
              /\ UNCHANGED elections
           \/ /\ state[n].role = "Candidate"
              /\ m.vote_granted
              /\ m.term = state[n].current_term
              /\ m.source \in Voters
              /\ IF E!Majority(s.votes_received, Voters)
                 THEN /\ Handled(n, Led(n, s), on_become_leader(n, s), {})
                      /\ elections' = elections \cup {E!Election(s.current_term, n)}
                 ELSE Handled(n, s, <<>>, {}) /\ UNCHANGED elections

\* A pre-vote's VoteResponse is only remembered.
handle_pre_vote_response(n, m) ==
    /\ Receives(n, m, "VoteResponse", TRUE)
    /\ m.vote_granted
    /\ m.term = state[n].current_term
    /\ Handled(n, [state[n] EXCEPT !.pre_votes_received = @ \cup {m.source}], <<>>, {})
    /\ UNCHANGED history

\* A Fetch RPC that node c sent in term e, delayed or not: any RPC of a higher
\* term is followed, a FetchRequest to a leader is recorded.  c sends when it
\* is idle, so its terms are the saved ones.
handle_fetch(n, c, e, request) ==
    LET s == StepDown(state[n], e)
    IN  /\ Idle(n)
        /\ c # n
        /\ Handled(n, IF request /\ s.role = "Leader" THEN [s EXCEPT !.fetched = @ \cup {c}]
                      ELSE s,
                   StepDownWrites(state[n], e), {})
        /\ UNCHANGED history

\* A voter's process that asks for a pre-vote: the handlers take such
\* requests, no code of the crate sends them.
PeerPreVote(c, v) ==
    /\ c \in PreVoters
    /\ Idle(c)
    /\ v \in Voters \ {c}
    /\ state[c].current_term < MaxTerm
    /\ msgs' = msgs \cup {VoteRequest(state[c], c, v, state[c].current_term + 1, TRUE)}
    /\ UNCHANGED <<memory, disk, history>>

-----------------------------------------------------------------------------
Init ==
    /\ quorum_state = [n \in Node |-> [current_term |-> 0, voted_for |-> Nil, leader_id |-> Nil]]
    /\ log = [n \in Node |-> <<>>]
    /\ state = [n \in Node |-> [FromStores(n) EXCEPT !.role = "Down"]]
    /\ storage = [n \in Node |-> <<>>]
    /\ network = [n \in Node |-> {}]
    /\ msgs = {}
    /\ ballots = {}
    /\ elections = {}

Io(n) == Write(n) \/ Transmit(n)

Next ==
    \/ \E n \in Node :
        \/ Io(n)
        \/ Crash(n)
        \/ SendFails(n)
        \/ Restart(n)
        \/ handle_election_timeout(n)
        \/ handle_check_quorum(n)
        \/ \E c \in Node : PeerPreVote(n, c)
        \/ \E c \in Fetchers, request \in BOOLEAN :
             \E e \in 0 .. quorum_state[c].current_term : handle_fetch(n, c, e, request)
    \/ \E m \in msgs :
        \/ handle_vote_request(m.dest, m)
        \/ handle_pre_vote_request(m.dest, m)
        \/ handle_vote_response(m.dest, m)
        \/ handle_pre_vote_response(m.dest, m)

Spec == Init /\ [][Next]_vars

\* The loop finishes its batches, and looks at its timers each time round: a
\* check that is due is not put off for ever by messages.
Fairness ==
    \A n \in Node : WF_vars(Io(n)) /\ SF_vars(handle_check_quorum(n))

FairSpec == Spec /\ Fairness

-----------------------------------------------------------------------------
Message ==
    [type : {"VoteRequest"}, source : Node, dest : Node, term : Term,
     last_log_offset : Nat, last_log_term : Term, is_pre_vote : BOOLEAN]
      \cup
    [type : {"VoteResponse"}, source : Node, dest : Node, term : Term,
     vote_granted : BOOLEAN, is_pre_vote : BOOLEAN]

StorageAction ==
    [op : {"PersistQuorumState"}, quorum : QuorumStates]
      \cup [op : {"AppendLog"}, offset : Nat, term : Term]

\* Every variable has the type its declaration in the code gives it.
TypeOK ==
    /\ state \in [Node -> NodeState]
    /\ storage \in [Node -> Seq(StorageAction)]
    /\ network \in [Node -> SUBSET Message]
    /\ quorum_state \in [Node -> QuorumStates]
    /\ log \in [Node -> Seq(Term)]
    /\ msgs \subseteq Message
    /\ E!TypeOK

Saves(n) == {i \in 1 .. Len(storage[n]) : storage[n][i].op = "PersistQuorumState"}
Appends(n) == {i \in 1 .. Len(storage[n]) : storage[n][i].op = "AppendLog"}

\* What the quorum-state store of n holds once the batch under way is done.
Settled(n) ==
    IF Saves(n) = {} THEN quorum_state[n]
    ELSE storage[n][CHOOSE i \in Saves(n) : \A j \in Saves(n) : j <= i].quorum

\* A batch brings the stores up to what the handler left in memory: once it is
\* done nothing a later message can rely on would be lost in a crash (run,
\* "state has already been mutated in-memory before I/O executes").
BatchSettlesMemory ==
    \A n \in Node :
        /\ Settled(n) = PersistQuorumState(state[n]).quorum
        /\ state[n].log_end_offset = Len(log[n]) + Cardinality(Appends(n))
        /\ \A i \in Appends(n) : storage[n][i].offset = Len(log[n])

\* Whatever is lost with a batch, a vote once saved is never replaced by
\* another one of the same term, nor the saved term by an earlier one
\* (handle_check_quorum, "Preserve voted_for from the leader phase").
SavedVoteStable ==
    [][\A n \in Node :
         LET q == quorum_state[n]
             r == quorum_state'[n]
         IN  /\ r.current_term >= q.current_term
             /\ (r.current_term = q.current_term /\ q.voted_for # Nil) =>
                    r.voted_for = q.voted_for]_vars

\* Only a candidacy starts a term: pre-votes, fetches and refusals spread terms
\* but never make one up (handle_rpc, "Pre-vote messages must NOT cause term
\* advancement").  The type invariant is its first part.
TermsHaveCandidates ==
    /\ TypeOK
    /\ \A n \in Node : state[n].current_term > 0 =>
          \E c \in Voters : E!Ballot(c, state[n].current_term, c) \in ballots

\* The election of Election, when no loop ends with a batch under way.
Implements == E!Spec

\* At most one leader per term.
ElectionSafety == E!ElectionSafety

\* A leader hears from a majority of the voters again and again, or it stops
\* leading (handle_check_quorum).
QuorumOrStepDown ==
    \A n \in Node :
        []<>(\/ state[n].role # "Leader"
             \/ E!Majority((state[n].fetched \cap Voters) \cup {n}, Voters))
=============================================================================
