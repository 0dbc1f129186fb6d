---------------------------- MODULE Replication ----------------------------
(***************************************************************************)
(* The follower's side of the Fetch protocol (xraft-core/src/replication.rs *)
(* with deferred_completion.rs): one node that asks the leader it knows for *)
(* entries and handles the answers, whenever and however often they arrive. *)
(*                                                                          *)
(* The leader's side is not in the crate.  It is modelled from what the     *)
(* handler expects: a leader answers with entries that follow the requested *)
(* offset, with the end of the requested epoch when the logs diverge, or    *)
(* with a snapshot.  A leader's log only grows, so whatever it could answer *)
(* once it can answer later: the network is the set of requests ever sent.  *)
(* The node itself may campaign, lead and propose, as EventLoop and         *)
(* RaftNode have it; here that leaves behind what a follower has to clean   *)
(* up: entries no one else has, callers waiting for them, a pending change. *)
(*                                                                          *)
(* Offsets start at 0: the entry at offset o is log[o + 1].  Timers are     *)
(* left to chance.  Of NodeState the sets of votes are left out (EventLoop  *)
(* has them), of the responses those no leader sends: entries with holes    *)
(* or garbled payloads, a snapshot and a divergence at once.                *)
(***************************************************************************)
EXTENDS Integers, FiniteSets, FiniteSetsExt, Functions, Sequences

CONSTANTS Self,         \* the node
          Peers,        \* the other nodes that may lead
          Nil,          \* None
          Proposals,    \* entry types that are proposed to leaders
          AnswersStale, \* whether a leader answers requests of earlier terms
          MaxTerm,      \* bound on terms
          MaxLog        \* bound on the length of a log

VARIABLES leader_of,    \* who leads each term
          leader_log,   \* the log of the leader of each term
          leader_hw,    \* its high watermark
          committed,    \* history: the entries a majority holds for good
          state,        \* NodeState of the node
          queue,        \* its DeferredCompletionQueue
          in_progress,  \* its SnapshotCoordinator: a transfer has begun
          storage,      \* the storage actions of the batch under way
          quorum_state, \* the quorum-state store
          disk_log,     \* the log store
          applied,      \* what commit notifications went through since it started
          completed,    \* history: callers that were told of success
          requests      \* every FetchRequest ever sent

leaders == <<leader_of, leader_log, leader_hw, committed>>
disk == <<quorum_state, disk_log>>
app == <<applied, completed>>
vars == <<leaders, state, queue, in_progress, storage, disk, app, requests>>

ASSUME NilAssumption == Nil \notin Peers \cup {Self} \cup Int
ASSUME SelfAssumption == Self \notin Peers
ASSUME BoundsAssumption == MaxTerm \in Nat /\ MaxLog \in Nat
ASSUME ProposalsAssumption == Proposals \subseteq {"Command", "VotersRecord"}
ASSUME AnswersStaleAssumption == AnswersStale \in BOOLEAN

Term == 0 .. MaxTerm
Node == Peers \cup {Self}
Offset == 0 .. MaxLog

-----------------------------------------------------------------------------
(* Entries.  A leader writes one entry at an offset of its term, so that    *)
(* term and offset tell entries apart.                                      *)

EntryType == {"Command", "VotersRecord", "LeaderChangeMessage"}
Entry == [term : Term, entry_type : EntryType]
Lcm(t) == [term |-> t, entry_type |-> "LeaderChangeMessage"]

Prefix(s, n) == SubSeq(s, 1, n)
IsPrefix(s, t) == Len(s) <= Len(t) /\ s = Prefix(t, Len(s))
OfType(s, type, indices) == {i \in indices : s[i].entry_type = type}

\* A voter set is named by the offset of its VotersRecord; before is the one
\* in force before the entries at these indices.
LatestVoters(s, indices, before) ==
    LET records == OfType(s, "VotersRecord", indices)
    IN  IF records = {} THEN before ELSE Max(records) - 1

\* NodeState::last_log_term()
last_log_term(s) == IF s.log = <<>> THEN 0 ELSE s.log[Len(s.log)].term
log_end_offset(s) == Len(s.log)

QuorumState(s) ==
    [current_term |-> s.current_term, voted_for |-> s.voted_for, leader_id |-> s.leader_id]

\* The NodeState of a process that starts on the stores.
FromStores ==
    [role |-> "Follower", current_term |-> quorum_state.current_term,
     voted_for |-> quorum_state.voted_for, leader_id |-> quorum_state.leader_id,
     log |-> disk_log, high_watermark |-> 0,
     voter_set |-> LatestVoters(disk_log, DOMAIN disk_log, Nil),
     pending_membership_change |-> Nil,
     leader_epoch_checkpoint |-> [t \in Term |-> Nil]]

-----------------------------------------------------------------------------
(* The batch of I/O actions a handler hands over. *)

PersistQuorumState(s) == [op |-> "PersistQuorumState", quorum |-> QuorumState(s)]
AppendLog(entries) == [op |-> "AppendLog", entries |-> entries]
TruncateSuffix(offset) == [op |-> "TruncateSuffix", offset |-> offset]

\* The node waits for a timer or a message.
Idle == state.role # "Down" /\ storage = <<>>

\* IoStage::execute: the next storage action of the batch is done.
Write ==
    /\ storage # <<>>
    /\ storage' = Tail(storage)
    /\ LET a == Head(storage)
       IN  \/ /\ a.op = "PersistQuorumState"
              /\ quorum_state' = a.quorum
              /\ UNCHANGED disk_log
           \/ /\ a.op = "AppendLog"
              /\ disk_log' = disk_log \o a.entries
              /\ UNCHANGED quorum_state
           \/ /\ a.op = "TruncateSuffix"
              /\ disk_log' = Prefix(disk_log, a.offset)
              /\ UNCHANGED quorum_state
    /\ UNCHANGED <<leaders, state, queue, in_progress, app, requests>>

\* The process is gone, and its memory with it; the callers' futures fail.
Stopped ==
    /\ state' = [FromStores EXCEPT !.role = "Down"]
    /\ storage' = <<>>
    /\ queue' = {}
    /\ in_progress' = FALSE
    /\ UNCHANGED <<leaders, disk, completed, requests>>

Crash ==
    /\ state.role # "Down"
    /\ Stopped
    /\ applied' = <<>>

Restart ==
    /\ state.role = "Down"
    /\ state' = FromStores
    /\ applied' = <<>>
    /\ UNCHANGED <<leaders, queue, in_progress, storage, disk, completed, requests>>

-----------------------------------------------------------------------------
(* Sending. *)

\* build_fetch_request()
FetchRequest(s) ==
    [leader_epoch |-> s.current_term, dest |-> s.leader_id,
     fetch_offset |-> log_end_offset(s), last_fetched_epoch |-> last_log_term(s)]
build_fetch_request(s) ==
    IF s.leader_id # Nil /\ s.role = "Follower" THEN {FetchRequest(s)} ELSE {}

\* on_fetch_tick(): the fetch deadline has passed.
on_fetch_tick ==
    /\ Idle
    /\ requests' = requests \cup build_fetch_request(state)
    /\ UNCHANGED <<leaders, state, queue, in_progress, storage, disk, app>>

-----------------------------------------------------------------------------
(* The leaders' answers. *)

\* The end, in a leader's log, of the last epoch not above e.
EpochEnd(l, e) == Cardinality({i \in DOMAIN l : l[i].term <= e})
HasEpoch(l, e) == e = 0 \/ \E i \in DOMAIN l : l[i].term = e

\* The requested position is not one of the leader's log.
Diverges(l, q) ==
    q.fetch_offset > EpochEnd(l, q.last_fetched_epoch) \/ ~HasEpoch(l, q.last_fetched_epoch)

FetchResponse(t, hw, first, entries, end, snapshot) ==
    [leader_id |-> leader_of[t], leader_epoch |-> t, high_watermark |-> hw, first |-> first,
     entries |-> entries, diverging_epoch |-> end, snapshot_id |-> snapshot]

\* The entries that follow the requested offset, or some of them.
WithEntries(t, q) ==
    LET l == leader_log[t]
        f == q.fetch_offset
    IN  UNION {{FetchResponse(t, hw, f, SubSeq(l, f + 1, k), Nil, Nil) : hw \in 0 .. leader_hw[t]} :
                  k \in f + 1 .. Len(l)}

\* There are none: what the leader answers once it has all the requested log
\* and its LeaderChangeMessage, which it has from the start.
WithNothing(t, q) ==
    LET f == q.fetch_offset
        sent == IF Lcm(t) \in Range(Prefix(leader_log[t], f)) THEN 0 .. Min({f, leader_hw[t]})
                ELSE {}
    IN  {FetchResponse(t, hw, f, <<>>, Nil, Nil) : hw \in sent}

\* What follows is compacted away.
WithSnapshot(t, q) ==
    {FetchResponse(t, hw, q.fetch_offset, <<>>, Nil, hw) :
        hw \in q.fetch_offset + 1 .. leader_hw[t]}

\* What the leader of term t may answer to request q, then or now.  It sends
\* at least one entry if it has any beyond the offset.
Answers(t, q) ==
    LET l == leader_log[t]
    IN  IF Diverges(l, q)
        THEN {FetchResponse(t, leader_hw[t], q.fetch_offset, <<>>,
                            EpochEnd(l, q.last_fetched_epoch), Nil)}
        ELSE WithEntries(t, q) \cup WithNothing(t, q) \cup WithSnapshot(t, q)

\* The terms q may be answered in.  A node that recovers as a follower with
\* itself as the leader asks itself, in vain.
Answering(q) ==
    {t \in 1 .. MaxTerm : /\ q.dest \in Peers
                          /\ leader_of[t] = q.dest
                          /\ t = q.leader_epoch \/ (AnswersStale /\ t > q.leader_epoch)}
Response == UNION {UNION {Answers(t, q) : t \in Answering(q)} : q \in requests}

-----------------------------------------------------------------------------
(* handle_fetch_response().  A response that validate_and_update_term       *)
(* refuses changes nothing.                                                 *)

Accepts(s, r) ==
    \/ r.leader_epoch > s.current_term
    \/ /\ r.leader_epoch = s.current_term
       /\ s.role = "Follower"
       /\ s.leader_id \in {Nil, r.leader_id}

\* NodeState after validate_and_update_term().
Validated(s, r) ==
    IF r.leader_epoch > s.current_term
    THEN [s EXCEPT !.current_term = r.leader_epoch, !.voted_for = Nil,
                   !.leader_id = r.leader_id, !.role = "Follower"]
    ELSE [s EXCEPT !.leader_id = r.leader_id]

\* The quorum state it asks the caller to save, if any.
Deferred(s, r) ==
    IF r.leader_epoch > s.current_term \/ s.leader_id = Nil
    THEN <<PersistQuorumState(Validated(s, r))>>
    ELSE <<>>

\* DefaultSnapshotCoordinator::begin_snapshot_transfer(), which asks for the
\* first chunk.  Nothing takes the answer, and no transfer ever ends.
begin_snapshot_transfer == in_progress' = TRUE

\* The leader has compacted the log past our end: begin a snapshot transfer,
\* unless one has begun before.
snapshot_required(r) ==
    /\ Idle
    /\ Accepts(state, r)
    /\ r.snapshot_id # Nil
    /\ state' = Validated(state, r)
    /\ IF in_progress THEN UNCHANGED in_progress ELSE begin_snapshot_transfer
    /\ storage' = Deferred(state, r)
    /\ UNCHANGED <<leaders, queue, disk, app, requests>>

\* Variant: a pending change survives the truncation of its entry.
TruncatedKeepsChange(s, p) == [s EXCEPT !.log = Prefix(s.log, p)]

\* NodeState after the log was cut at offset p.
Truncated(s, p) ==
    [s EXCEPT !.log = Prefix(s.log, p),
              !.pending_membership_change = IF @ # Nil /\ @ >= p THEN Nil ELSE @,
              !.leader_epoch_checkpoint = [t \in Term |-> IF @[t] # Nil /\ @[t] >= p THEN Nil
                                                          ELSE @[t]]]

\* Variant: the waiter at the truncation point is left behind.
FailAbove(p) == {c \in queue : c.offset <= p}

\* Variant: nobody is told of a truncation.
FailNone(p) == queue

\* DeferredCompletionQueue::fail_at_or_above()
fail_at_or_above(p) == {c \in queue : c.offset < p}

\* Variant: the end the leader sent is taken for nonsense.
TruncationAtEnd(s, r) == log_end_offset(s)

\* Where to cut: never past our own end.
TruncationPoint(s, r) == Min({r.diverging_epoch, log_end_offset(s)})

\* Variant: cutting below the high watermark is not refused.
NeverUncommits(s, p) == FALSE

\* A cut at p would take back what is committed.
Uncommits(s, p) == p < s.high_watermark

\* The logs diverge: cut ours and ask again, or refuse to cut what is
\* committed; a refusal keeps the term and leader taken over, unsaved.
truncate_divergent(r) ==
    LET s == Validated(state, r)
        p == TruncationPoint(s, r)
    IN  /\ Idle
        /\ Accepts(state, r)
        /\ r.diverging_epoch # Nil
        /\ \/ /\ ~Uncommits(s, p)
              /\ state' = Truncated(s, p)
              /\ queue' = fail_at_or_above(p)
              /\ storage' = <<TruncateSuffix(p)>> \o Deferred(state, r)
              /\ requests' = requests \cup build_fetch_request(Truncated(s, p))
           \/ /\ Uncommits(s, p)
              /\ state' = s
              /\ UNCHANGED <<queue, storage, requests>>
        /\ UNCHANGED <<leaders, in_progress, disk, app>>

\* NodeState after the entries at these indices were committed: the bookkeeping
\* of execute_commit_notification().
Notified(s, indices) ==
    LET voters == OfType(s.log, "VotersRecord", indices)
        changes == OfType(s.log, "LeaderChangeMessage", indices)
    IN  [s EXCEPT !.voter_set = LatestVoters(s.log, indices, @),
                  !.pending_membership_change =
                        IF @ # Nil /\ (\E i \in voters : @ <= i - 1) THEN Nil ELSE @,
                  !.leader_epoch_checkpoint =
                        [t \in Term |-> IF \E i \in changes : s.log[i].term = t
                                        THEN (CHOOSE i \in changes : s.log[i].term = t) - 1
                                        ELSE @[t]]]

\* What the first phase goes through from one index to another, in order: the
\* Commands, each with its offset, are given to StateMachine::apply and, as one
\* batch, to the listener; the other entries are bookkeeping (Notified).
WentThrough(l, from, to) ==
    [k \in 1 .. to - from + 1 |-> [offset |-> from + k - 2, entry |-> l[from + k - 1]]]

\* DeferredCompletionQueue::complete()
complete(hw) == {c \in queue : c.offset < hw}

\* Variant: entries are appended wherever they start.
FitsAnywhere(s, r) == TRUE

\* The response has no entries, or they start at our end.
Fits(s, r) == r.entries = <<>> \/ r.first = log_end_offset(s)

\* NodeState after the entries were appended and the high watermark advanced.
Appended(s, r) ==
    LET log == s.log \o r.entries
    IN  [s EXCEPT !.log = log,
                  !.high_watermark = Max({@, Min({r.high_watermark, Len(log)})})]

\* Variant: the entries are kept in memory only.
AppendsInMemory(r) == <<>>

AppendWrites(r) == IF r.entries = <<>> THEN <<>> ELSE <<AppendLog(r.entries)>>

\* Entries, or none: append them, advance the high watermark, run the three
\* phases of the commit notification, and only then hand over the writes.
append_and_commit(r) ==
    LET s == Appended(Validated(state, r), r)
        new == state.high_watermark + 1 .. s.high_watermark
    IN  /\ Idle
        /\ Accepts(state, r)
        /\ r.diverging_epoch = Nil
        /\ r.snapshot_id = Nil
        /\ Fits(state, r)
        /\ state' = Notified(s, new)
        /\ applied' = applied \o WentThrough(s.log, state.high_watermark + 1, s.high_watermark)
        /\ completed' = IF new = {} THEN completed ELSE completed \cup complete(s.high_watermark)
        /\ queue' = IF new = {} THEN queue ELSE queue \ complete(s.high_watermark)
        /\ storage' = AppendWrites(r) \o Deferred(state, r)
        /\ UNCHANGED <<leaders, in_progress, disk, requests>>

\* Entries that do not start at our end are refused; the term and leader taken
\* over with them stay, unsaved.
refuse_entries(r) ==
    /\ Idle
    /\ Accepts(state, r)
    /\ r.diverging_epoch = Nil
    /\ r.snapshot_id = Nil
    /\ ~Fits(state, r)
    /\ state' = Validated(state, r)
    /\ UNCHANGED <<leaders, queue, in_progress, storage, disk, app, requests>>

\* StateMachine::apply fails at the command of some new index: the node halts.
\* Nothing of the batch is written.
apply_fails(r) ==
    LET s == Appended(Validated(state, r), r)
        new == state.high_watermark + 1 .. s.high_watermark
    IN  /\ Idle
        /\ Accepts(state, r)
        /\ r.diverging_epoch = Nil
        /\ r.snapshot_id = Nil
        /\ Fits(state, r)
        /\ \E i \in OfType(s.log, "Command", new) :
             applied' = applied \o WentThrough(s.log, state.high_watermark + 1, i - 1)
        /\ Stopped

handle_fetch_response(r) ==
    \/ snapshot_required(r)
    \/ truncate_divergent(r)
    \/ append_and_commit(r)
    \/ refuse_entries(r)
    \/ apply_fails(r)

\* RaftNode::handle_message(): it refuses envelopes of other clusters and of
\* senders other than the leader they name; no leader sends one.
handle_message(r) == handle_fetch_response(r)

-----------------------------------------------------------------------------
(* Everyone else, and the node in other roles. *)

\* The last term with a leader.
LastLed == Max({0} \cup {t \in 1 .. MaxTerm : leader_of[t] # Nil})

\* Logs some node may hold when it is elected next: it has what is committed.
ElectableLogs ==
    UNION {{Prefix(leader_log[t], k) : k \in 0 .. Len(leader_log[t])} : t \in 1 .. MaxTerm}

\* A peer is elected and appends its LeaderChangeMessage.  It keeps the high
\* watermark it had, at most what is committed.  One that led last has had no
\* one to truncate its log since.
PeerElected(p, t) ==
    /\ t > LastLed
    /\ ~(state.current_term = t /\ state.role = "Leader")
    /\ \E l \in ElectableLogs :
        /\ Len(l) < MaxLog
        /\ IsPrefix(committed, l)
        /\ LastLed > 0 /\ leader_of[LastLed] = p => l = leader_log[LastLed]
        /\ leader_log' = [leader_log EXCEPT ![t] = Append(l, Lcm(t))]
    /\ leader_of' = [leader_of EXCEPT ![t] = p]
    /\ leader_hw' = [leader_hw EXCEPT ![t] = Len(committed)]
    /\ UNCHANGED <<committed, state, queue, in_progress, storage, disk, app, requests>>

PeerAppends(t, type) ==
    /\ leader_of[t] \in Peers
    /\ \A u \in t + 1 .. MaxTerm : leader_of[u] # leader_of[t]
    /\ Len(leader_log[t]) < MaxLog
    /\ leader_log' = [leader_log EXCEPT ![t] = Append(@, [term |-> t, entry_type |-> type])]
    /\ UNCHANGED <<leader_of, leader_hw, committed, state, queue, in_progress, storage, disk,
                   app, requests>>

\* The last leader commits an entry of its own term, and all before it.
Commit(k) ==
    LET l == leader_log[LastLed]
    IN  /\ LastLed > 0
        /\ k \in Len(committed) + 1 .. Len(l)
        /\ l[k].term = LastLed
        /\ committed' = Prefix(l, k)
        /\ leader_hw' = [leader_hw EXCEPT ![LastLed] = k]
        /\ UNCHANGED <<leader_of, leader_log, state, queue, in_progress, storage, disk, app,
                       requests>>

\* The node's role, term, vote and leader change by other handlers, which save
\* them; the log is as before.
Saved(s) ==
    /\ state' = s
    /\ quorum_state' = QuorumState(s)
    /\ UNCHANGED <<leaders, queue, in_progress, storage, disk_log, app, requests>>

\* A higher term is heard of, with a vote for a peer or its leader, or neither.
StepsDown(t, vote, leader) ==
    /\ Idle
    /\ t > state.current_term
    /\ leader \in {Nil, leader_of[t]}
    /\ leader # Self
    /\ Saved([state EXCEPT !.role = "Follower", !.current_term = t, !.voted_for = vote,
                           !.leader_id = leader])

Campaigns ==
    /\ Idle
    /\ state.role \in {"Follower", "Candidate"}
    /\ state.current_term < MaxTerm
    /\ Saved([state EXCEPT !.role = "Candidate", !.current_term = @ + 1, !.voted_for = Self,
                           !.leader_id = Nil])

\* An entry the node appends as a leader, written at once.
Leads(s, entry) ==
    /\ state' = [s EXCEPT !.log = Append(@, entry)]
    /\ disk_log' = Append(disk_log, entry)
    /\ quorum_state' = QuorumState(s)
    /\ leader_log' = [leader_log EXCEPT ![s.current_term] = Append(s.log, entry)]
    /\ UNCHANGED <<leader_hw, committed, in_progress, storage, app, requests>>

Elected ==
    /\ Idle
    /\ state.role = "Candidate"
    /\ state.current_term > LastLed
    /\ IsPrefix(committed, state.log)
    /\ Len(state.log) < MaxLog
    /\ leader_of' = [leader_of EXCEPT ![state.current_term] = Self]
    /\ Leads([state EXCEPT !.role = "Leader", !.leader_id = Self], Lcm(state.current_term))
    /\ UNCHANGED queue

\* DeferredCompletionQueue::park()
park(offset, entry) == queue \cup {[offset |-> offset, entry |-> entry]}

\* A client's command: its future is parked at the offset of the entry.
Propose ==
    LET e == [term |-> state.current_term, entry_type |-> "Command"]
    IN  /\ Idle
        /\ state.role = "Leader"
        /\ "Command" \in Proposals
        /\ Len(state.log) < MaxLog
        /\ Leads(state, e)
        /\ queue' = park(Len(state.log), e)
        /\ UNCHANGED leader_of

\* A change of the voters: one at a time.
ProposeChange ==
    /\ Idle
    /\ state.role = "Leader"
    /\ state.pending_membership_change = Nil
    /\ "VotersRecord" \in Proposals
    /\ Len(state.log) < MaxLog
    /\ Leads([state EXCEPT !.pending_membership_change = Len(state.log)],
             [term |-> state.current_term, entry_type |-> "VotersRecord"])
    /\ UNCHANGED <<leader_of, queue>>

-----------------------------------------------------------------------------
Init ==
    /\ leader_of = [t \in 1 .. MaxTerm |-> Nil]
    /\ leader_log = [t \in 1 .. MaxTerm |-> <<>>]
    /\ leader_hw = [t \in 1 .. MaxTerm |-> 0]
    /\ committed = <<>>
    /\ quorum_state = [current_term |-> 0, voted_for |-> Nil, leader_id |-> Nil]
    /\ disk_log = <<>>
    /\ state = FromStores
    /\ queue = {}
    /\ in_progress = FALSE
    /\ storage = <<>>
    /\ applied = <<>>
    /\ completed = {}
    /\ requests = {}

Next ==
    \/ Write
    \/ Crash
    \/ Restart
    \/ on_fetch_tick
    \/ \E r \in Response : handle_message(r)
    \/ \E p \in Peers, t \in 1 .. MaxTerm : PeerElected(p, t)
    \/ \E t \in 1 .. MaxTerm, type \in Proposals : PeerAppends(t, type)
    \/ \E k \in 1 .. MaxLog : Commit(k)
    \/ \E t \in 1 .. MaxTerm, vote \in Peers \cup {Nil} :
         \E leader \in {Nil, leader_of[t]} : StepsDown(t, vote, leader)
    \/ Campaigns
    \/ Elected
    \/ Propose
    \/ ProposeChange

Spec == Init /\ [][Next]_vars

\* The answer to what the node would ask now, once it has asked.
Answered ==
    /\ FetchRequest(state) \in requests
    /\ state.current_term \in Answering(FetchRequest(state))
    /\ \E r \in Answers(state.current_term, FetchRequest(state)) : handle_message(r)

\* Batches are finished, the fetch timer goes off, and a request that is sent
\* again and again is answered some time.
Fairness == WF_vars(Write) /\ WF_vars(on_fetch_tick) /\ SF_vars(Answered)

FairSpec == Spec /\ Fairness

-----------------------------------------------------------------------------
NodeState ==
    [role : {"Down", "Follower", "Candidate", "Leader"}, current_term : Term,
     voted_for : Node \cup {Nil}, leader_id : Node \cup {Nil}, log : Seq(Entry),
     high_watermark : Nat, voter_set : Nat \cup {Nil},
     pending_membership_change : Nat \cup {Nil},
     leader_epoch_checkpoint : [Term -> Nat \cup {Nil}]]

Record == [offset : Nat, entry : Entry]

\* Every variable has the type its declaration in the code gives it.
TypeOK ==
    /\ leader_of \in [1 .. MaxTerm -> Node \cup {Nil}]
    /\ leader_log \in [1 .. MaxTerm -> Seq(Entry)]
    /\ leader_hw \in [1 .. MaxTerm -> Nat]
    /\ committed \in Seq(Entry)
    /\ state \in NodeState
    /\ queue \subseteq Record
    /\ in_progress \in BOOLEAN
    /\ disk_log \in Seq(Entry)
    /\ quorum_state \in [current_term : Term, voted_for : Node \cup {Nil},
                         leader_id : Node \cup {Nil}]
    /\ applied \in Seq(Record)
    /\ completed \subseteq Record

\* What is committed here is committed: commit notifications, and with them the
\* state machine, went through the committed log up to the high watermark, each
\* entry once and in order, and the epoch checkpoint and the voter set are those
\* of that prefix.
AppliedIsCommitted ==
    LET hw == state.high_watermark
    IN  /\ IsPrefix(Prefix(state.log, hw), committed)
        /\ hw <= Len(state.log)
        /\ state.role # "Down" => applied = WentThrough(committed, 1, hw)
        /\ \A t \in Term, o \in Offset :
             state.leader_epoch_checkpoint[t] = o <=> o < hw /\ committed[o + 1] = Lcm(t)
        /\ LatestVoters(committed, 1 .. hw, Nil) \in {Nil, state.voter_set}

\* The caller of a proposal that was told of success finds its own entry
\* committed, not another one at its offset (DeferredCompletionQueue).
CompletionsAreTrue ==
    \A c \in completed : c.offset < Len(committed) /\ committed[c.offset + 1] = c.entry

\* Whoever waits, waits for an entry that is still in the log and not yet
\* committed here: no future is left behind by a truncation or a commit.
\* The type invariant is its first part.
WaitersHaveEntries ==
    /\ TypeOK
    /\ \A c \in queue : /\ c.offset \in state.high_watermark .. Len(state.log) - 1
                        /\ state.log[c.offset + 1] = c.entry

\* A pending change is in the log and not yet committed here; a stale one would
\* block every later change (membership.rs, "permanently blocking new
\* membership changes").
PendingChangeInLog ==
    LET o == state.pending_membership_change
    IN  o # Nil => /\ o \in state.high_watermark .. Len(state.log) - 1
                   /\ state.log[o + 1].entry_type = "VotersRecord"

\* New requests ask from an offset below which everything is stored.
AsksFromStored ==
    \A q \in requests' \ requests :
        /\ q.fetch_offset <= Len(disk_log)
        /\ Prefix(disk_log, q.fetch_offset) = Prefix(state'.log, q.fetch_offset)

\* The node never asks from an offset it has not stored everything below: the
\* leader counts the offset of a request as replicated.
FetchedIsStored == [][AsksFromStored]_vars

\* The high watermark does not go back and the entries below it stay.
KeepsCommitted ==
    /\ state'.high_watermark >= state.high_watermark
    /\ IsPrefix(Prefix(state.log, state.high_watermark), state'.log)

\* As long as the process lives, its high watermark does not go back and the
\* entries below it stay.
CommittedIsKept == [][state.role # "Down" /\ state'.role # "Down" => KeepsCommitted]_vars

Following(t) ==
    state.role = "Follower" /\ state.current_term = t /\ state.leader_id = leader_of[t]

\* A follower that stays with a leader gets rid of what diverges from its log
\* (tech-spec.md, "The follower truncates its log back to the diverging point").
DivergenceResolved ==
    \A t \in 1 .. MaxTerm :
        (Following(t) /\ leader_of[t] \in Peers)
          ~> (~Following(t) \/ IsPrefix(state.log, leader_log[t]))
=============================================================================
