--------------------------- MODULE StorageEngine ----------------------------
(***************************************************************************)
(* The durable state of a node as one whole: StorageEngine::open           *)
(* (xraft-storage/src/lib.rs), the two small files QuorumStateFile and     *)
(* LeaderEpochCheckpoint, and IoStage (xraft-core/src/io_stage.rs), which  *)
(* executes a batch of I/O actions in three concurrent groups.             *)
(*                                                                         *)
(* The log and the snapshots are taken at their contracts here (LogStore   *)
(* and SnapshotStore are modelled on their own): a call takes effect at    *)
(* one moment or fails without effect.  The process may stop anywhere.     *)
(*                                                                         *)
(* The stores share nothing, so calls to different ones commute; one save, *)
(* one checkpoint or one batch is under way at a time, and the concurrency *)
(* that is explored is the one inside a batch.                             *)
(***************************************************************************)
EXTENDS Integers, Sequences, FiniteSets, FiniteSetsExt, Functions

CONSTANTS Peer,        \* the nodes a batch sends to
          MaxOffset,   \* bound: the log's offsets
          MaxTerm,     \* bound: the terms of entries and of quorum states
          Absent, Torn

ASSUME BoundsAssumption == MaxOffset \in Nat /\ MaxTerm \in Nat /\ IsFiniteSet(Peer)

VARIABLES log_start, log,              \* the log: its first offset, its entries
          snapshot,                    \* end offset of the newest snapshot, 0: none
          qs_file, qs_writing, cached, \* QuorumStateFile
          ep_file, ep_writing, epochs, \* LeaderEpochCheckpoint
          status,                      \* of the process: down, opening, up
          batch, todo, done, returned, \* IoStage::execute, see below
          sent,                        \* the peers the batch's messages went to
          known,                       \* the snapshot the event loop counts on
          acked                        \* the last term whose save returned Ok

diskVars == <<log_start, log, snapshot>>
qsVars == <<qs_file, qs_writing, cached, acked>>
epVars == <<ep_file, ep_writing, epochs>>
batchVars == <<batch, todo, done, returned, sent>>
vars == <<diskVars, qsVars, epVars, batchVars, status, known>>

Term == 1 .. MaxTerm
Offset == 0 .. MaxOffset
Entry == [term : Term, entry_type : {"LeaderChangeMessage", "Command"}]
EpochMap == UNION { [T -> Offset] : T \in SUBSET Term }

ASSUME NoneAssumption == /\ Absent \notin Nat
                         /\ Torn \notin Nat \cup EpochMap \cup {Absent}

end_offset == log_start + Len(log)
TermOf(v) == IF v = Absent THEN 0 ELSE v

Q == INSTANCE AtomicFile WITH Value <- Term, file <- qs_file, writing <- qs_writing
C == INSTANCE AtomicFile WITH Value <- EpochMap, file <- ep_file, writing <- ep_writing

Group == {"log", "snap", "net"}
NoTodo == [g \in Group |-> {}]
NoDone == [g \in Group |-> <<>>]
NoBatch == batch = <<>> /\ todo = NoTodo /\ done = NoDone /\ returned = <<>> /\ sent = {}

Init == /\ log_start = 0 /\ log = <<>> /\ snapshot = 0
        /\ Q!Init /\ C!Init
        /\ cached = Absent /\ epochs = <<>> /\ acked = Absent
        /\ status = "down" /\ known = 0
        /\ NoBatch

(***************************************************************************)
(* StorageEngine::open                                                     *)
(***************************************************************************)
\* The first LeaderChangeMessage of every term in [start, end).
Scan == LET changes == { i \in DOMAIN log : log[i].entry_type = "LeaderChangeMessage" }
        IN  [t \in { log[i].term : i \in changes } |->
                log_start + Min({ i \in changes : log[i].term = t }) - 1]

\* Variant: the checkpoint file is trusted when there is one.
RebuildIfAbsent(entries) ==
    LET loaded == IF ep_file.data = Absent THEN entries ELSE ep_file.data
    IN  epochs' = loaded /\ C!Begin(loaded)

rebuild(entries) == epochs' = entries /\ C!Begin(entries)

\* A quorum state or a checkpoint that does not parse ends open with
\* Corruption.
quorum_state_open == qs_file.data # Torn /\ cached' = qs_file.data
checkpoint_open == ep_file.data # Torn

Open == /\ status = "down"
        /\ status' = "opening"
        /\ quorum_state_open
        /\ known' = snapshot
        /\ checkpoint_open
        /\ rebuild(Scan)
        /\ UNCHANGED <<diskVars, qs_file, qs_writing, acked, batchVars>>

OpenReturns == /\ status = "opening"
               /\ C!ReturnOk
               /\ status' = "up"
               /\ UNCHANGED <<diskVars, qsVars, epochs, batchVars, known>>

Loses == /\ status' = "down"
         /\ cached' = Absent /\ epochs' = <<>> /\ known' = 0
         /\ batch' = <<>> /\ todo' = NoTodo /\ done' = NoDone
         /\ returned' = <<>> /\ sent' = {}

OpenFails == /\ status = "opening"
             /\ C!ReturnErr
             /\ Loses
             /\ UNCHANGED <<diskVars, qs_file, qs_writing, acked>>

\* The process stops, wherever it is.
Stop == /\ status # "down"
        /\ Q!Stop /\ C!Stop
        /\ Loses
        /\ UNCHANGED <<diskVars, acked>>

(***************************************************************************)
(* QuorumStateFile::save and LeaderEpochCheckpoint::append                 *)
(***************************************************************************)
Free == status = "up" /\ qs_writing = Q!Idle /\ ep_writing = C!Idle /\ batch = <<>>

\* Terms only grow: the callers' discipline (RaftNode).
save == /\ Free
        /\ \E t \in Term : t >= TermOf(cached) /\ Q!Begin(t)
        /\ UNCHANGED <<diskVars, cached, acked, epVars, batchVars, status, known>>

\* Variant: the cached value is left as it was.
SaveReturnsStale == /\ Q!ReturnOk
                    /\ acked' = qs_writing.value
                    /\ UNCHANGED <<cached, diskVars, epVars, batchVars, status, known>>

save_returns == /\ Q!ReturnOk
                /\ cached' = qs_writing.value
                /\ acked' = qs_writing.value
                /\ UNCHANGED <<diskVars, epVars, batchVars, status, known>>

save_steps == /\ Q!Steps \/ Q!ReturnErr
              /\ UNCHANGED <<diskVars, cached, acked, epVars, batchVars, status, known>>

\* append inserts into the map before it persists: the map stays ahead of the
\* file when that fails.
Insert(m, t, o) == [k \in DOMAIN m \cup {t} |-> IF k = t THEN o ELSE m[k]]

append == /\ Free
          /\ \E i \in DOMAIN log :
                /\ log[i].entry_type = "LeaderChangeMessage"
                /\ epochs' = Insert(epochs, log[i].term, log_start + i - 1)
                /\ C!Begin(epochs')
          /\ UNCHANGED <<diskVars, qsVars, batchVars, status, known>>

append_returns == /\ status = "up"
                  /\ C!ReturnOk \/ C!ReturnErr
                  /\ UNCHANGED <<diskVars, qsVars, epochs, batchVars, status, known>>

persist == /\ C!Steps
           /\ UNCHANGED <<diskVars, qsVars, epochs, batchVars, status, known>>

lookup_le(t) == LET ts == { k \in DOMAIN epochs : k <= t }
                IN  IF ts = {} THEN <<>> ELSE <<Max(ts), epochs[Max(ts)]>>

(***************************************************************************)
(* IoStage::execute.  A batch is what the event loop hands over: at most   *)
(* one write to the log (architecture.md, section 4.1), at most one        *)
(* snapshot, and messages, in any order.                                   *)
(*   todo[g]   the places in the batch of the actions group g still has to *)
(*             execute, one after the other                                *)
(*   done[g]   the results of the others, each with its place              *)
(*   returned  the merged results, until the event loop has read them      *)
(***************************************************************************)
GroupOf(a) == CASE a.op = "SaveSnapshot" -> "snap"
                [] a.op = "SendRpc" -> "net"
                [] OTHER -> "log"

LastTerm == IF log = <<>> THEN 1 ELSE log[Len(log)].term

\* The log writes the event loop may ask for: entries of growing terms, cuts
\* above the snapshot, and a prefix only once its snapshot is known.
LogActions ==
    { [op |-> "AppendLog", entry |-> e] :
         e \in { x \in Entry : end_offset < MaxOffset /\ x.term >= LastTerm } }
    \cup { [op |-> "TruncateSuffix", at |-> o] :
              o \in Max({log_start, known}) .. (end_offset - 1) }
    \cup { [op |-> "TruncatePrefix", at |-> o] :
              o \in (log_start + 1) .. Min({known, end_offset}) }
SnapActions == { [op |-> "SaveSnapshot", at |-> o] : o \in (known + 1) .. end_offset }
NetActions == { [op |-> "SendRpc", peer |-> p] : p \in Peer }

AtMostOne(S) == {{}} \cup { {a} : a \in S }

Batches == LET parts == { x \in AtMostOne(LogActions) \X AtMostOne(SnapActions)
                                   \X SUBSET NetActions :
                             \A l \in x[1], s \in x[2] :
                                 l.op = "TruncateSuffix" => s.at <= l.at }
               Orders(S) == Injection(1 .. Cardinality(S), S)
           IN  UNION { Orders(x[1] \cup x[2] \cup x[3]) : x \in parts }

\* The batch is drained into its groups.
Partition(b) == [g \in Group |-> { i \in DOMAIN b : GroupOf(b[i]) = g }]

execute == /\ Free
           /\ \E b \in Batches \ {<<>>} : batch' = b /\ todo' = Partition(b)
           /\ UNCHANGED <<done, returned, sent, diskVars, qsVars, epVars, status, known>>

\* A group executes its actions in the order of the batch.
NextAction(g) == batch[Min(todo[g])]

\* Group g has executed its next action, with result r.
Result(g, r) == /\ todo' = [todo EXCEPT ![g] = @ \ {Min(@)}]
                /\ done' = [done EXCEPT ![g] = Append(@, [idx |-> Min(todo[g]), result |-> r])]

execute_log_group ==
    /\ todo["log"] # {}
    /\ LET a == NextAction("log")
       IN  \/ /\ a.op = "AppendLog"
              /\ log' = Append(log, a.entry)
              /\ Result("log", "LogAppended")
              /\ UNCHANGED log_start
           \/ /\ a.op = "TruncateSuffix"
              /\ log' = SubSeq(log, 1, a.at - log_start)
              /\ Result("log", "SuffixTruncated")
              /\ UNCHANGED log_start
           \/ /\ a.op = "TruncatePrefix"
              /\ log' = SubSeq(log, a.at - log_start + 1, Len(log))
              /\ log_start' = a.at
              /\ Result("log", "PrefixTruncated")
           \/ /\ Result("log", IF a.op = "TruncatePrefix" THEN "PrefixTruncateFailed"
                               ELSE "StorageFailed")
              /\ UNCHANGED <<log, log_start>>
    /\ UNCHANGED <<batch, returned, sent, snapshot, qsVars, epVars, status, known>>

\* Variant: a failed save is reported as a success.
SnapGroupIgnoresErrors ==
    /\ todo["snap"] # {}
    /\ Result("snap", "SnapshotSaved")
    /\ snapshot' \in {snapshot, NextAction("snap").at}
    /\ UNCHANGED <<batch, returned, sent, log, log_start, qsVars, epVars, status, known>>

execute_snap_group ==
    /\ todo["snap"] # {}
    /\ \/ /\ snapshot' = NextAction("snap").at
          /\ Result("snap", "SnapshotSaved")
       \/ /\ Result("snap", "SnapshotSaveFailed")
          /\ UNCHANGED snapshot
    /\ UNCHANGED <<batch, returned, sent, log, log_start, qsVars, epVars, status, known>>

execute_net_group ==
    /\ todo["net"] # {}
    /\ \/ /\ sent' = sent \cup {NextAction("net").peer}
          /\ Result("net", "RpcSent")
       \/ /\ Result("net", "RpcFailed")
          /\ UNCHANGED sent
    /\ UNCHANGED <<batch, returned, diskVars, qsVars, epVars, status, known>>

\* Variant: the three groups' results, one after the other.
MergeUnsorted == LET all == done["log"] \o done["snap"] \o done["net"]
                 IN  [i \in DOMAIN all |-> all[i].result]

\* The results of the three groups, sorted by their place in the batch: the
\* i-th is the one with i places up to its own.
Merged == LET all == done["log"] \o done["snap"] \o done["net"]
              places == { x.idx : x \in Range(all) }
              Rank(x) == Cardinality({ p \in places : p <= x.idx })
          IN  [i \in DOMAIN all |-> (CHOOSE x \in Range(all) : Rank(x) = i).result]

execute_returns == /\ batch # <<>>
                   /\ returned = <<>>
                   /\ todo = NoTodo
                   /\ returned' = Merged
                   /\ UNCHANGED <<batch, todo, done, sent, diskVars, qsVars, epVars, status, known>>

\* The event loop reads result i as that of action i: a snapshot reported
\* saved is one it may truncate the log up to.
ReadResults ==
    /\ returned # <<>>
    /\ known' = Max({known} \cup { batch[i].at : i \in
                       { j \in DOMAIN batch : /\ batch[j].op = "SaveSnapshot"
                                              /\ returned[j] = "SnapshotSaved" } })
    /\ batch' = <<>> /\ todo' = NoTodo /\ done' = NoDone
    /\ returned' = <<>> /\ sent' = {}
    /\ UNCHANGED <<diskVars, qsVars, epVars, status>>

Next == \/ Open \/ OpenReturns \/ OpenFails \/ Stop
        \/ save \/ save_steps \/ save_returns
        \/ append \/ persist \/ append_returns
        \/ execute \/ execute_log_group \/ execute_snap_group \/ execute_net_group
        \/ execute_returns \/ ReadResults

Spec == Init /\ [][Next]_vars

(***************************************************************************)
(* Properties                                                              *)
(***************************************************************************)
\* Every variable has its type.
TypeOK == /\ log_start \in Offset /\ log \in Seq(Entry) /\ end_offset \in Offset
          /\ snapshot \in Offset /\ known \in Offset
          /\ cached \in Term \cup {Absent} /\ acked \in Term \cup {Absent}
          /\ epochs \in EpochMap
          /\ status \in {"down", "opening", "up"}
          /\ sent \subseteq Peer

\* No entry is missing between the newest snapshot and the log: the prefix is
\* cut only up to a snapshot that is on disk, at every moment the process may
\* stop and whatever fails in a batch (io_stage.rs:81-180).
NoGap == log_start <= snapshot

\* Result r says what happened to action a.
IsTrue(r, a) ==
    CASE a.op = "AppendLog" -> \/ r = "LogAppended" /\ log # <<>> /\ log[Len(log)] = a.entry
                               \/ r = "StorageFailed"
      [] a.op = "TruncateSuffix" -> (r = "SuffixTruncated") = (end_offset = a.at)
      [] a.op = "TruncatePrefix" -> (r = "PrefixTruncated") = (log_start = a.at)
      [] a.op = "SaveSnapshot" -> (r = "SnapshotSaved") = (snapshot = a.at)
      [] a.op = "SendRpc" -> (r = "RpcSent") = (a.peer \in sent)

\* execute returns one result for each action of the batch, in the batch's
\* order, and each says what happened to its own action, although the three
\* groups end in any order (io_stage.rs:100-110).
ResultsAreTrue ==
    returned # <<>> => /\ DOMAIN returned = DOMAIN batch
                       /\ \A i \in DOMAIN batch : IsTrue(returned[i], batch[i])

\* A term whose save returned Ok is never forgotten: what load() returns is at
\* least as new, before and after any stop (quorum_state_file.rs:49-79).
AckedIsLoaded == status # "down" => TermOf(cached) >= TermOf(acked)

\* QuorumStateFile keeps the promise of a register that survives stops
\* (quorum_state_file.rs:64-78).
SavesAreAtomic == Q!Implements

\* Neither file ever holds a part of a value, so that open never ends in
\* Corruption (quorum_state_file.rs:23-25, leader_epoch_checkpoint.rs:27-31).
\* The type invariant is its first part.
FilesParse == TypeOK /\ qs_file.data # Torn /\ ep_file.data # Torn

\* When open returns, the epoch looked up for a term is the greatest term up to
\* it that has a LeaderChangeMessage in the log, with the offset of its first.
OpenMatchesLog ==
    status = "opening" /\ status' = "up" =>
       \A t \in Term :
          LET At(i) == <<log[i].term, log_start + i - 1>>
              upTo == { At(i) : i \in { j \in DOMAIN log :
                           log[j].entry_type = "LeaderChangeMessage" /\ log[j].term <= t } }
          IN  IF upTo = {} THEN lookup_le(t)' = <<>>
              ELSE /\ lookup_le(t)' \in upTo
                   /\ \A x \in upTo : \/ x[1] < lookup_le(t)'[1]
                                      \/ /\ x[1] = lookup_le(t)'[1]
                                         /\ x[2] >= lookup_le(t)'[2]

\* Whatever an earlier run left in the checkpoint file, it answers from the log
\* after every open (lib.rs:92-109).
EpochsMatchLog == [][OpenMatchesLog]_vars
=============================================================================
