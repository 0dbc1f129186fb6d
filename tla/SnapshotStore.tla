--------------------------- MODULE SnapshotStore ----------------------------
(***************************************************************************)
(* The snapshot directories of a leader and of a follower that fetches a   *)
(* snapshot from it chunk by chunk (xraft-storage/src/snapshot_store.rs).  *)
(* A snapshot is a data file (.snap) with a metadata file (.meta) beside   *)
(* it; a snapshot exists for list_snapshots when its metadata file does.   *)
(*                                                                         *)
(* The store has no lock and no session: the order of the calls is the     *)
(* caller's.  The fetching follower, which is not part of the store, asks  *)
(* for one position after the other and ignores any chunk that it does not *)
(* wait for (architecture.md:1428-1439).                                   *)
(***************************************************************************)
EXTENDS Integers, Sequences, FiniteSets, SequencesExt, FiniteSetsExt, Functions

CONSTANTS Ids,          \* snapshots, as pairs <<term, index>>
          Size,         \* Size[id]: bytes of the snapshot
          ChunkSize     \* chunk_size

ASSUME SnapshotStoreAssumption ==
    /\ Ids \subseteq Nat \X Nat
    /\ Size \in [Ids -> Nat]
    /\ ChunkSize \in Nat \ {0}

Stores == {"leader", "follower"}
None == <<0, 0>>

VARIABLES snap,         \* snap[s]: data files, id -> bytes
          meta,         \* meta[s]: metadata files, id -> "whole" or "torn"
          fetching,     \* the snapshot the follower fetches, or None
          position,     \* the position it asks for next
          wire          \* chunks sent and not discarded

files == <<snap, meta>>
vars == <<files, fetching, position, wire>>

\* Byte i of a snapshot is i; 0 is a byte that no write has set.
Data(id) == [i \in 1 .. Size[id] |-> i]

\* The order of list_snapshots and purge_older_than.
Older(a, b) == a[1] < b[1] \/ (a[1] = b[1] /\ a[2] < b[2])

With(f, id, v) == [x \in DOMAIN f \cup {id} |-> IF x = id THEN v ELSE f[x]]
Without(f, gone) == Restrict(f, DOMAIN f \ gone)

\* list_snapshots parses every metadata file and fails on the first that does
\* not parse.
ListFails(s) == \E id \in DOMAIN meta[s] : meta[s][id] = "torn"
list_snapshots(s) == DOMAIN meta[s]

Init == /\ snap = [s \in Stores |-> <<>>]
        /\ meta = [s \in Stores |-> <<>>]
        /\ fetching = None
        /\ position = 0
        /\ wire = {}

-----------------------------------------------------------------------------
(* Writing: the data first, then the metadata.  A process that stops inside *)
(* leaves a part of one of them.                                            *)

\* A stopped follower has forgotten what it was fetching.
Interrupted(s) ==
    /\ IF s = "follower" THEN fetching' = None /\ position' = 0
                         ELSE UNCHANGED <<fetching, position>>
    /\ UNCHANGED wire

\* The states of the directory s inside a write that takes the data file of id
\* through `datas` and then, if it is the last one, writes the metadata.
StopsIn(s, id, datas, last) ==
    /\ \/ /\ \E d \in datas : snap' = [snap EXCEPT ![s] = With(@, id, d)]
          /\ UNCHANGED meta
       \/ /\ last
          /\ snap' = [snap EXCEPT ![s] = With(@, id, CHOOSE d \in datas :
                                           \A e \in datas : Len(e) <= Len(d))]
          /\ meta' = [meta EXCEPT ![s] = With(@, id, "torn")]
    /\ Interrupted(s)

\* The log moves on between two snapshots of a node: each is newer than the
\* ones before it, unless the process stopped inside the last attempt.
save_snapshot(id) ==
    LET datas == { SubSeq(Data(id), 1, n) : n \in 0 .. Size[id] }
    IN /\ id \notin DOMAIN meta["leader"]
       /\ \A x \in DOMAIN snap["leader"] : ~ Older(id, x)
       /\ \/ /\ snap' = [snap EXCEPT !["leader"] = With(@, id, Data(id))]
             /\ meta' = [meta EXCEPT !["leader"] = With(@, id, "whole")]
             /\ UNCHANGED <<fetching, position, wire>>
          \/ StopsIn("leader", id, datas, TRUE)

\* Variant: the metadata is written with every chunk.
MetaAlways(done, f, id) == With(f, id, "whole")

\* The metadata file is written with the last chunk.
MetaIfDone(done, f, id) == IF done THEN With(f, id, "whole") ELSE f

\* seek and write_all: a gap before the position reads as zeros.
WriteAt(f, at, bytes) ==
    [i \in 1 .. Max({Len(f), at + Len(bytes)}) |->
        IF at < i /\ i <= at + Len(bytes) THEN bytes[i - at]
        ELSE IF i <= Len(f) THEN f[i] ELSE 0]

\* write_chunk creates or truncates the file for position 0 and opens the
\* existing one otherwise.
Opened(c) == IF c.position = 0 THEN <<>> ELSE snap["follower"][c.id]

write_chunk(c) ==
    /\ snap' = [snap EXCEPT !["follower"] =
                  With(@, c.id, WriteAt(Opened(c), c.position, c.data))]
    /\ meta' = [meta EXCEPT !["follower"] = MetaIfDone(c.done, @, c.id)]
    /\ fetching' = IF c.done THEN None ELSE fetching
    /\ position' = IF c.done THEN 0 ELSE position + Len(c.data)
    /\ UNCHANGED wire

write_chunk_stops(c) ==
    StopsIn("follower", c.id,
            { WriteAt(Opened(c), c.position, SubSeq(c.data, 1, n)) : n \in 0 .. Len(c.data) },
            c.done)

-----------------------------------------------------------------------------
(* Reading and transferring.                                                *)

\* Variant: the end of the file is never reported.
ReadNeverDone(file, at) ==
    [data |-> SubSeq(file, at + 1, Min({Len(file), at + ChunkSize})), done |-> FALSE]

\* read_chunk: up to ChunkSize bytes, done when they reach the end of the file;
\* nothing, and done, from the end on.
read_chunk(file, at) ==
    IF at >= Len(file) THEN [data |-> <<>>, done |-> TRUE]
    ELSE LET n == Min({Len(file) - at, ChunkSize})
         IN [data |-> SubSeq(file, at + 1, at + n), done |-> at + n >= Len(file)]

BeginFetch(id) ==
    /\ fetching = None
    /\ ~ ListFails("leader")
    /\ id \in list_snapshots("leader")
    /\ id \notin DOMAIN meta["follower"]
    /\ fetching' = id
    /\ position' = 0
    /\ UNCHANGED <<files, wire>>

\* The request reaches the leader, and the answer gets on its way.
Request ==
    /\ fetching # None
    /\ fetching \in DOMAIN snap["leader"]
    /\ LET r == read_chunk(snap["leader"][fetching], position)
           c == [id |-> fetching, position |-> position, data |-> r.data, done |-> r.done]
       IN c \notin wire /\ wire' = wire \cup {c}
    /\ UNCHANGED <<files, fetching, position>>

\* The leader has purged the snapshot: read_chunk fails.
RequestFails ==
    /\ fetching # None
    /\ fetching \notin DOMAIN snap["leader"]
    /\ fetching' = None
    /\ position' = 0
    /\ UNCHANGED <<files, wire>>

\* A chunk may arrive late and again; only the one waited for is written.
Awaited == { c \in wire : c.id = fetching /\ c.position = position }

Deliver == \E c \in Awaited : write_chunk(c)
DeliverAndStop == \E c \in Awaited : write_chunk_stops(c)

\* Variant: the snapshot to keep is removed as well.
PurgedUpTo(s, keep) == { id \in list_snapshots(s) : ~ Older(keep, id) }

Purged(s, keep) == { id \in list_snapshots(s) : Older(id, keep) }

\* purge_older_than removes, one after the other, the data and the metadata of
\* what is older than a snapshot the node has.
purge_older_than(s, keep) ==
    /\ ~ ListFails(s)
    /\ keep \in list_snapshots(s)
    /\ \/ /\ snap' = [snap EXCEPT ![s] = Without(@, Purged(s, keep))]
          /\ meta' = [meta EXCEPT ![s] = Without(@, Purged(s, keep))]
          /\ UNCHANGED <<fetching, position, wire>>
       \/ /\ \E id \in Purged(s, keep) :
                LET first == { x \in Purged(s, keep) : Older(id, x) }
                IN /\ snap' = [snap EXCEPT ![s] = Without(@, first \cup {id})]
                   /\ meta' = [meta EXCEPT ![s] = Without(@, first)]
          /\ Interrupted(s)

Next ==
    \/ \E id \in Ids : save_snapshot(id) \/ BeginFetch(id)
    \/ Request
    \/ RequestFails
    \/ Deliver
    \/ DeliverAndStop
    \/ \E s \in Stores, keep \in Ids : purge_older_than(s, keep)

Spec == Init /\ [][Next]_vars

\* A request in progress is made, and an answer that is waited for arrives.
FairSpec == Spec /\ WF_vars(Request) /\ WF_vars(RequestFails) /\ WF_vars(Deliver)

-----------------------------------------------------------------------------
\* Every variable has its type.
TypeOK ==
    /\ \A s \in Stores :
          /\ DOMAIN snap[s] \subseteq Ids
          /\ \A id \in DOMAIN snap[s] :
                snap[s][id] \in Seq(0 .. Size[id]) /\ Len(snap[s][id]) <= Size[id]
          /\ DOMAIN meta[s] \subseteq Ids
          /\ Range(meta[s]) \subseteq {"whole", "torn"}
    /\ fetching \in Ids \cup {None}
    /\ position \in 0 .. Max({ Size[id] : id \in Ids })

\* A snapshot that has a metadata file has all of its data or, after a purge
\* that did not get to the metadata, none: load_snapshot never returns a part,
\* whatever chunks of several attempts were written and wherever the process
\* stopped (snapshot_store.rs:76-90, 138-171).  The type invariant is its first
\* part.
LoadedIsComplete ==
    /\ TypeOK
    /\ \A s \in Stores : \A id \in list_snapshots(s) :
          id \in DOMAIN snap[s] => snap[s][id] = Data(id)

Usable(s) == { id \in list_snapshots(s) :
                 /\ meta[s][id] = "whole"
                 /\ id \in DOMAIN snap[s] /\ snap[s][id] = Data(id) }

\* The newest usable snapshot of a store never goes back: neither a purge nor
\* a new attempt at a transfer, wherever the process stops in it, takes away
\* what recovery would start from (snapshot_store.rs:199-215).
NewestStays ==
    [][\A s \in Stores : \A id \in Usable(s) :
          \E new \in Usable(s)' : ~ Older(new, id)]_vars

\* A fetch comes to an end: positions only grow, and the last chunk says so,
\* also for an empty snapshot and for one that fills its last chunk.
FetchEnds == fetching # None ~> fetching = None
=============================================================================
