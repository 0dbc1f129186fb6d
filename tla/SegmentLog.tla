----------------------------- MODULE SegmentLog -----------------------------
(***************************************************************************)
(* The segmented log of one node (xraft-storage/src/segment_log.rs and     *)
(* segment.rs): a directory of segment files named by their base offset,   *)
(* each a sequence of checksummed batches, and a file with the persisted   *)
(* start offset.                                                           *)
(*                                                                         *)
(* Every operation holds the mutex of the log, so operations do not        *)
(* interleave with each other, but the process may stop inside one: each   *)
(* operation lists the directories it passes through, and either completes *)
(* or leaves the node down with one of them.                               *)
(***************************************************************************)
EXTENDS Integers, Sequences, FiniteSets, SequencesExt, FiniteSetsExt, Functions

CONSTANTS Terms,          \* terms an entry may carry
          MaxBatch,       \* entries per append
          MaxOffset,      \* bound on the log's end
          SegmentLimit,   \* segment_size_limit, counted in entries
          MaxDropped,     \* segments of a prefix truncation that is interrupted
          RemoveFails     \* a remove_file may fail (its error is dropped)

ASSUME SegmentLogAssumption ==
    /\ MaxBatch \in Nat \ {0}
    /\ SegmentLimit \in Nat \ {0}
    /\ MaxOffset \in Nat
    /\ MaxDropped \in Nat
    /\ RemoveFails \in BOOLEAN

VARIABLES files,             \* on disk: base offset -> sequence of batches
          start_file,        \* on disk: the log-start-offset file
          up,                \* the process runs
          segments,          \* base offsets of the open segments
          log_start_offset, log_end_offset,
          call               \* the last call and whether it returned

disk == <<files, start_file>>
memory == <<up, segments, log_start_offset, log_end_offset>>
vars == <<disk, memory, call>>

-----------------------------------------------------------------------------
(* Batches.  A batch that was not written in full, or not with the checksum *)
(* of its content, is Torn.                                                 *)

Entry == [offset : 0 .. MaxOffset, term : Terms]
Torn == <<>>
BatchAt(o, ts) == [i \in DOMAIN ts |-> [offset |-> o + i - 1, term |-> ts[i]]]
BatchesAt(o) ==
    { BatchAt(o, ts) : ts \in UNION { [1 .. n -> Terms] : n \in 1 .. MaxBatch } }

IsTorn(batch) == batch = Torn

(* Segments.                                                                *)

\* Segment::recover: the file is cut at its first batch that does not verify.
recover(batches) ==
    IF \E i \in DOMAIN batches : IsTorn(batches[i])
    THEN SubSeq(batches, 1, SelectInSeq(batches, IsTorn) - 1)
    ELSE batches

Positions(batches) == UNION { {i} \X DOMAIN batches[i] : i \in DOMAIN batches }
Entries(batches) == { batches[p[1]][p[2]] : p \in Positions(batches) }

entry_count(fs, b) == Cardinality(Positions(fs[b]))
next_offset(fs, b) == b + entry_count(fs, b)

\* Segment::open creates the file or recovers the one it finds.
SegmentOpen(fs, b) ==
    [c \in DOMAIN fs \cup {b} |->
        IF c # b THEN fs[c] ELSE IF b \in DOMAIN fs THEN recover(fs[b]) ELSE <<>>]

\* Segment::read filters the entries by the offsets they carry.
SegmentRead(batches, from, to) ==
    { e \in Entries(batches) : e.offset >= from /\ e.offset < to }

\* Segment::truncate_suffix: the contents of the file from one write to the
\* next.  The first batch with an entry at or after `from` goes, with what
\* follows it; a batch that also has entries before `from` is rewritten in
\* place, over the old bytes, and then the file is cut behind it.
Before(batch, from) == SelectSeq(batch, LAMBDA e : e.offset < from)

SegmentTruncations(batches, from) ==
    LET hit == { i \in DOMAIN batches :
                   \E j \in DOMAIN batches[i] : batches[i][j].offset >= from }
    IN IF hit = {} THEN <<batches>>
       ELSE LET i == Min(hit)
                kept == SubSeq(batches, 1, i - 1)
                before == Before(batches[i], from)
            IN IF before = <<>> THEN <<batches, kept>>
               ELSE << batches,
                       Append(kept, Torn),
                       kept \o <<before, Torn>>,
                       Append(kept, before) >>

-----------------------------------------------------------------------------
(* Opening the log.                                                         *)

\* The last segments are removed while they are empty, all but the first.
Kept(fs) ==
    LET filled == { c \in DOMAIN fs : recover(fs[c]) # <<>> }
    IN { b \in DOMAIN fs : b = Min(DOMAIN fs) \/ \E c \in filled : c >= b }

Opened(fs) == [b \in Kept(fs) |-> recover(fs[b])]

OpenStart(fs) ==
    Max({start_file} \cup IF DOMAIN fs = {} THEN {0} ELSE {Min(DOMAIN fs)})

\* Variant: the end is that of the first segment.
OpenFirstEnd(fs) ==
    IF DOMAIN fs = {} THEN OpenStart(fs) ELSE next_offset(fs, Min(DOMAIN fs))

OpenEnd(fs) ==
    IF DOMAIN fs = {} THEN OpenStart(fs) ELSE next_offset(fs, Max(DOMAIN fs))

\* Variant: a segment that starts with the last offset asked for is skipped.
SegmentsReadShort(fs, open, first, from, to) ==
    LET effective == Max({from, first})
    IN UNION { SegmentRead(fs[b], effective, to) :
                 b \in { b \in open : next_offset(fs, b) > effective /\ b + 1 < to } }

\* read(from, to) over the segments `open` of the files fs, from the offset
\* `first` on.
SegmentsRead(fs, open, first, from, to) ==
    LET effective == Max({from, first})
    IN UNION { SegmentRead(fs[b], effective, to) :
                 b \in { b \in open : next_offset(fs, b) > effective /\ b < to } }

read(from, to) == SegmentsRead(files, segments, log_start_offset, from, to)

Called(op, batch, at, done) ==
    call' = [op |-> op, batch |-> batch, at |-> at, done |-> done]

Init ==
    /\ files = <<>>
    /\ start_file = 0
    /\ up = TRUE
    /\ segments = {}
    /\ log_start_offset = 0
    /\ log_end_offset = 0
    /\ call = [op |-> "none", batch |-> <<>>, at |-> 0, done |-> TRUE]

\* The process stops, leaving this directory.
Stopped(fs, s) ==
    /\ files' = fs
    /\ start_file' = s
    /\ up' = FALSE
    /\ segments' = {}
    /\ log_start_offset' = 0
    /\ log_end_offset' = 0

Stop ==
    /\ up
    /\ Stopped(files, start_file)
    /\ Called("none", <<>>, 0, TRUE)

open_with_limit ==
    /\ ~ up
    /\ up' = TRUE
    /\ files' = Opened(files)
    /\ segments' = DOMAIN Opened(files)
    /\ log_start_offset' = OpenStart(Opened(files))
    /\ log_end_offset' = OpenEnd(Opened(files))
    /\ Called("none", <<>>, 0, TRUE)
    /\ UNCHANGED start_file

-----------------------------------------------------------------------------
(* append.  A new segment is started when there is none, or when the last   *)
(* one has reached the limit; the batch goes to one segment as a whole.     *)

\* Variant: a segment at the limit takes one more batch.
RollsAbove == segments = {} \/ entry_count(files, Max(segments)) > SegmentLimit

Rolls == segments = {} \/ entry_count(files, Max(segments)) >= SegmentLimit

AppendTarget == IF Rolls THEN log_end_offset ELSE Max(segments)
AppendFiles == IF Rolls THEN SegmentOpen(files, log_end_offset) ELSE files
SegmentAppend(batch) == [AppendFiles EXCEPT ![AppendTarget] = Append(@, batch)]

append(batch) ==
    /\ up
    /\ batch[1].offset = log_end_offset
    /\ log_end_offset + Len(batch) <= MaxOffset
    /\ \/ /\ files' = SegmentAppend(batch)
          /\ segments' = segments \cup {AppendTarget}
          /\ log_end_offset' = log_end_offset + Len(batch)
          /\ Called("append", batch, batch[1].offset, TRUE)
          /\ UNCHANGED <<start_file, up, log_start_offset>>
       \/ /\ \E fs \in {AppendFiles, SegmentAppend(Torn), SegmentAppend(batch)} :
                Stopped(fs, start_file)
          /\ Called("append", batch, batch[1].offset, FALSE)

append_refused(batch) ==
    /\ up
    /\ batch[1].offset # log_end_offset
    /\ Called("append", batch, batch[1].offset, FALSE)
    /\ UNCHANGED <<disk, memory>>

-----------------------------------------------------------------------------
(* Removing segment files.  Both truncations remove from the last segment   *)
(* down to the first, and drop the error of a removal that fails.           *)

Without(fs, gone) == Restrict(fs, DOMAIN fs \ gone)

\* Variant: the segments are removed from the first to the last.
RemovalsAscending(doomed) ==
    { Without(files, { b \in doomed : b <= k }) : k \in doomed } \cup {files}

\* The directory after each removal, and before the first.
Removals(doomed) ==
    { Without(files, { b \in doomed : b >= k }) : k \in doomed } \cup {files}

\* The directories that removing all of `doomed` may leave.
Removed(doomed) ==
    IF RemoveFails THEN { Without(files, gone) : gone \in SUBSET doomed }
                   ELSE { Without(files, doomed) }

\* Variant: the segment of the entry before `from` goes too.
SuffixDoomsBefore(from) == { b \in segments : b + 1 >= from /\ \E c \in segments : c < b }

\* truncate_suffix removes the segments that start at or after `from`, all
\* but the first, and cuts the last one left, if there is one.
SuffixDoomed(from) == { b \in segments : b >= from /\ \E c \in segments : c < b }

truncate_suffix(from) ==
    LET doomed == SuffixDoomed(from)
        left == segments \ doomed
        steps == IF left = {} THEN {}
                 ELSE { [Without(files, doomed) EXCEPT ![Max(left)] = f] :
                          f \in Range(SegmentTruncations(files[Max(left)], from)) }
        Cut(fs) == IF left = {} THEN fs
                   ELSE [fs EXCEPT ![Max(left)] = Last(SegmentTruncations(@, from))]
    IN /\ up
       /\ from < log_end_offset
       /\ \/ /\ \E fs \in Removed(doomed) : files' = Cut(fs)
             /\ segments' = left
             /\ log_end_offset' = from
             /\ Called("truncate_suffix", <<>>, from, TRUE)
             /\ UNCHANGED <<start_file, up, log_start_offset>>
          \/ /\ \E fs \in Removals(doomed) \cup steps : Stopped(fs, start_file)
             /\ Called("truncate_suffix", <<>>, from, FALSE)
   
truncate_suffix_noop(from) ==
    /\ up
    /\ from >= log_end_offset
    /\ Called("truncate_suffix", <<>>, from, TRUE)
    /\ UNCHANGED <<disk, memory>>

\* truncate_prefix removes the segments that end at or before up_to, and
\* only then persists the new start.  A process that stops between the
\* removals of several segments leaves a directory with a hole in it; the
\* instances checked allow stops only in those that drop at most MaxDropped.
PrefixDoomed(up_to) == { b \in segments : next_offset(files, b) <= up_to }

truncate_prefix(up_to) ==
    LET doomed == PrefixDoomed(up_to)
    IN /\ up
       /\ \/ /\ files' \in Removed(doomed)
             /\ segments' = segments \ doomed
             /\ log_start_offset' = up_to
             /\ start_file' = up_to
             /\ Called("truncate_prefix", <<>>, up_to, TRUE)
             /\ UNCHANGED <<up, log_end_offset>>
          \/ /\ Cardinality(doomed) <= MaxDropped
             /\ \/ \E fs \in Removals(doomed) : Stopped(fs, start_file)
                \/ Stopped(Without(files, doomed), up_to)
             /\ Called("truncate_prefix", <<>>, up_to, FALSE)

-----------------------------------------------------------------------------
\* Truncations name offsets from the log's start on: the consensus code cuts
\* neither below the high watermark nor below the last snapshot.
Next ==
    \/ Stop
    \/ open_with_limit
    \/ \E batch \in BatchesAt(log_end_offset) : append(batch)
    \/ \E t \in Terms : append_refused(BatchAt(log_end_offset + 1, <<t>>))
    \/ \E from \in log_start_offset .. log_end_offset :
          truncate_suffix(from) \/ truncate_suffix_noop(from)
    \/ \E up_to \in log_start_offset .. log_end_offset : truncate_prefix(up_to)

Spec == Init /\ [][Next]_vars

-----------------------------------------------------------------------------
\* The log as the next reader sees it: of the running process, or of the one
\* that opens the directory.
Start == IF up THEN log_start_offset ELSE OpenStart(Opened(files))
End == IF up THEN log_end_offset ELSE OpenEnd(Opened(files))
Content ==
    IF up THEN read(log_start_offset, log_end_offset)
    ELSE UNION { SegmentsRead(fs, DOMAIN fs, OpenStart(fs), 0, OpenEnd(fs)) :
                   fs \in {Opened(files)} }

Abstract == INSTANCE LogStore WITH
    start <- Start, end <- End, log <- Content, call <- call

\* Every call has the effect the LogStore contract gives it, in full when it
\* returned and up to some point when the process stopped inside it; opening
\* the directory again brings back exactly the log that the last call left
\* (segment_log.rs:37-293).
Implements == Abstract!Spec

\* Every variable has its type.
TypeOK ==
    /\ DOMAIN files \subseteq 0 .. MaxOffset
    /\ \A b \in DOMAIN files : files[b] \in Seq(Seq(Entry))
    /\ start_file \in 0 .. MaxOffset
    /\ up \in BOOLEAN
    /\ segments \subseteq DOMAIN files
    /\ {log_start_offset, log_end_offset} \subseteq 0 .. MaxOffset

\* Recovery counts entries and adds the count to the file's name to find the
\* next offset (segment.rs:118), while reads go by the offset each entry
\* carries (segment.rs:186): the two agree, in every file ever left on disk.
OffsetsAgree ==
    \A b \in DOMAIN files :
        LET es == FlattenSeq(recover(files[b]))
        IN \A i \in DOMAIN es : es[i].offset = b + i - 1

\* A read of any range returns the part of the log in that range, whichever
\* segments it spans (segment_log.rs:198-222).
ReadsAreSlices ==
    up => \A from, to \in 0 .. MaxOffset :
            read(from, to) = { e \in read(log_start_offset, log_end_offset) :
                                 from <= e.offset /\ e.offset < to }

\* "an individual segment may exceed the size limit by up to one batch's
\* serialized size" (segment_log.rs:156), whatever was truncated, interrupted
\* and appended again.
RolloverBound ==
    \A b \in DOMAIN files : entry_count(files, b) < SegmentLimit + MaxBatch

\* Segments cover disjoint, consecutive ranges up to the end of the log: no
\* offset is in two files, none between the start and the end in no file, and
\* every entry is where its offset says.  The type invariant is its first part.
SegmentsTile ==
    /\ TypeOK
    /\ OffsetsAgree
    /\ up => /\ \A b \in segments :
                   IF b = Max(segments) THEN next_offset(files, b) = log_end_offset
                                        ELSE next_offset(files, b) \in segments
             /\ segments = {} => log_start_offset = log_end_offset

\* The entries of the batch that has offsets on both sides of `at`.
CutBatch(at) ==
    UNION { Range(batch) : batch \in { batch \in UNION { Range(files[b]) : b \in DOMAIN files } :
        \E e, f \in Range(batch) : e.offset < at /\ f.offset >= at } }

\* Cutting the log at `from` loses no entry before `from`.  A process that
\* stops inside may lose those of the batch that the cut goes through, which
\* is rewritten over its old bytes (segment.rs:236-264), and no others.
TruncationKeepsPrefix ==
    [][call'.op = "truncate_suffix" =>
         { e \in Content : e.offset < call'.at }
            \ (IF call'.done THEN {} ELSE CutBatch(call'.at)) \subseteq Content']_vars
=============================================================================
