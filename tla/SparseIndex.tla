----------------------------- MODULE SparseIndex ----------------------------
(***************************************************************************)
(* The sparse index of a segment (xraft-storage/src/segment_index.rs): a   *)
(* file of (offset, byte position) pairs, read into memory as a whole and  *)
(* searched by bisection for the place to start a scan from.               *)
(*                                                                         *)
(* An append writes the two words of a pair one after the other and does   *)
(* not sync; a stop leaves any prefix of the file that covers what the     *)
(* last flush synced.                                                      *)
(***************************************************************************)
EXTENDS Integers, Sequences, SequencesExt

CONSTANTS MaxOffset,     \* bound on the offsets indexed
          Position(_)    \* byte position of an offset in the .log file

ASSUME SparseIndexAssumption == MaxOffset \in Nat

VARIABLES entries,       \* in memory: the pairs
          file,          \* on disk: the words of the pairs
          synced,        \* words that the last flush made durable
          up

vars == <<entries, file, synced, up>>

Words(es) == FlattenSeq(es)

Init == /\ entries = <<>>
        /\ file = <<>>
        /\ synced = 0
        /\ up = TRUE

\* The caller indexes every Nth entry of a log that only grows.
Later(offset) == \A i \in DOMAIN entries : entries[i][1] < offset

append(offset) ==
    /\ up
    /\ Later(offset)
    /\ entries' = Append(entries, <<offset, Position(offset)>>)
    /\ file' = file \o <<offset, Position(offset)>>
    /\ UNCHANGED <<synced, up>>

flush ==
    /\ up
    /\ synced' = Len(file)
    /\ UNCHANGED <<entries, file, up>>

Stop ==
    /\ up
    /\ \E n \in synced .. Len(file) : file' = SubSeq(file, 1, n)
    /\ up' = FALSE
    /\ entries' = <<>>
    /\ UNCHANGED synced

\* Variants: the last pair is taken for a partial one; a partial pair stays.
ValidOneLess(n) == IF n < 2 THEN 0 ELSE n - 2
ValidAll(n) == n

\* A partial pair at the end of the file is cut off.
valid_len(n) == n - (n % 2)

open ==
    /\ ~ up
    /\ file' = SubSeq(file, 1, valid_len(Len(file)))
    /\ entries' = [i \in 1 .. Len(file) \div 2 |-> <<file[2 * i - 1], file[2 * i]>>]
    /\ up' = TRUE
    /\ UNCHANGED synced

Next == flush \/ Stop \/ open \/ \E offset \in 0 .. MaxOffset : append(offset)

Spec == Init /\ [][Next]_vars

-----------------------------------------------------------------------------
\* Variant: the search goes right only past smaller offsets.
GoesRightStrictly(offset, target) == offset < target

GoesRight(offset, target) == offset <= target

\* The bisection of lookup: how many pairs have an offset up to the target.
Bisected(target) ==
    LET search[lo \in 0 .. Len(entries), hi \in 0 .. Len(entries)] ==
          LET mid == lo + (hi - lo) \div 2
          IN IF lo >= hi THEN lo
             ELSE IF GoesRight(entries[mid + 1][1], target) THEN search[mid + 1, hi]
                                                            ELSE search[lo, mid]
    IN search[0, Len(entries)]

\* The position to scan from, as a sequence of at most one (an Option).
lookup(target) ==
    LET lo == Bisected(target) IN IF lo = 0 THEN <<>> ELSE <<entries[lo][2]>>

-----------------------------------------------------------------------------
\* Every variable has its type.
TypeOK ==
    /\ entries \in Seq((0 .. MaxOffset) \X Nat)
    /\ file \in Seq(Nat)
    /\ synced \in 0 .. Len(file)
    /\ up \in BOOLEAN

\* "the largest indexed offset <= target_offset" (segment_index.rs:105): for
\* every target, and after any recovery, the scan starts at the last indexed
\* entry that is not past the target, and at the file's start if there is none.
LookupIsFloor ==
    up => \A target \in 0 .. MaxOffset :
            LET floor == { i \in DOMAIN entries :
                             /\ entries[i][1] <= target
                             /\ \A j \in DOMAIN entries : entries[j][1] <= target => j <= i }
            IN lookup(target) = IF floor = {} THEN <<>>
                                ELSE <<Position(entries[CHOOSE i \in floor : TRUE][1])>>

\* Memory and file hold the same pairs while the index is open, so that what a
\* flush synced is found again after any stop.  The type invariant is its first
\* part.
FileIsMemory == TypeOK /\ (up => file = Words(entries))

\* A stop and the recovery after it lose no pair that was flushed.
FlushedStays == [][ IsPrefix(SubSeq(file, 1, synced), file') ]_vars
=============================================================================
