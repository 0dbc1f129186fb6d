------------------------------ MODULE LogStore ------------------------------
(***************************************************************************)
(* What the LogStore trait (xraft-core/src/traits.rs:7-31) promises to the *)
(* consensus code: a log of consecutive offsets, extended at its end, cut  *)
(* at its end when it diverges from the leader's and cut at its start when *)
(* a snapshot covers it, across process stops.                             *)
(*                                                                         *)
(* `call` is the last call made and whether it returned: each step is the  *)
(* effect of the call it records.  A call that the process did not survive *)
(* may have had a part of its effect, a call that returned has had all of  *)
(* it, and nothing else ever changes the log.                              *)
(***************************************************************************)
EXTENDS Integers, Sequences, Functions

CONSTANT MaxBatch      \* entries of one append

VARIABLES start,       \* log_start_offset()
          end,         \* log_end_offset(), the next offset to be written
          log,         \* the entries read(start, end) returns
          call         \* [op, batch, at, done]

vars == <<start, end, log, call>>

Idle == [op |-> "none", batch |-> <<>>, at |-> 0, done |-> TRUE]

Init == /\ start = 0
        /\ end = 0
        /\ log = {}
        /\ call = Idle

\* An append is all or nothing; a refused one leaves the log as it was.  What
\* is appended below the start is not read.
append ==
    /\ call'.op = "append"
    /\ \/ /\ call'.at = end
          /\ log' = log \cup { e \in Range(call'.batch) : e.offset >= start }
          /\ end' = end + Len(call'.batch)
       \/ /\ ~ call'.done
          /\ UNCHANGED <<log, end>>
    /\ UNCHANGED start

\* A suffix truncation that was interrupted stops at any offset between the
\* old end and the one asked for; the batch that the cut goes through may be
\* lost as a whole.
truncate_suffix ==
    /\ call'.op = "truncate_suffix"
    /\ end' <= end
    /\ call'.at >= end => end' = end
    /\ call'.at < end => IF call'.done THEN end' = call'.at ELSE end' > call'.at - MaxBatch
    /\ log' = { e \in log : e.offset < end' }
    /\ UNCHANGED start

\* A prefix truncation that was interrupted has dropped any part of what it was
\* asked to drop, not always from the start on, and nothing else.  When it was
\* asked to drop everything, the position of the log may be lost as well.
truncate_prefix ==
    /\ call'.op = "truncate_prefix"
    /\ start' <= call'.at /\ end' <= end
    /\ call'.done => start' = call'.at
    /\ call'.done \/ call'.at < end => start <= start' /\ end' = end
    /\ log' \subseteq { e \in log : start' <= e.offset }
    /\ { e \in log : call'.at <= e.offset } \subseteq log'

\* The process stops or starts between two calls.
Restart == /\ call' = Idle
           /\ UNCHANGED <<start, end, log>>

Next == append \/ truncate_suffix \/ truncate_prefix \/ Restart

Spec == Init /\ [][Next]_vars
=============================================================================
