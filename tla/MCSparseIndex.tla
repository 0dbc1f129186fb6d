---------------------------- MODULE MCSparseIndex ---------------------------
(* Positions that are no offsets, so that words read out of place show.     *)
EXTENDS SparseIndex

MCPosition(offset) == 100 + 10 * offset
=============================================================================
