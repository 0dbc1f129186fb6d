---------------------------- MODULE MCSegmentLog ----------------------------
(* The segmented log with two terms, so that a rewritten entry differs from *)
(* the one it replaced.                                                     *)
EXTENDS SegmentLog

MCTerms == {1, 2}
=============================================================================
