-------------------------- MODULE MCSegmentFanout --------------------------
(* Small instances of SegmentFanout for TLC. *)
EXTENDS SegmentFanout

CONSTANTS p1, p2
=============================================================================
