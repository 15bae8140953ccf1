---- MODULE MCSegmentCompare ----
(* compare_segments on tables of program headers. *)
EXTENDS SegmentCompare, MCSegmentInputs
====
