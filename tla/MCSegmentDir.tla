----------------------------- MODULE MCSegmentDir -----------------------------
(***************************************************************************)
(* Instances of SegmentDir for TLC.                                        *)
(***************************************************************************)
EXTENDS SegmentDir

=============================================================================
