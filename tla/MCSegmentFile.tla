---------------------------- MODULE MCSegmentFile ----------------------------
(***************************************************************************)
(* Instances of SegmentFile for TLC.                                       *)
(***************************************************************************)
EXTENDS SegmentFile

=============================================================================
