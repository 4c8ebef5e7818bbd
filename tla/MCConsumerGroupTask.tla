------------------------- MODULE MCConsumerGroupTask -------------------------
(***************************************************************************)
(* Instances of ConsumerGroupTask for TLC.                                 *)
(***************************************************************************)
EXTENDS ConsumerGroupTask
=============================================================================
