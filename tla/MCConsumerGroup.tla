--------------------------- MODULE MCConsumerGroup ---------------------------
(***************************************************************************)
(* Instances of ConsumerGroup for TLC.                                     *)
(***************************************************************************)
EXTENDS ConsumerGroupRefinement, TLC

Symmetry == Permutations(Subscriptions) \cup Permutations(Ackers)
=============================================================================
