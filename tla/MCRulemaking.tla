---------------------------- MODULE MCRulemaking ----------------------------
(* A small instance of RulemakingDataset for TLC. *)
EXTENDS RulemakingDataset, TLC

Symmetry == Permutations(Runs) \cup Permutations(Parts)
=============================================================================
