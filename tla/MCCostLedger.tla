---------------------------- MODULE MCCostLedger ----------------------------
(* Instances of CostLedger for TLC. *)
EXTENDS CostLedger, TLC

Symmetry == Permutations(Procs) \cup Permutations(Repos) \cup Permutations(Calls)

=============================================================================
