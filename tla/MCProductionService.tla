-------------------------- MODULE MCProductionService --------------------------
(* Small instances of ProductionService for TLC. *)
EXTENDS ProductionService, TLC

Symmetry == Permutations(Request)
=============================================================================
