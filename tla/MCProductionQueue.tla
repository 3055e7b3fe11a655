--------------------------- MODULE MCProductionQueue ---------------------------
(* Small instances of ProductionQueue for TLC. *)
EXTENDS ProductionQueue, TLC

(* Requests are interchangeable, and so are work orders and details. *)
Symmetry == Permutations(Request) \cup Permutations(WorkOrder) \cup Permutations(Details)
=============================================================================
