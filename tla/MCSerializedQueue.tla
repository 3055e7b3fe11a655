-------------------------- MODULE MCSerializedQueue --------------------------
(* Small instances of SerializedQueue for TLC. *)
EXTENDS SerializedQueue, TLC

Symmetry == Permutations(Request) \cup Permutations(WorkOrder) \cup Permutations(Details)
=============================================================================
