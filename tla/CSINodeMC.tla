------------------------------ MODULE CSINodeMC ------------------------------
(* Small instances of CSINode for TLC. *)
EXTENDS CSINode, TLC

CONSTANTS c1, c2, c3, t1, t2

(* Slots and targets are interchangeable. *)
Symmetric == Permutations(Calls) \cup Permutations(Targets)
==============================================================================
