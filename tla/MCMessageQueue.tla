-------------------------- MODULE MCMessageQueue ---------------------------
(* Symmetry for the checks of MessageQueue's safety properties. *)
EXTENDS MessageQueue, TLC

Symmetry == Permutations(Ids) \cup Permutations(Callers) \cup Permutations(Deliveries)
=============================================================================
