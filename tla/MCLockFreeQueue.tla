-------------------------- MODULE MCLockFreeQueue --------------------------
(* LockFreeQueue for TLC: two producers, two consumers, three nodes. *)
EXTENDS LockFreeQueue, TLC

Symmetry == Permutations(Producers) \cup Permutations(Consumers)
              \cup Permutations(Nodes)
=============================================================================
