------------------------------ MODULE MCMemory ------------------------------
(* The memory backbone instantiated for TLC. *)
EXTENDS MemoryBackbone, TLC

Symmetry == Permutations(Mem) \union Permutations(Session)
=============================================================================
