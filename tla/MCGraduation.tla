---------------------------- MODULE MCGraduation ----------------------------
(* Two proposals that race for one thread, two tasks, one memory.          *)
EXTENDS Graduation, TLC

CONSTANTS t1

Symmetry == Permutations(Request) \cup Permutations(Task)
OneThread == [r \in Request |-> t1]
=============================================================================
