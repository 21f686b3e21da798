--------------------------- MODULE MCCriticalTask ----------------------------
(* Small instances of CriticalTask for TLC. *)
EXTENDS CriticalTask, TLC

Symmetry == Permutations(Tasks) \cup Permutations(Threads)

==============================================================================
