--------------------------- MODULE MCPreemptThread ---------------------------
(* Small instances of PreemptThread for TLC. *)
EXTENDS PreemptThread, TLC

\* A request that succeeds, one without permission, and one that fails VERIFY.
MCRequests ==
  {[policy |-> "SCHED_FIFO", priority |-> 1],
   [policy |-> "SCHED_RR", priority |-> 2],
   [policy |-> "SCHED_FIFO", priority |-> 0]}

\* One request is enough where only ownership matters.
MCRequest == {[policy |-> "SCHED_FIFO", priority |-> 1]}

Symmetry == Permutations(Objects) \cup Permutations(Threads)

==============================================================================
