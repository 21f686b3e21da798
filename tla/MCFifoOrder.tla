----------------------------- MODULE MCFifoOrder -----------------------------
(* Small instances of FifoOrder for TLC. *)
EXTENDS FifoOrder

Runs(thread, cores, policy, tables) ==
  {[thread |-> thread, cores |-> cores, policy |-> policy, table |-> t] : t \in tables}

\* The shapes of the priority tables in main() of preempt_03_decrement.cc;
\* RtLimit refuses the priority 4.
Fifo == {<<1, 1, 1>>, <<3, 2, 1>>, <<3, 3, 2, 2>>, <<4, 3, 2, 1>>}

RoundRobin == {<<3, 2, 1>>, <<4, 3, 2, 1>>}

\* base::thread next to main() on another core and on one core, preempt::thread
\* on one core.
MCPrograms ==
  UNION {Runs("base::thread", cores, "SCHED_FIFO", Fifo) : cores \in 1..2}
  \cup UNION {Runs("base::thread", cores, "SCHED_RR", RoundRobin) : cores \in 1..2}
  \cup Runs("preempt::thread", 1, "SCHED_FIFO", Fifo)
  \cup Runs("preempt::thread", 1, "SCHED_RR", RoundRobin)

\* They are programs to which the theorems of FifoOrderProofs apply.
ASSUME MCProgramsSuitable == Suitable

==============================================================================
