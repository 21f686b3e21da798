-------------------------------- MODULE Posix --------------------------------
(***************************************************************************)
(* The part of POSIX threads that the library calls, modelled from how     *)
(* include/base/threading.h and include/preempt/thread.h use it: the       *)
(* scheduling policies, the priorities the kernel takes for them, and the  *)
(* error number of pthread_setschedparam().                                *)
(***************************************************************************)
EXTENDS Integers

CONSTANTS
  RtLimit,     \* `ulimit -r`: highest real-time priority of the user, 0 = none
  MaxPriority  \* sched_get_priority_max(SCHED_FIFO); 99 under Linux

ASSUME PosixAssumption == RtLimit \in Nat /\ MaxPriority \in Nat \ {0}

Policies == {"SCHED_OTHER", "SCHED_FIFO", "SCHED_RR"}

Realtime == {"SCHED_FIFO", "SCHED_RR"}

\* A scheduling request or setting: an int policy and an int priority.
Sched == [policy : Policies, priority : Int]

\* The policy and priority of the main thread of a freshly executed program.
Normal == [policy |-> "SCHED_OTHER", priority |-> 0]

\* VERIFY(new_priority > 0): only checked for the real-time policies.
PriorityVerified(r) == r.policy \in Realtime => r.priority > 0

\* What sched_get_priority_min() and sched_get_priority_max() return under Linux.
get_min_priority(policy) == IF policy \in Realtime THEN 1 ELSE 0
get_max_priority(policy) == IF policy \in Realtime THEN MaxPriority ELSE 0

\* The priorities the kernel accepts for the policy.
ValidPriority(r) == r.priority \in get_min_priority(r.policy)..get_max_priority(r.policy)

\* A user may raise a thread up to the limit only.
Permitted(r) == r.policy \in Realtime => r.priority <= RtLimit

\* The error number of pthread_setschedparam() for a thread that has exited
\* or not: the C library looks at the thread first, the kernel at the rest.
setschedparam(exited, r) ==
  IF exited THEN "ESRCH"
  ELSE IF ~ValidPriority(r) THEN "EINVAL"
  ELSE IF ~Permitted(r) THEN "EPERM"
  ELSE "0"

==============================================================================
