------------------------------ MODULE FifoOrder ------------------------------
(***************************************************************************)
(* Real-time threads without a lock: base::thread                          *)
(* (include/base/threading.h), the Linux scheduler as FAQ.md describes it, *)
(* and the programs tests/preempt_02_fifo.cc and                           *)
(* tests/preempt_03_decrement.cc.                                          *)
(*                                                                         *)
(* A program creates the threads 1..N with the priorities of a table; each *)
(* checks that a global counter has the value that the threads created     *)
(* before it must have left there, and decrements it.  Neither the check   *)
(* nor the decrement is atomic: what keeps them apart is the order in      *)
(* which the scheduler runs real-time threads.                             *)
(*                                                                         *)
(* The same program can be run with the real-time constructor of           *)
(* preempt::thread, which starts a normal thread and then changes its      *)
(* scheduling.                                                             *)
(***************************************************************************)
EXTENDS Posix, Sequences, FiniteSets

CONSTANTS
  Programs,   \* the calls run<policy>(table), with either class of threads, on
              \* machines with some number of cores
  First,      \* first value of global_value
  RtCores,    \* cores on which real-time threads run: FAQ.md says one
  MaxSlices   \* bound: how often the time slice of SCHED_RR expires

ASSUME FifoOrderAssumption ==
  /\ RtCores \in Nat \ {0}
  /\ \A p \in Programs :
       /\ p.thread \in {"base::thread", "preempt::thread"}
       /\ p.policy \in Policies /\ p.table \in Seq(Int)
       /\ p.cores \in Nat /\ p.cores >= RtCores
  /\ First \in Int
  /\ MaxSlices \in Nat

VARIABLES
  program,       \* the call of run() that is executed, and where
  main,          \* where the main thread is, and its loop variable
  thr,           \* thr[i]: where thread i is in decrement()
  reg,           \* reg[i]: the value thread i has loaded
  global_value,
  verify,        \* g_verify_flag
  sched,         \* sched[i]: policy and priority in the kernel
  since,         \* since[i]: when i came to the end of its priority's queue
  arrivals,      \* how often a thread has come to the end of a queue
  slices,        \* number of time slices that have expired
  process        \* "running", or how the process ended

fifoVars ==
  <<program, main, thr, reg, global_value, verify, sched, since, arrivals, slices,
    process>>

Ids == DOMAIN program.table

N == Len(program.table)

FifoInit ==
  /\ program \in Programs
  /\ main = [pc |-> "create", i |-> 1]
  /\ thr = [i \in Ids |-> "unborn"]
  /\ reg = [i \in Ids |-> 0]
  /\ global_value = First
  /\ verify = TRUE
  /\ sched = [i \in Ids |-> Normal]
  /\ since = [i \in Ids |-> 0]
  /\ arrivals = 0
  /\ slices = 0
  /\ process = "running"

------------------------------------------------------------------------------
(* The scheduler. *)

Ready(i) == thr[i] \notin {"unborn", "exited"}

Rt(i) == Ready(i) /\ sched[i].policy \in Realtime

\* j is before i in the run queue: it has a higher priority, or the same one
\* and came first.
Precedes(j, i) ==
  /\ Rt(j)
  /\ \/ sched[j].priority > sched[i].priority
     \/ sched[j].priority = sched[i].priority /\ since[j] < since[i]

\* A normal thread finds a core that no real-time thread occupies.
NormalRuns == RtCores < program.cores \/ Cardinality({j \in Ids : Rt(j)}) < program.cores

OnCpu(i) ==
  IF Rt(i) THEN Cardinality({j \in Ids : Precedes(j, i)}) < RtCores
  ELSE Ready(i) /\ NormalRuns

\* Thread i gets policy and priority r and goes to the end of the queue.
Enqueue(i, r) ==
  /\ sched' = [sched EXCEPT ![i] = r]
  /\ since' = [since EXCEPT ![i] = arrivals + 1]
  /\ arrivals' = arrivals + 1

\* The time slice of a SCHED_RR thread expires.
SliceExpires(i) ==
  /\ process = "running"
  /\ slices < MaxSlices
  /\ Rt(i) /\ OnCpu(i) /\ sched[i].policy = "SCHED_RR"
  /\ Enqueue(i, sched[i])
  /\ slices' = slices + 1
  /\ UNCHANGED <<program, main, thr, reg, global_value, verify, process>>

------------------------------------------------------------------------------
(* main() and run(). *)

request(i) == [policy |-> program.policy, priority |-> program.table[i]]

MainAt(pc) == process = "running" /\ main.pc = pc /\ NormalRuns

\* The next round of the loop, or the loop that follows.
NextRound(pc, next) ==
  IF main.i < N THEN [pc |-> pc, i |-> main.i + 1] ELSE [pc |-> next, i |-> 1]

\* VERIFY(i == 0 || priority_table[i] <= priority_table[i - 1])
TableVerified(i) == i = 1 \/ program.table[i] <= program.table[i - 1]

\* The attributes give the new thread its scheduling before it runs:
\* PTHREAD_EXPLICIT_SCHED, the policy and the priority.
CreatedSched_Inherited(r) == Normal
CreatedSched_RoundRobin(r) == [r EXCEPT !.policy = "SCHED_RR"]
CreatedSched(r) == r

\* base::thread(policy, priority, decrement, &expected): without permission
\* pthread_create() fails, the object is not joinable and main() gives up.
Create ==
  /\ MainAt("create") /\ program.thread = "base::thread"
  /\ LET i == main.i
         r == CreatedSched(request(i))
     IN  /\ verify' = (verify /\ TableVerified(i) /\ PriorityVerified(request(i)))
         /\ \/ /\ setschedparam(FALSE, r) = "0"
               /\ thr' = [thr EXCEPT ![i] = "entry"]
               /\ Enqueue(i, r)
               /\ main' = NextRound("create", "join")
               /\ UNCHANGED process
            \/ /\ setschedparam(FALSE, r) # "0"
               /\ process' = "refused"
               /\ UNCHANGED <<main, thr, sched, since, arrivals>>
  /\ UNCHANGED <<program, reg, global_value, slices>>

\* preempt::thread(policy, priority, decrement, &expected), first half.
Construct ==
  /\ MainAt("create") /\ program.thread = "preempt::thread"
  /\ verify' = (verify /\ TableVerified(main.i))
  /\ thr' = [thr EXCEPT ![main.i] = "entry"]
  /\ sched' = [sched EXCEPT ![main.i] = Normal]
  /\ main' = [main EXCEPT !.pc = "change"]
  /\ UNCHANGED <<program, reg, global_value, since, arrivals, slices, process>>

\* Second half: change_scheduling(policy, priority) in the constructor's body.
ChangeRequest_Other(i) == Normal
ChangeRequest(i) == request(i)

Change ==
  /\ MainAt("change")
  /\ LET i == main.i
         errnum == setschedparam(thr[i] = "exited", ChangeRequest(i))
     IN  /\ verify' = (verify /\ PriorityVerified(request(i)))
         /\ \/ errnum = "0" /\ Enqueue(i, ChangeRequest(i)) /\ UNCHANGED process
            \/ errnum = "ESRCH" /\ UNCHANGED <<sched, since, arrivals, process>>
            \/ /\ errnum \notin {"0", "ESRCH"}
               /\ process' = "refused"
               /\ UNCHANGED <<sched, since, arrivals>>
  /\ main' = NextRound("create", "join")
  /\ UNCHANGED <<program, thr, reg, global_value, slices>>

\* for (auto c : context) { VERIFY(c); c.join(); }
JoinRound_Stuck == main
JoinRound == NextRound("join", "end")

Join ==
  /\ MainAt("join")
  /\ thr[main.i] = "exited"
  /\ main' = JoinRound
  /\ UNCHANGED <<program, thr, reg, global_value, verify, sched, since, arrivals,
                 slices, process>>

\* VERIFY(global_value == 0); return global_verify_flag() ? ...
Return ==
  /\ MainAt("end")
  /\ verify' = (verify /\ global_value = First - N)
  /\ process' = IF verify' THEN "success" ELSE "failure"
  /\ UNCHANGED <<program, main, thr, reg, global_value, sched, since, arrivals,
                 slices>>

------------------------------------------------------------------------------
(* decrement(). *)

ThreadAt(i, pc) == process = "running" /\ thr[i] = pc /\ OnCpu(i)

\* VERIFY(global_value == *(int* )expected);
Check(i) ==
  /\ ThreadAt(i, "entry")
  /\ verify' = (verify /\ global_value = First - (i - 1))
  /\ thr' = [thr EXCEPT ![i] = "load"]
  /\ UNCHANGED <<program, main, reg, global_value, sched, since, arrivals, slices,
                 process>>

\* global_value--;
Load(i) ==
  /\ ThreadAt(i, "load")
  /\ reg' = [reg EXCEPT ![i] = global_value]
  /\ thr' = [thr EXCEPT ![i] = "store"]
  /\ UNCHANGED <<program, main, global_value, verify, sched, since, arrivals,
                 slices, process>>

Store(i) ==
  /\ ThreadAt(i, "store")
  /\ global_value' = reg[i] - 1
  /\ thr' = [thr EXCEPT ![i] = "exited"]
  /\ UNCHANGED <<program, main, reg, verify, sched, since, arrivals, slices,
                 process>>

------------------------------------------------------------------------------

MainStep == Create \/ Construct \/ Change \/ Join \/ Return

ThreadStep(i) == Check(i) \/ Load(i) \/ Store(i)

FifoNext == MainStep \/ \E i \in Ids : ThreadStep(i) \/ SliceExpires(i)

FifoSpec == FifoInit /\ [][FifoNext]_fifoVars

------------------------------------------------------------------------------
(* Properties. *)

FifoTypeOK ==
  /\ program \in Programs
  /\ main \in [pc : {"create", "change", "join", "end"}, i : Nat]
  /\ thr \in [Ids -> {"unborn", "entry", "load", "store", "exited"}]
  /\ reg \in [Ids -> Int]
  /\ global_value \in Int
  /\ verify \in BOOLEAN
  /\ sched \in [Ids -> Sched]
  /\ since \in [Ids -> Nat]
  /\ arrivals \in Nat /\ slices \in Nat
  /\ process \in {"running", "success", "failure", "refused"}

\* What the programs owe the scheduler: on one real-time core, "FIFO: decreasing
\* or equal priorities", "RR: decreasing priorities"
\* (tests/preempt_03_decrement.cc:37, 44), all above 0, and nobody next to a
\* thread that is not yet real-time.
Suitable ==
  /\ RtCores = 1
  /\ \A p \in Programs :
       /\ p.policy \in Realtime
       /\ p.table # <<>>
       /\ \A i \in DOMAIN p.table : p.table[i] > 0
       /\ \A i, j \in DOMAIN p.table :
            i < j => IF p.policy = "SCHED_RR" THEN p.table[j] < p.table[i]
                     ELSE p.table[j] <= p.table[i]
       /\ p.thread = "preempt::thread" => p.cores = 1

\* Two threads are never between the check and the end of the decrement: "The
\* decrement operation is neither atomic nor implemented using a lock.  This is
\* unnecessary" (tests/preempt_03_decrement.cc:9, tests/preempt_02_fifo.cc:9).
OneAtATime == Cardinality({i \in Ids : thr[i] \in {"load", "store"}}) <= 1

\* "If two SCHED_FIFO threads with the same priority are created one after the
\* other (e.g. by two consecutive std::thread ctor calls), then the thread of
\* the first call is always executed first" (FAQ.md:200), and runs to its end.
InCreationOrder ==
  \A i, j \in Ids :
    i < j /\ thr[j] \in {"load", "store", "exited"} => thr[i] = "exited"

\* No VERIFY of the program fails, and no decrement is lost: "Each test is
\* written exactly so that the success rate is always 100% under a kernel with
\* RT scheduling" (README.md:108).
TestSucceeds == verify /\ process # "failure"

\* The program ends: main() is not starved by the real-time threads, nor does it
\* wait for one that never ran.
Terminates == <>(process # "running")

==============================================================================
