----------------------------- MODULE CriticalTask -----------------------------
(***************************************************************************)
(* critical_task<Us> and its base class mono_task<preempt::thread>         *)
(* (include/preempt/task.h).                                               *)
(*                                                                         *)
(* The main thread calls start(), join() and finally returns, in any order *)
(* and for any of its tasks; every start() spawns one thread that executes *)
(* hook(), which measures run() and ends the process if run() took longer  *)
(* than Us microseconds.  The class has no lock: only the main thread      *)
(* calls it, and usec_ is shared with the spawned thread.                  *)
(*                                                                         *)
(* Time is counted in ticks of the clock, which is finer than the          *)
(* microseconds that usec_ keeps.  The clock of critical_task is           *)
(* high_resolution_clock, which in the C++ library of GCC (the only        *)
(* compiler details/cc.h accepts) is the adjustable system_clock: what     *)
(* now() returns is the elapsed time plus an offset that may be stepped.   *)
(***************************************************************************)
EXTENDS Posix, FiniteSets

CONSTANTS
  Tasks,       \* critical_task objects
  Threads,     \* threads of execution that start() can create
  None,        \* no thread
  Us,          \* the template argument: the time slice in microseconds
  TicksPerUs,  \* resolution of the clock
  MaxClock,    \* bound: ticks of a behaviour
  MaxSteps,    \* bound: how far the system clock is off
  Priorities,  \* arguments of start()
  Garbage,     \* what an uninitialized usec_ may hold
  NDEBUG       \* TRUE in a release build

ASSUME CriticalTaskAssumption ==
  /\ None \notin Threads
  /\ Us \in Nat /\ TicksPerUs \in Nat \ {0}
  /\ MaxClock \in Nat /\ MaxSteps \in Nat
  /\ Priorities \subseteq Int /\ Garbage \subseteq Int
  /\ NDEBUG \in BOOLEAN

VARIABLES
  thread_,  \* thread_[k]: the thread that k's member thread_ represents
  usec_,    \* usec_[k]
  main,     \* the call the main thread is inside of
  hook,     \* hook[t]: where t is in hook(), and its local variables
  joined,   \* the threads that were joined
  sched,    \* sched[t]: policy and priority of t
  clock,    \* elapsed ticks
  offset,   \* system time minus elapsed time
  process,  \* "running", or how the process ended
  verify    \* g_verify_flag

vars == <<thread_, usec_, main, hook, joined, sched, clock, offset, process,
          verify>>

Idle == [pc |-> "idle", task |-> None, then |-> "idle", temp |-> None, priority |-> 0]

Unborn == [pc |-> "unborn", task |-> None, start |-> 0, stop |-> 0, began |-> 0, ended |-> 0]

\* The program counters of a thread between its creation and its end.
Active == {"entry", "run", "stop", "check"}

Init ==
  /\ thread_ = [k \in Tasks |-> None]
  /\ usec_ \in [Tasks -> Garbage]
  /\ main = Idle
  /\ hook = [t \in Threads |-> Unborn]
  /\ joined = {}
  /\ sched = [t \in Threads |-> Normal]
  /\ clock = 0
  /\ offset = 0
  /\ process = "running"
  /\ verify = TRUE

now == clock + offset

runtime(k) == usec_[k]

------------------------------------------------------------------------------
(* The main thread. *)

\* start(priority) { spawn(&hook, this).change_scheduling(SCHED_FIFO, priority); }
\* spawn() { join(); thread_ = Thread {...}; return thread_; }
SpawnEntry_NoJoin == "create"
SpawnEntry == "join"

CallStart(k, priority) ==
  /\ process = "running" /\ main.pc = "idle"
  /\ main' = [pc |-> SpawnEntry, task |-> k, then |-> "create", temp |-> None,
              priority |-> priority]
  /\ UNCHANGED <<thread_, usec_, hook, joined, sched, clock, offset, process, verify>>

CallJoin(k) ==
  /\ process = "running" /\ main.pc = "idle"
  /\ main' = [Idle EXCEPT !.pc = "join", !.task = k]
  /\ UNCHANGED <<thread_, usec_, hook, joined, sched, clock, offset, process, verify>>

\* mono_task::join(): blocks until the thread has returned from hook().
JoinReturns_Early(t) == hook[t].pc \in {"check", "exited"}
JoinReturns(t) == hook[t].pc = "exited"

\* if (joinable()) thread_.join();
JoinSkips_Never(k) == FALSE
JoinSkips(k) == thread_[k] = None

Join ==
  /\ process = "running" /\ main.pc = "join"
  /\ LET t == thread_[main.task]
     IN  \/ JoinSkips(main.task) /\ UNCHANGED <<thread_, joined>>
         \/ /\ t # None /\ JoinReturns(t)
            /\ thread_' = [thread_ EXCEPT ![main.task] = None]
            /\ joined' = joined \cup {t}
  /\ main' = IF main.then = "idle" THEN Idle ELSE [main EXCEPT !.pc = main.then]
  /\ UNCHANGED <<usec_, hook, sched, clock, offset, process, verify>>

\* Thread {&hook, this}: the thread may run at once, under SCHED_OTHER.
Create(t) ==
  /\ process = "running" /\ main.pc = "create" /\ hook[t].pc = "unborn"
  /\ hook' = [hook EXCEPT ![t].pc = "entry", ![t].task = main.task]
  /\ sched' = [sched EXCEPT ![t] = Normal]
  /\ main' = [main EXCEPT !.pc = "assign", !.temp = t]
  /\ UNCHANGED <<thread_, usec_, joined, clock, offset, process, verify>>

\* pthread_create() fails and the std::system_error leaves start().
CreateFails_Retry == process = "running" /\ main.pc = "create" /\ UNCHANGED vars
CreateFails ==
  /\ process = "running" /\ main.pc = "create"
  /\ main' = Idle
  /\ UNCHANGED <<thread_, usec_, hook, joined, sched, clock, offset, process, verify>>

\* thread_ = temporary: std::thread::operator= terminates on a joinable target.
Assign ==
  /\ process = "running" /\ main.pc = "assign"
  /\ \/ /\ thread_[main.task] # None
        /\ process' = "terminated"
        /\ UNCHANGED <<thread_, main>>
     \/ /\ thread_[main.task] = None
        /\ thread_' = [thread_ EXCEPT ![main.task] = main.temp]
        /\ main' = [main EXCEPT !.pc = "change", !.temp = None]
        /\ UNCHANGED process
  /\ UNCHANGED <<usec_, hook, joined, sched, clock, offset, verify>>

Request == [policy |-> "SCHED_FIFO", priority |-> main.priority]

errnum == setschedparam(hook[thread_[main.task]].pc = "exited", Request)

Change ==
  /\ process = "running" /\ main.pc = "change"
  /\ verify' = (verify /\ PriorityVerified(Request))
  /\ \/ /\ errnum = "0"
        /\ sched' = [sched EXCEPT ![thread_[main.task]] = Request]
        /\ main' = Idle
        /\ UNCHANGED process
     \/ errnum = "ESRCH" /\ main' = Idle /\ UNCHANGED <<sched, process>>
     \/ errnum \in {"EINVAL", "EPERM"} /\ process' = "quick_exit" /\ UNCHANGED <<sched, main>>
  /\ UNCHANGED <<thread_, usec_, hook, joined, clock, offset>>

\* main() returns and its tasks are destroyed: ~thread() of a joinable thread_
\* fails its VERIFY and terminates the process.
MainReturn ==
  /\ process = "running" /\ main.pc = "idle"
  /\ \/ /\ \E k \in Tasks : thread_[k] # None
        /\ process' = "terminated" /\ verify' = (verify /\ NDEBUG)
     \/ /\ \A k \in Tasks : thread_[k] = None
        /\ process' = "exited" /\ UNCHANGED verify
  /\ UNCHANGED <<thread_, usec_, main, hook, joined, sched, clock, offset>>

------------------------------------------------------------------------------
(* hook(), in the spawned thread. *)

HookEntry(t) ==
  /\ process = "running" /\ hook[t].pc = "entry"
  /\ hook' = [hook EXCEPT ![t].pc = "run", ![t].start = now, ![t].began = clock]
  /\ UNCHANGED <<thread_, usec_, main, joined, sched, clock, offset, process, verify>>

\* run() returns and the clock is read again.
HookStop(t) ==
  /\ process = "running" /\ hook[t].pc = "run"
  /\ hook' = [hook EXCEPT ![t].pc = "stop", ![t].stop = now, ![t].ended = clock]
  /\ UNCHANGED <<thread_, usec_, main, joined, sched, clock, offset, process, verify>>

\* duration_cast<microseconds>: truncates towards zero.
microseconds_Ceil(d) == (d + TicksPerUs - 1) \div TicksPerUs
microseconds(d) == IF d >= 0 THEN d \div TicksPerUs ELSE -((-d) \div TicksPerUs)

measured(t) == hook[t].stop - hook[t].start

HookStore(t) ==
  /\ process = "running" /\ hook[t].pc = "stop"
  /\ usec_' = [usec_ EXCEPT ![hook[t].task] = microseconds(measured(t))]
  /\ hook' = [hook EXCEPT ![t].pc = "check"]
  /\ UNCHANGED <<thread_, main, joined, sched, clock, offset, process, verify>>

\* stop > deadline, where deadline = start + microseconds {Us}
Late_Usec(t) == usec_[hook[t].task] > Us
Late_NotStrict(t) == hook[t].stop >= hook[t].start + Us * TicksPerUs
Late(t) == hook[t].stop > hook[t].start + Us * TicksPerUs

HookCheck(t) ==
  /\ process = "running" /\ hook[t].pc = "check"
  /\ \/ Late(t) /\ process' = "quick_exit" /\ UNCHANGED hook
     \/ ~Late(t) /\ hook' = [hook EXCEPT ![t].pc = "exited"] /\ UNCHANGED process
  /\ UNCHANGED <<thread_, usec_, main, joined, sched, clock, offset, verify>>

------------------------------------------------------------------------------
(* Time.  Only differences of two readings are used, so it may stand still
   while nobody is between two readings. *)

Measuring == \E t \in Threads : hook[t].pc = "run"

\* Time passes.
Tick ==
  /\ process = "running"
  /\ Measuring
  /\ clock < MaxClock
  /\ clock' = clock + 1
  /\ UNCHANGED <<thread_, usec_, main, hook, joined, sched, offset, process, verify>>

\* The system clock is set, back or forward.
SetClock ==
  /\ process = "running"
  /\ Measuring
  /\ offset \in -MaxSteps + 1..MaxSteps - 1
  /\ offset' \in {offset - 1, offset + 1}
  /\ UNCHANGED <<thread_, usec_, main, hook, joined, sched, clock, process, verify>>

Ended == process # "running" /\ UNCHANGED vars

MainStep == Join \/ (\E t \in Threads : Create(t)) \/ CreateFails \/ Assign \/ Change

HookStep(t) == HookEntry(t) \/ HookStop(t) \/ HookStore(t) \/ HookCheck(t)

Next ==
  \/ \E k \in Tasks : CallJoin(k) \/ \E p \in Priorities : CallStart(k, p)
  \/ MainStep
  \/ MainReturn
  \/ \E t \in Threads : HookStep(t)
  \/ Tick
  \/ SetClock
  \/ Ended

Spec == Init /\ [][Next]_vars

\* The scheduler lets every thread that can run go on eventually, and run()
\* returns (FAQ.md: "the thread must be finished in a preset period of time").
FairSpec == Spec /\ WF_vars(MainStep) /\ \A t \in Threads : WF_vars(HookStep(t))

------------------------------------------------------------------------------
(* Properties. *)

TypeOK ==
  /\ thread_ \in [Tasks -> Threads \cup {None}]
  /\ usec_ \in [Tasks -> Int]
  /\ main \in [pc : {"idle", "join", "create", "assign", "change"},
               task : Tasks \cup {None}, then : {"idle", "create"},
               temp : Threads \cup {None}, priority : Int]
  /\ hook \in [Threads -> [pc : Active \cup {"unborn", "exited"},
                           task : Tasks \cup {None}, start : Int, stop : Int,
                           began : Int, ended : Int]]
  /\ joined \subseteq Threads
  /\ sched \in [Threads -> Sched]
  /\ clock \in Nat /\ offset \in Int
  /\ process \in {"running", "exited", "terminated", "quick_exit"}
  /\ verify \in BOOLEAN

\* The threads that were created for task k, and those of them that may still
\* execute hook() or were not joined yet.
Spawned(k) == {t \in Threads : hook[t].pc # "unborn" /\ hook[t].task = k}

Uncollected(k) == {t \in Spawned(k) : t \notin joined \/ hook[t].pc \in Active}

\* start() never lets two threads of one task execute hook() at the same time,
\* although the new thread runs before thread_ represents it: usec_ and the
\* members that run() uses belong to one thread (task.h:56, 159).
OneHookPerTask == \A k \in Tasks : Cardinality(Uncollected(k)) <= 1

\* The system clock was not set while t measured.
Undisturbed(t) == measured(t) = hook[t].ended - hook[t].began

\* run() took no longer than Us microseconds, to the tick, in every thread that
\* got past hook() without the clock being set: "May not consume more than Ms
\* milliseconds or the process terminates" (task.h:136).
DeadlineEnforced ==
  \A t \in Threads :
    hook[t].pc = "exited" /\ Undisturbed(t) =>
      hook[t].ended - hook[t].began <= Us * TicksPerUs

\* The clock was set forward, on balance, while t measured.
SetForward(t) == measured(t) > hook[t].ended - hook[t].began

\* The process quits only because a run() really took longer than Us, unless the
\* clock was set forward during it, or because the kernel refused the scheduling
\* that start() asked for.
QuitJustified ==
  process = "quick_exit" =>
    \/ \E t \in Threads :
         /\ hook[t].pc = "check"
         /\ SetForward(t) \/ hook[t].ended - hook[t].began > Us * TicksPerUs
    \/ main.pc = "change" /\ ~(ValidPriority(Request) /\ Permitted(Request))

\* Once join() has returned, runtime() is the duration of the run() that
\* finished last, in whole microseconds and within the slice, and no longer
\* the uninitialized member or a value that is still being written.
Last(k, t) ==
  \A u \in Spawned(k) : hook[u].began <= hook[t].began /\ hook[u].ended <= hook[t].ended

RuntimeAfterJoin ==
  process = "running" =>
    \A k \in Tasks :
      Uncollected(k) = {} /\ Spawned(k) # {} =>
        \E t \in Spawned(k) :
          /\ Last(k, t)
          /\ Undisturbed(t) =>
               LET d == hook[t].ended - hook[t].began
               IN  /\ runtime(k) \in 0..Us
                   /\ runtime(k) * TicksPerUs <= d /\ d < (runtime(k) + 1) * TicksPerUs

\* main() returns normally only when no thread of a task is left that could
\* still use the task.
CleanReturn == process = "exited" => \A k \in Tasks : Uncollected(k) = {}

\* start() and join() return, or the process ends.
CallsReturn == main.pc # "idle" ~> (main.pc = "idle" \/ process # "running")

\* task.h:130, start(): "Create a SCHED_FIFO. Time measurement works only for
\* real-time threads that are not interrupted by such with a higher priority."
RunIsRealtime ==
  \A t \in Threads : hook[t].pc = "run" => sched[t].policy = "SCHED_FIFO"

\* CriticalTask implements SerialTask.
Serial == INSTANCE SerialTask WITH
  job <- [k \in Tasks |->
            IF \E t \in Uncollected(k) : hook[t].pc \in Active THEN "active"
            ELSE IF Uncollected(k) # {} THEN "finished" ELSE "none"],
  begun <- [k \in Tasks |->
              Cardinality(Spawned(k))],
  down <- process # "running"

\* Every behaviour of the tasks is one of the serial task of task.h:57.
RunsSerially == Serial!Spec

==============================================================================
