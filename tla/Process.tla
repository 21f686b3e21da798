------------------------------- MODULE Process -------------------------------
(***************************************************************************)
(* Process control (src/process.cc, include/preempt/process.h): locked     *)
(* memory pages, the core file limit, and the CPU latency that the kernel  *)
(* holds while /dev/cpu_dma_latency is open.                               *)
(*                                                                         *)
(* Any thread of the program may make any call.  The functions take no     *)
(* lock, so every system call is a step, and so is the last assignment of  *)
(* g_fd_cpu_dma.  That variable is not atomic: a function that has just    *)
(* loaded or stored it may use the value it remembers (a register) or load *)
(* it again, depending on how it was compiled.  A request that the system  *)
(* refuses ends the process, but the other threads go on until it does.    *)
(*                                                                         *)
(* The kernel is modelled from how process.cc uses it: pages are numbered  *)
(* only, a descriptor is the lowest free one, and the latency in force is  *)
(* the smallest one of the open files.                                     *)
(***************************************************************************)
EXTENDS Integers

CONSTANTS
  Callers,    \* threads of the program
  Latencies,  \* the c_state arguments, in microseconds
  NoLatency,  \* the value of a file nothing was written to: no constraint
  MaxPages,   \* bound: pages the program maps
  MaxFd,      \* the descriptors the program may open are 1..MaxFd
  SmallLimit, \* a finite RLIMIT_MEMLOCK, in pages
  MaxCalls    \* bound: calls of the program

Unlimited == MaxPages + 1  \* RLIM_INFINITY

ASSUME ProcessAssumption ==
  /\ Latencies \subseteq Nat /\ Latencies # {}
  /\ NoLatency \in Nat /\ \A c \in Latencies : c < NoLatency
  /\ MaxPages \in Nat \ {0} /\ MaxFd \in Nat \ {0} /\ MaxCalls \in Nat
  /\ SmallLimit \in 0..MaxPages

VARIABLES
  system,    \* what the kernel grants to this program: it never changes
  memlock,   \* RLIMIT_MEMLOCK: rlim_cur and rlim_max
  core,      \* RLIMIT_CORE is not zero
  mapped,    \* pages of the address space
  locked,    \* those of them that are locked
  future,    \* MCL_FUTURE is in force
  files,     \* descriptor table: "free", "dma" or "other", and the latency
  g_fd_cpu_dma,
  call,      \* call[t]: the next step of the call that t is inside of
  fd,        \* fd[t]: the descriptor that t remembers
  c_state,   \* c_state[t]: the argument of t's request_CPU_latency()
  failing,   \* threads whose write() to the device failed
  exited,    \* std::exit() was called
  calls,     \* number of calls so far
  \* History:
  inside,    \* threads whose begin_realtime() returned, before end_realtime()
  undone,    \* threads inside when some thread unlocked the pages
  refused,   \* a page was refused because it could not be locked
  shared,    \* threads whose latency call overlaps with that of another
  overlapped,\* two latency calls have overlapped
  leaked,    \* descriptors that a request overwrote in g_fd_cpu_dma
  foreign,   \* a file that is not ours was written or closed
  promised   \* promised[t]: the latency that t requested, undisturbed

pageVars == <<memlock, mapped, locked, future, inside, undone, refused>>
latencyVars == <<files, g_fd_cpu_dma, fd, c_state, failing, shared, overlapped, leaked,
                 foreign, promised>>
vars == <<system, pageVars, latencyVars, core, call, exited, calls>>

Fds == 1..MaxFd
Free == [kind |-> "free", latency |-> NoLatency]
Other == [kind |-> "other", latency |-> NoLatency]
Dma(c) == [kind |-> "dma", latency |-> c]
Kinds == {Free, Other} \cup {Dma(c) : c \in Latencies \cup {NoLatency}}

PageSteps == {"begin", "lock", "end"}
LatencySteps == {"open", "write", "reset", "close", "forget"}
Steps == PageSteps \cup LatencySteps \cup {"exit", "none"}

TypeOK ==
  /\ system \in [resource : BOOLEAN, ipc_lock : BOOLEAN,
                 device : {"missing", "forbidden", "present"}]
  /\ memlock \in [cur : 0..Unlimited, max : 0..Unlimited]
  /\ mapped \in 0..MaxPages /\ locked \in 0..mapped
  /\ {core, future, refused, exited, overlapped, foreign} \subseteq BOOLEAN
  /\ files \in [Fds -> Kinds]
  /\ g_fd_cpu_dma \in Fds \cup {-1}
  /\ call \in [Callers -> Steps]
  /\ fd \in [Callers -> Fds \cup {-1}]
  /\ c_state \in [Callers -> Latencies]
  /\ promised \in [Callers -> Latencies \cup {NoLatency}]
  /\ inside \subseteq Callers /\ undone \subseteq Callers /\ shared \subseteq Callers
  /\ failing \subseteq Callers /\ leaked \subseteq Fds
  /\ calls \in 0..MaxCalls

Init ==
  /\ system \in [resource : BOOLEAN, ipc_lock : BOOLEAN,
                 device : {"missing", "forbidden", "present"}]
  /\ memlock \in {l \in [cur : {SmallLimit, Unlimited}, max : {SmallLimit, Unlimited}] :
                    l.cur <= l.max}
  /\ core = TRUE
  /\ mapped = 1 /\ locked = 0 /\ future = FALSE
  /\ files = [d \in Fds |-> Free]
  /\ g_fd_cpu_dma = -1
  /\ call = [t \in Callers |-> "none"]
  /\ fd = [t \in Callers |-> -1]
  /\ c_state = [t \in Callers |-> CHOOSE c \in Latencies : TRUE]
  /\ exited = FALSE /\ calls = 0
  /\ inside = {} /\ undone = {} /\ refused = FALSE
  /\ failing = {} /\ shared = {} /\ overlapped = FALSE /\ leaked = {} /\ foreign = FALSE
  /\ promised = [t \in Callers |-> NoLatency]

\* t calls a function whose first step is s.
Enter(t, s) ==
  /\ ~exited /\ call[t] = "none" /\ calls < MaxCalls
  /\ calls' = calls + 1
  /\ call' = [call EXCEPT ![t] = s]

\* t is inside of a call whose next step is s, and takes it to s2.
Step(t, s, s2) ==
  /\ ~exited /\ call[t] = s
  /\ call' = [call EXCEPT ![t] = s2]
  /\ UNCHANGED calls

------------------------------------------------------------------------------
(* Pages and limits. *)

\* setrlimit(RLIMIT_MEMLOCK, {RLIM_INFINITY, RLIM_INFINITY}): raising the hard
\* limit takes CAP_SYS_RESOURCE, and a call that fails changes nothing.
NewLimit_MaxOnly == [cur |-> memlock.cur, max |-> Unlimited]
NewLimit == [cur |-> Unlimited, max |-> Unlimited]

MayUnlimit == memlock.max = Unlimited \/ system.resource

unlimit_lock_pages == memlock' = IF MayUnlimit THEN NewLimit ELSE memlock

\* The kernel locks up to n pages for this program.
MayLock(n) == system.ipc_lock \/ (memlock.cur > 0 /\ n <= memlock.cur)

\* mlockall(MCL_CURRENT | MCL_FUTURE): all pages, or none.
LockFlags_Current == {"MCL_CURRENT"}
LockFlags == {"MCL_CURRENT", "MCL_FUTURE"}

lock_all_pages ==
  IF MayLock(mapped)
    THEN /\ locked' = IF "MCL_CURRENT" \in LockFlags THEN mapped ELSE locked
         /\ future' = ("MCL_FUTURE" \in LockFlags)
    ELSE UNCHANGED <<locked, future>>

\* begin_realtime(): the results of both calls are ignored.
BeginRealtime(t) ==
  /\ Enter(t, "begin")
  /\ UNCHANGED <<system, pageVars, latencyVars, core, exited>>

BeginUnlimit(t) ==
  /\ Step(t, "begin", "lock")
  /\ unlimit_lock_pages
  /\ UNCHANGED <<system, mapped, locked, future, inside, undone, refused,
                 latencyVars, core, exited>>

BeginLock(t) ==
  /\ Step(t, "lock", "none")
  /\ lock_all_pages
  /\ inside' = inside \cup {t}
  /\ undone' = undone \ {t}
  /\ UNCHANGED <<system, memlock, mapped, refused, latencyVars, core, exited>>

EndRealtime(t) ==
  /\ Enter(t, "end")
  /\ inside' = inside \ {t}
  /\ UNCHANGED <<system, memlock, mapped, locked, future, undone, refused,
                 latencyVars, core, exited>>

\* munlockall(): the pages of the process, whoever locked them.
EndUnlock(t) ==
  /\ Step(t, "end", "none")
  /\ locked' = 0 /\ future' = FALSE
  /\ undone' = inside
  /\ UNCHANGED <<system, memlock, mapped, inside, refused, latencyVars, core, exited>>

DisableCoreFile(t) ==
  /\ Enter(t, "none")
  /\ core' = FALSE
  /\ UNCHANGED <<system, pageVars, latencyVars, exited>>

\* The program maps a page, for instance the stack of a new thread.
MapPage ==
  /\ ~exited /\ mapped < MaxPages
  /\ LET ok == future => MayLock(locked + 1)
     IN  /\ mapped' = IF ok THEN mapped + 1 ELSE mapped
         /\ locked' = IF ok /\ future THEN locked + 1 ELSE locked
         /\ refused' = (refused \/ ~ok)
  /\ UNCHANGED <<system, memlock, future, inside, undone, latencyVars, core, call,
                 exited, calls>>

------------------------------------------------------------------------------
(* CPU latency. *)

\* The other threads that are inside of a latency call.
Rivals(t) == {u \in Callers \ {t} : call[u] \in LatencySteps}

EnterLatency(t, s) ==
  /\ Enter(t, s)
  /\ shared' = IF Rivals(t) = {} THEN shared \ {t} ELSE shared \cup Rivals(t) \cup {t}
  /\ overlapped' = (overlapped \/ Rivals(t) # {})

\* stat() needs no permission for the device.
RequestLatency(t, c) ==
  /\ EnterLatency(t, IF system.device = "missing" THEN "exit" ELSE "open")
  /\ c_state' = [c_state EXCEPT ![t] = c]
  /\ UNCHANGED <<system, pageVars, core, exited, files, g_fd_cpu_dma, fd, failing, leaked,
                 foreign, promised>>

FreeFds == {d \in Fds : files[d] = Free}

Opened_Replaces(d) ==
  [e \in Fds |-> IF e = d THEN Dma(NoLatency)
                 ELSE IF e = g_fd_cpu_dma THEN Free ELSE files[e]]
Opened(d) == [files EXCEPT ![d] = Dma(NoLatency)]

\* open() returns the lowest free descriptor.
LowestFree(d) == d \in FreeFds /\ \A e \in FreeFds : d <= e

\* What open() returned becomes the global descriptor, also the -1 of a failure.
Assigned(t, d) ==
  /\ g_fd_cpu_dma' = d
  /\ fd' = [fd EXCEPT ![t] = d]
  /\ leaked' = leaked \cup ({g_fd_cpu_dma} \ {-1})
  /\ UNCHANGED <<system, pageVars, core, exited, c_state, failing, shared, overlapped,
                 foreign, promised>>

RequestOpen(t) ==
  /\ Step(t, "open", "write")
  /\ system.device = "present"
  /\ \E d \in Fds : LowestFree(d) /\ files' = Opened(d) /\ Assigned(t, d)

RequestOpenFails(t) ==
  /\ Step(t, "open", "exit")
  /\ system.device = "forbidden" \/ FreeFds = {}
  /\ Assigned(t, -1)
  /\ UNCHANGED files

\* The descriptor that t uses after it has loaded or stored the global one.
Used(t) == {fd[t], g_fd_cpu_dma}

\* t used the descriptor and will not use it again.
FdIsDead(t) == fd' = [fd EXCEPT ![t] = -1]

RequestWrite(t) ==
  /\ Step(t, "write", "none")
  /\ \E d \in Used(t) \ ({-1} \cup FreeFds) :
       /\ files' = IF files[d] = Other THEN files
                   ELSE [files EXCEPT ![d] = Dma(c_state[t])]
       /\ foreign' = (foreign \/ files[d] = Other)
  /\ promised' = [promised EXCEPT ![t] =
                    IF t \in shared THEN NoLatency ELSE c_state[t]]
  /\ FdIsDead(t)
  /\ UNCHANGED <<system, pageVars, core, exited, g_fd_cpu_dma, c_state, failing,
                 shared, overlapped, leaked>>

\* The device may refuse any value, and a descriptor that is not open fails: t calls
\* reset_CPU_latency() before it exits.
RequestWriteFails(t) ==
  /\ Step(t, "write", "reset")
  /\ failing' = failing \cup {t}
  /\ FdIsDead(t)
  /\ UNCHANGED <<system, pageVars, core, exited, files, g_fd_cpu_dma, c_state, shared,
                 overlapped, leaked, foreign, promised>>

\* std::exit(EXIT_FAILURE)
Exit(t) ==
  /\ Step(t, "exit", "none")
  /\ exited' = TRUE
  /\ UNCHANGED <<system, pageVars, core, latencyVars>>

ResetLatency(t) ==
  /\ EnterLatency(t, "reset")
  /\ UNCHANGED <<system, pageVars, core, exited, files, g_fd_cpu_dma, fd, c_state, failing,
                 leaked, foreign, promised>>

\* Where t goes on when reset_CPU_latency() returns.
ResetReturn(t) == IF t \in failing THEN "exit" ELSE "none"

ResetNext_NoClose(t) == IF g_fd_cpu_dma = -1 THEN ResetReturn(t) ELSE "forget"
ResetNext(t) == IF g_fd_cpu_dma = -1 THEN ResetReturn(t) ELSE "close"

ResetTest(t) ==
  /\ Step(t, "reset", ResetNext(t))
  /\ fd' = [fd EXCEPT ![t] = g_fd_cpu_dma]
  /\ UNCHANGED <<system, pageVars, core, exited, files, g_fd_cpu_dma, c_state, failing,
                 shared, overlapped, leaked, foreign, promised>>

ResetClose(t) ==
  /\ Step(t, "close", "forget")
  /\ \E d \in Used(t) :
       /\ files' = IF d = -1 THEN files ELSE [files EXCEPT ![d] = Free]
       /\ foreign' = (foreign \/ (d # -1 /\ files[d] = Other))
  /\ promised' = [u \in Callers |-> NoLatency]
  /\ FdIsDead(t)
  /\ UNCHANGED <<system, pageVars, core, exited, g_fd_cpu_dma, c_state, failing,
                 shared, overlapped, leaked>>

Forgotten_Kept == g_fd_cpu_dma
Forgotten == -1

ResetForget(t) ==
  /\ Step(t, "forget", ResetReturn(t))
  /\ g_fd_cpu_dma' = Forgotten
  /\ UNCHANGED <<system, pageVars, core, exited, files, fd, c_state, failing, shared,
                 overlapped, leaked, foreign, promised>>

\* The program opens a file of its own.
OpenOther ==
  /\ ~exited
  /\ \E d \in Fds : LowestFree(d) /\ files' = [files EXCEPT ![d] = Other]
  /\ UNCHANGED <<system, pageVars, core, call, calls, exited, g_fd_cpu_dma, fd,
                 c_state, failing, shared, overlapped, leaked, foreign, promised>>

------------------------------------------------------------------------------

Ended ==
  /\ exited \/ (calls = MaxCalls /\ \A t \in Callers : call[t] = "none")
  /\ UNCHANGED vars

Next ==
  \/ \E t \in Callers :
       \/ BeginRealtime(t) \/ BeginUnlimit(t) \/ BeginLock(t)
       \/ EndRealtime(t) \/ EndUnlock(t)
       \/ DisableCoreFile(t)
       \/ \E c \in Latencies : RequestLatency(t, c)
       \/ RequestOpen(t) \/ RequestOpenFails(t)
       \/ RequestWrite(t) \/ RequestWriteFails(t) \/ Exit(t)
       \/ ResetLatency(t) \/ ResetTest(t) \/ ResetClose(t) \/ ResetForget(t)
  \/ MapPage
  \/ OpenOther
  \/ Ended

Spec == Init /\ [][Next]_vars

------------------------------------------------------------------------------
(* Properties. *)

\* The system grants what begin_realtime() asks for.
Granted == system.resource \/ system.ipc_lock \/ memlock.max = Unlimited

Protected(t) == t \in inside \ undone => locked = mapped

\* begin_realtime() protects, as process.h:22 says, the pages there are and those
\* that any thread maps later, until a thread calls end_realtime() - where the
\* system grants both calls.
SectionIsProtected == Granted => \A t \in Callers : Protected(t)

\* In a system that grants both calls, locked pages never make the kernel refuse
\* a page, such as the stack of the next real-time thread: the limit is raised
\* before MCL_FUTURE comes into force.
ThreadsCanStart == Granted => ~refused

\* "After this function returns the code is protected from page locks. Therefore
\* it is safe to start realtime threads." (process.h:22)
SafeToStart == \A t \in Callers : Protected(t)

DmaFds == {d \in Fds : files[d] \notin {Free, Other}}

\* The kernel keeps the CPUs at least as responsive as any open file asks.
InForce(c) == \E d \in DmaFds : files[d].latency <= c

\* After request_CPU_latency(c) a latency of c is in force until some thread closes
\* the device, whatever was requested or opened before and after - unless
\* another latency call overlapped with the request.
LatencyHolds ==
  ~exited => \A t \in Callers : promised[t] # NoLatency => InForce(promised[t])

\* request_CPU_latency() and reset_CPU_latency() write and close the device only,
\* never a file that was given a descriptor they had closed, unless two of their
\* calls overlap; nor does the reset after a failed write.
OwnDescriptorOnly == ~overlapped => ~foreign

\* Unless two calls overlapped, the program holds the device open through
\* g_fd_cpu_dma and through the descriptors that further requests overwrote there,
\* which nothing closes any more; a request that failed leaves no other open.
NothingLeaks ==
  (~exited /\ ~overlapped /\ \A t \in Callers : call[t] \notin LatencySteps)
  => DmaFds = leaked \cup ({g_fd_cpu_dma} \ {-1})

==============================================================================
