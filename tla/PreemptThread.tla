---------------------------- MODULE PreemptThread ----------------------------
(***************************************************************************)
(* class preempt::thread (include/preempt/thread.h) and the scheduling     *)
(* functions it forwards to (include/base/threading.h).                    *)
(*                                                                         *)
(* A program has thread objects, which are C++ objects with a lifetime,    *)
(* and threads of execution, which the kernel runs.  Any running thread    *)
(* may call any operation on any object, in any order, as long as no other *)
(* call on that object is in progress: "Concurrently calling join() on the *)
(* same thread object from multiple threads constitutes a data race"       *)
(* (thread.h:97).  Two calls take more than one step, because the thread   *)
(* that the object represents runs in between: join(), which blocks, and   *)
(* the real-time constructor, which first starts the thread and then       *)
(* changes its scheduling.                                                 *)
(*                                                                         *)
(* A call that throws std::system_error (join() or detach() of an object   *)
(* that is not joinable, a self-join, a failing pthread_create()) leaves   *)
(* all of this state as it was, so it is a stuttering step here.           *)
(***************************************************************************)
EXTENDS Posix

CONSTANTS
  Objects,   \* storage for preempt::thread objects
  Threads,   \* threads of execution the kernel can create
  Main,      \* the main thread
  None,      \* std::thread::id{}: no thread of execution; also "no object"
  Requests,  \* the (policy, priority) arguments the program uses
  NDEBUG     \* TRUE in a release build

ASSUME PreemptThreadAssumption ==
  /\ Main \notin Threads
  /\ None \notin Threads \cup Objects \cup {Main}
  /\ None \notin Sched
  /\ Requests \subseteq Sched
  /\ NDEBUG \in BOOLEAN

Callers == Threads \cup {Main}

VARIABLES
  alive,     \* the objects whose lifetime has begun and not ended
  impl,      \* impl[o]: the thread of execution that o.impl_ represents
  error,     \* error[o]: o.error_ holds a description
  state,     \* state[t]: "unborn", "running" or "exited"
  joined,    \* threads whose join() has returned
  detached,  \* threads that were detached
  sched,     \* sched[t]: policy and priority in the kernel
  frame,     \* frame[c]: the call that c is inside of
  process,   \* "running", or how the process ended
  verify,    \* g_verify_flag
  granted    \* history: granted[t] is the last setting a call reported for t

vars == <<alive, impl, error, state, joined, detached, sched, frame, process,
          verify, granted>>

Frames == [op : {"idle", "join", "ctor"}, obj : Objects \cup {None},
           req : Requests \cup {Normal}]

Idle == [op |-> "idle", obj |-> None, req |-> Normal]

TypeOK ==
  /\ alive \subseteq Objects
  /\ impl \in [Objects -> Threads \cup {None}]
  /\ error \in [Objects -> BOOLEAN]
  /\ state \in [Callers -> {"unborn", "running", "exited"}]
  /\ joined \subseteq Threads
  /\ detached \subseteq Threads
  /\ sched \in [Callers -> Sched]
  /\ frame \in [Callers -> Frames]
  /\ process \in {"running", "exited", "terminated", "quick_exit"}
  /\ verify \in BOOLEAN
  /\ granted \in [Threads -> Sched \cup {None}]

Init ==
  /\ alive = {}
  /\ impl = [o \in Objects |-> None]
  /\ error = [o \in Objects |-> FALSE]
  /\ state = [c \in Callers |-> IF c = Main THEN "running" ELSE "unborn"]
  /\ joined = {}
  /\ detached = {}
  /\ sched = [c \in Callers |-> Normal]
  /\ frame = [c \in Callers |-> Idle]
  /\ process = "running"
  /\ verify = TRUE
  /\ granted = [t \in Threads |-> None]

------------------------------------------------------------------------------
(* Who may call what. *)

MayCall(c) == process = "running" /\ state[c] = "running" /\ frame[c] = Idle

\* No call on o is in progress in any thread.
Unshared(o) == \A c \in Callers : frame[c].obj # o

Usable(o) == o \in alive /\ Unshared(o)

Vacant(o) == o \notin alive /\ Unshared(o)

joinable(o) == impl[o] # None

------------------------------------------------------------------------------
(* base::try_scheduling() and base::change_scheduling(). *)

errnum(o, r) == setschedparam(state[impl[o]] = "exited", r)

\* try_scheduling() returns true: nothing to schedule, done, or ESRCH.
Tried_EPERM(o, r) == joinable(o) => errnum(o, r) \in {"0", "ESRCH", "EPERM"}
Tried(o, r) == joinable(o) => errnum(o, r) \in {"0", "ESRCH"}

\* What try_scheduling() does besides returning: the VERIFY, the call of the
\* kernel, and the description of a failure.
Apply(o, r) ==
  /\ verify' = (verify /\ PriorityVerified(r))
  /\ sched' = IF joinable(o) /\ errnum(o, r) = "0"
                THEN [sched EXCEPT ![impl[o]] = r] ELSE sched
  /\ error' = [error EXCEPT ![o] = @ \/ ~Tried(o, r)]

\* The caller learned that the thread of o now runs under r.
Grant(o, r, yes) ==
  granted' = IF joinable(o) /\ yes
               THEN [granted EXCEPT ![impl[o]] = r] ELSE granted

\* change_scheduling() either returns or ends the process.
ChangeOutcome_Ignored(o, r) == "running"
ChangeOutcome(o, r) == IF Tried(o, r) THEN "running" ELSE "quick_exit"

Change(o, r) ==
  /\ Apply(o, r)
  /\ process' = ChangeOutcome(o, r)
  /\ Grant(o, r, ChangeOutcome(o, r) = "running")

TryScheduling(c, o, r) ==
  /\ MayCall(c)
  /\ Usable(o)
  /\ Apply(o, r)
  /\ Grant(o, r, Tried(o, r))
  /\ UNCHANGED <<alive, impl, state, joined, detached, frame, process>>

ChangeScheduling(c, o, r) ==
  /\ MayCall(c)
  /\ Usable(o)
  /\ Change(o, r)
  /\ UNCHANGED <<alive, impl, state, joined, detached, frame>>

------------------------------------------------------------------------------
(* Constructors and destructor. *)

ConstructDefault(c, o) ==
  /\ MayCall(c)
  /\ Vacant(o)
  /\ alive' = alive \cup {o}
  /\ error' = [error EXCEPT ![o] = FALSE]
  /\ UNCHANGED <<impl, state, joined, detached, sched, frame, process, verify,
                 granted>>

\* The object that was moved from: its impl_ is empty, its error_ is not touched.
MoveImpl_Copied(o, p) == [impl EXCEPT ![o] = impl[p]]
MoveImpl(o, p) == [impl EXCEPT ![o] = impl[p], ![p] = None]

ConstructMove(c, o, p) ==
  /\ MayCall(c)
  /\ Vacant(o)
  /\ Usable(p)
  /\ alive' = alive \cup {o}
  /\ impl' = MoveImpl(o, p)
  /\ error' = [error EXCEPT ![o] = FALSE]
  /\ UNCHANGED <<state, joined, detached, sched, frame, process, verify, granted>>

\* std::thread{f}: a thread created without attributes inherits the policy
\* and the priority of the thread that creates it.
Start(c, o, t) ==
  /\ state[t] = "unborn"
  /\ alive' = alive \cup {o}
  /\ impl' = [impl EXCEPT ![o] = t]
  /\ error' = [error EXCEPT ![o] = FALSE]
  /\ state' = [state EXCEPT ![t] = "running"]
  /\ sched' = [sched EXCEPT ![t] = sched[c]]

Construct(c, o, t) ==
  /\ MayCall(c)
  /\ Vacant(o)
  /\ Start(c, o, t)
  /\ UNCHANGED <<joined, detached, frame, process, verify, granted>>

\* thread(policy, priority, f): first half, the delegated constructor.
ConstructRealtime(c, o, t, r) ==
  /\ MayCall(c)
  /\ Vacant(o)
  /\ Start(c, o, t)
  /\ frame' = [frame EXCEPT ![c] = [op |-> "ctor", obj |-> o, req |-> r]]
  /\ UNCHANGED <<joined, detached, process, verify, granted>>

\* Second half, the call of change_scheduling() in the constructor's body.
ConstructRealtimeEnd(c) ==
  /\ process = "running"
  /\ frame[c].op = "ctor"
  /\ Change(frame[c].obj, frame[c].req)
  /\ frame' = [frame EXCEPT ![c] = Idle]
  /\ UNCHANGED <<alive, impl, state, joined, detached>>

\* ~thread(): VERIFY in a debug build; ~std::thread() of a joinable impl_
\* calls std::terminate().
DestroyTerminates_Never(o) == FALSE
DestroyTerminates(o) == joinable(o)

Destroy(c, o) ==
  /\ MayCall(c)
  /\ Usable(o)
  /\ verify' = (verify /\ (NDEBUG \/ ~joinable(o)))
  /\ \/ /\ DestroyTerminates(o)
        /\ process' = "terminated"
        /\ UNCHANGED <<alive, impl>>
     \/ /\ ~DestroyTerminates(o)
        /\ alive' = alive \ {o}
        /\ impl' = [impl EXCEPT ![o] = None]
        /\ UNCHANGED process
  /\ UNCHANGED <<error, state, joined, detached, sched, frame, granted>>

------------------------------------------------------------------------------
(* Assignment, swap, join, detach. *)

\* operator=: the assignment of impl_ terminates if impl_ is joinable, even
\* if it is assigned to itself.
AssignTerminates_Never(o) == FALSE
AssignTerminates(o) == joinable(o)

Assign(c, o, p) ==
  /\ MayCall(c)
  /\ Usable(o)
  /\ Usable(p)
  /\ \/ AssignTerminates(o) /\ process' = "terminated" /\ UNCHANGED impl
     \/ ~AssignTerminates(o) /\ impl' = MoveImpl(o, p) /\ UNCHANGED process
  /\ UNCHANGED <<alive, error, state, joined, detached, sched, frame, verify,
                 granted>>

Swap(c, o, p) ==
  /\ MayCall(c)
  /\ Usable(o)
  /\ Usable(p)
  /\ impl' = [impl EXCEPT ![o] = impl[p], ![p] = impl[o]]
  /\ UNCHANGED <<alive, error, state, joined, detached, sched, frame, process,
                 verify, granted>>

\* pthread_join() finds a thread that would wait for itself, directly or
\* through the thread it wants to join; join() then throws.
WouldDeadlock(c, t) ==
  \/ t = c
  \/ frame[t].op = "join" /\ impl[frame[t].obj] = c

JoinBegin(c, o) ==
  /\ MayCall(c)
  /\ Usable(o)
  /\ joinable(o)
  /\ ~WouldDeadlock(c, impl[o])
  /\ frame' = [frame EXCEPT ![c] = [op |-> "join", obj |-> o, req |-> Normal]]
  /\ UNCHANGED <<alive, impl, error, state, joined, detached, sched, process,
                 verify, granted>>

JoinReady_Early(c) == TRUE
JoinReady(c) == state[impl[frame[c].obj]] = "exited"

JoinEnd(c) ==
  /\ process = "running"
  /\ frame[c].op = "join"
  /\ JoinReady(c)
  /\ joined' = joined \cup {impl[frame[c].obj]}
  /\ impl' = [impl EXCEPT ![frame[c].obj] = None]
  /\ frame' = [frame EXCEPT ![c] = Idle]
  /\ UNCHANGED <<alive, error, state, detached, sched, process, verify, granted>>

Detach(c, o) ==
  /\ MayCall(c)
  /\ Usable(o)
  /\ joinable(o)
  /\ detached' = detached \cup {impl[o]}
  /\ impl' = [impl EXCEPT ![o] = None]
  /\ UNCHANGED <<alive, error, state, joined, sched, frame, process, verify,
                 granted>>

------------------------------------------------------------------------------
(* The environment. *)

\* The thread function returns.
ThreadExit(t) ==
  /\ MayCall(t)
  /\ state' = [state EXCEPT ![t] = "exited"]
  /\ UNCHANGED <<alive, impl, error, joined, detached, sched, frame, process,
                 verify, granted>>

\* main() returns after every thread object has been destroyed.
MainReturn ==
  /\ MayCall(Main)
  /\ alive = {}
  /\ state' = [state EXCEPT ![Main] = "exited"]
  /\ process' = "exited"
  /\ UNCHANGED <<alive, impl, error, joined, detached, sched, frame, verify,
                 granted>>

\* The process has ended; nothing happens any more.
Ended == process # "running" /\ UNCHANGED vars

Step(c) ==
  \/ \E o \in Objects :
       \/ ConstructDefault(c, o)
       \/ Destroy(c, o)
       \/ JoinBegin(c, o)
       \/ Detach(c, o)
       \/ \E p \in Objects :
            ConstructMove(c, o, p) \/ Assign(c, o, p) \/ Swap(c, o, p)
       \/ \E t \in Threads : Construct(c, o, t)
       \/ \E t \in Threads, r \in Requests : ConstructRealtime(c, o, t, r)
       \/ \E r \in Requests : TryScheduling(c, o, r) \/ ChangeScheduling(c, o, r)
  \/ ConstructRealtimeEnd(c)
  \/ JoinEnd(c)

Next ==
  \/ \E c \in Callers : Step(c)
  \/ \E t \in Threads : ThreadExit(t)
  \/ MainReturn
  \/ Ended

Spec == Init /\ [][Next]_vars

------------------------------------------------------------------------------
(* Properties. *)

\* A thread that was started and neither joined nor detached.
Unreleased(t) == state[t] # "unborn" /\ t \notin joined \cup detached

\* Move construction, move assignment, swap, join and detach never leave one
\* thread of execution in two objects, nor in an object whose lifetime has
\* ended, nor one that was already joined or detached in an object: "other no
\* longer represents a thread of execution" (thread.h:42, 72).
SingleOwner ==
  /\ \A o, p \in Objects : impl[o] = impl[p] /\ impl[o] # None => o = p
  /\ \A o \in Objects : impl[o] # None => o \in alive /\ Unreleased(impl[o])

\* A thread that still has to be joined or detached is represented by some
\* object: no sequence of constructors, moves, swaps and destructors loses it,
\* because those that would lose it terminate the process.
NoThreadLost ==
  \A t \in Threads : Unreleased(t) => \E o \in Objects : impl[o] = t

\* When main() returns, every thread was joined, and so has finished, or was
\* detached: no thread that the program still owns is cut off by exit().
CleanExit ==
  process = "exited" =>
    \A t \in Threads : /\ ~Unreleased(t)
                       /\ t \in joined => state[t] = "exited"

\* A thread for which try_scheduling() returned true, or change_scheduling() or
\* the real-time constructor returned at all, runs under the policy and the
\* priority last asked for as long as it runs (thread.h:54-60, 122-139).
RunsAsGranted ==
  process = "running" =>
    \A t \in Threads :
      state[t] = "running" /\ granted[t] # None => sched[t] = granted[t]

\* A step leaves c's blocked join() alone, or it is its end.
JoinStaysOrReturns(c) ==
  frame[c].op = "join" =>
    LET t == impl[frame[c].obj]
    IN  \/ /\ frame'[c] = frame[c]
           /\ impl'[frame[c].obj] = t
           /\ t \notin joined' \cup detached'
        \/ /\ frame'[c] = Idle
           /\ t \in joined' /\ state'[t] = "exited"

\* The thread that a blocked join() waits for stays in the object it was called
\* on and stays unjoined and undetached until join() returns, whatever the other
\* threads do with their objects in the meantime (thread.h:93-101).
JoinTargetStays == [][\A c \in Callers : JoinStaysOrReturns(c)]_vars

\* thread.h:123 and threading.h:49: "Return true if this is successful, false
\* otherwise (probably the thread has already terminated or the user is not a
\* member of the realtime group)."
TrueMeansScheduled ==
  process = "running" =>
    \A t \in Threads : granted[t] # None => sched[t] = granted[t]

------------------------------------------------------------------------------
(* The inductive invariant behind the properties above. *)

\* Two calls in progress are on two objects, and a call in progress is on an
\* object that represents a thread.
FramesInv ==
  /\ \A c \in Callers :
       /\ frame[c].op = "idle" <=> frame[c].obj = None
       /\ frame[c].op = "idle" <=> frame[c] = Idle
       /\ frame[c].op = "ctor" => frame[c].req \in Requests
       /\ frame[c] # Idle => impl[frame[c].obj] # None
       /\ frame[c] # Idle => state[c] = "running"
  /\ \A c, d \in Callers :
       frame[c].obj = frame[d].obj /\ frame[c].obj # None => c = d

\* Only a thread that exists can have been released or scheduled; a joined
\* thread has exited, and no thread is released twice.
ReleaseInv ==
  /\ \A t \in joined \cup detached : state[t] # "unborn"
  /\ \A t \in joined : state[t] = "exited"
  /\ joined \cap detached = {}
  /\ \A t \in Threads : state[t] = "unborn" => granted[t] = None

Inv ==
  /\ TypeOK
  /\ FramesInv
  /\ ReleaseInv
  /\ SingleOwner
  /\ NoThreadLost
  /\ RunsAsGranted
  /\ CleanExit

==============================================================================
