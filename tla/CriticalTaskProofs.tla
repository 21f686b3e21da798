-------------------------- MODULE CriticalTaskProofs --------------------------
(***************************************************************************)
(* Proofs about CriticalTask, for any tasks, threads, time slices and      *)
(* clocks: its safety properties follow from the inductive invariant       *)
(* TaskInv, and it implements SerialTask.                                  *)
(***************************************************************************)
EXTENDS CriticalTask, TLAPS, FiniteSetTheorems

USE PosixAssumption, CriticalTaskAssumption

\* The thread that task k represents; while start() assigns it, the temporary.
Holder(k) == IF main.pc = "assign" /\ main.task = k THEN main.temp ELSE thread_[k]

\* A call is one of some task.
BusyInv == main.pc # "idle" => main.task \in Tasks

\* start() has joined before it creates, and so never assigns to a joinable thread_.
MainInv ==
  /\ BusyInv
  /\ main.pc \in {"create", "assign"} => thread_[main.task] = None
  /\ main.pc = "change" => thread_[main.task] # None
  /\ main.pc = "assign" <=> main.temp # None

\* A task represents a thread of its own that was not joined.
HolderInv ==
  \A k \in Tasks : Holder(k) # None =>
    /\ hook[Holder(k)].pc # "unborn" /\ hook[Holder(k)].task = k
    /\ Holder(k) \notin joined

\* And every thread that was not joined is represented by its task.
ThreadInv ==
  \A t \in Threads :
    /\ t \in joined => hook[t].pc = "exited"
    /\ hook[t].pc # "unborn" => hook[t].task \in Tasks
    /\ hook[t].pc # "unborn" /\ t \notin joined => Holder(hook[t].task) = t

\* True time goes on, and no thread has exited that found itself late.
TimeInv ==
  \A t \in Threads :
    /\ hook[t].pc = "run" => hook[t].began <= clock
    /\ hook[t].pc \in {"stop", "check", "exited"} =>
         hook[t].began <= hook[t].ended /\ hook[t].ended <= clock
    /\ hook[t].pc = "exited" => ~Late(t)

\* t has stored what it measured.
Stored(t) == hook[t].pc \in {"check", "exited"}

\* A thread of a task begins to run after all that the task had before have stored.
OrderInv ==
  \A t, u \in Threads :
    hook[t].pc \in {"run", "stop"} /\ Stored(u) /\ hook[u].task = hook[t].task
      => hook[u].ended <= hook[t].began

\* usec_ is what the last one of them measured.
UsecInv ==
  \A k \in Tasks :
    (\E t \in Spawned(k) : Stored(t)) =>
      \E t \in Spawned(k) :
        /\ Stored(t) /\ usec_[k] = microseconds(measured(t))
        /\ \A u \in Spawned(k) :
             Stored(u) => hook[u].began <= hook[t].began /\ hook[u].ended <= hook[t].ended

TaskInv ==
  /\ TypeOK
  /\ MainInv /\ HolderInv /\ ThreadInv
  /\ TimeInv /\ OrderInv /\ UsecInv
  /\ QuitJustified /\ CleanReturn

------------------------------------------------------------------------------
(* Types. *)

Pcs == Active \cup {"unborn", "exited"}

Frames == [pc : Pcs, task : Tasks \cup {None}, start : Int, stop : Int,
           began : Int, ended : Int]

MainPcs == {"idle", "join", "create", "assign", "change"}

Calls == [pc : MainPcs, task : Tasks \cup {None}, then : {"idle", "create"},
          temp : Threads \cup {None}, priority : Int]

\* duration_cast yields an integer.
LEMMA MicrosecondsInt == ASSUME NEW d \in Int PROVE microseconds(d) \in Int
<1>1. CASE d >= 0
  <2>1. d \div TicksPerUs \in Int
    OBVIOUS
  <2> QED
    BY <1>1, <2>1 DEF microseconds
<1>2. CASE ~(d >= 0)
  <2>1. -d \in Nat
    BY <1>2
  <2>2. (-d) \div TicksPerUs \in Int
    BY <2>1
  <2> QED
    BY <1>2, <2>2 DEF microseconds
<1> QED
  BY <1>1, <1>2

\* What the steps of hook() do to a thread, field by field.
LEMMA HookCreate ==
  ASSUME hook \in [Threads -> Frames], main \in Calls, NEW t \in Threads, Create(t)
  PROVE  /\ hook' \in [Threads -> Frames]
         /\ hook'[t].pc = "entry" /\ hook'[t].task = main.task
         /\ \A u \in Threads : u # t => hook'[u] = hook[u]
<1> DEFINE h == [hook EXCEPT ![t].pc = "entry"]
<1>1. /\ h \in [Threads -> Frames] /\ h[t].pc = "entry"
      /\ \A u \in Threads : u # t => h[u] = hook[u]
  BY DEF Frames, Pcs, Active
<1>2. hook' = [h EXCEPT ![t].task = main.task]
  BY Zenon DEF Create
<1>3. main.task \in Tasks \cup {None}
  BY DEF Calls
<1> HIDE DEF h
<1> QED
  BY <1>1, <1>2, <1>3 DEF Frames

LEMMA HookEntered ==
  ASSUME hook \in [Threads -> Frames], clock \in Int, offset \in Int,
         NEW t \in Threads, HookEntry(t)
  PROVE  /\ hook' \in [Threads -> Frames]
         /\ hook'[t].pc = "run" /\ hook'[t].task = hook[t].task
         /\ hook'[t].start = now /\ hook'[t].began = clock
         /\ \A u \in Threads : u # t => hook'[u] = hook[u]
<1> DEFINE h == [hook EXCEPT ![t].pc = "run"]
           i == [h EXCEPT ![t].start = now]
<1>1. /\ h \in [Threads -> Frames] /\ h[t].pc = "run" /\ h[t].task = hook[t].task
      /\ \A u \in Threads : u # t => h[u] = hook[u]
  BY DEF Frames, Pcs, Active
<1>2. now \in Int
  BY DEF now
<1>3. hook' = [i EXCEPT ![t].began = clock]
  BY Zenon DEF HookEntry
<1> HIDE DEF h
<1>4. /\ i \in [Threads -> Frames] /\ i[t].pc = "run" /\ i[t].task = hook[t].task
      /\ i[t].start = now
      /\ \A u \in Threads : u # t => i[u] = hook[u]
  BY <1>1, <1>2 DEF Frames
<1> HIDE DEF i
<1> QED
  BY <1>3, <1>4 DEF Frames

LEMMA HookStopped ==
  ASSUME hook \in [Threads -> Frames], clock \in Int, offset \in Int,
         NEW t \in Threads, HookStop(t)
  PROVE  /\ hook' \in [Threads -> Frames]
         /\ hook'[t].pc = "stop" /\ hook'[t].task = hook[t].task
         /\ hook'[t].start = hook[t].start /\ hook'[t].began = hook[t].began
         /\ hook'[t].stop = now /\ hook'[t].ended = clock
         /\ \A u \in Threads : u # t => hook'[u] = hook[u]
<1> DEFINE h == [hook EXCEPT ![t].pc = "stop"]
           i == [h EXCEPT ![t].stop = now]
<1>1. /\ h \in [Threads -> Frames] /\ h[t].pc = "stop" /\ h[t].task = hook[t].task
      /\ h[t].start = hook[t].start /\ h[t].began = hook[t].began
      /\ \A u \in Threads : u # t => h[u] = hook[u]
  BY DEF Frames, Pcs, Active
<1>2. now \in Int
  BY DEF now
<1>3. hook' = [i EXCEPT ![t].ended = clock]
  BY Zenon DEF HookStop
<1> HIDE DEF h
<1>4. /\ i \in [Threads -> Frames] /\ i[t].pc = "stop" /\ i[t].task = hook[t].task
      /\ i[t].start = hook[t].start /\ i[t].began = hook[t].began /\ i[t].stop = now
      /\ \A u \in Threads : u # t => i[u] = hook[u]
  BY <1>1, <1>2 DEF Frames
<1> HIDE DEF i
<1> QED
  BY <1>3, <1>4 DEF Frames

LEMMA HookMoved ==
  ASSUME hook \in [Threads -> Frames], NEW t \in Threads, NEW pc \in Pcs,
         hook' = [hook EXCEPT ![t].pc = pc]
  PROVE  /\ hook' \in [Threads -> Frames]
         /\ hook'[t].pc = pc /\ hook'[t].task = hook[t].task
         /\ hook'[t].start = hook[t].start /\ hook'[t].began = hook[t].began
         /\ hook'[t].stop = hook[t].stop /\ hook'[t].ended = hook[t].ended
         /\ \A u \in Threads : u # t => hook'[u] = hook[u]
  BY DEF Frames

LEMMA MainTypes ==
  ASSUME main \in Calls
  PROVE  /\ Idle \in Calls /\ Idle.pc = "idle" /\ Idle.temp = None
         /\ \A k \in Tasks, p \in Priorities :
              [pc |-> SpawnEntry, task |-> k, then |-> "create", temp |-> None,
               priority |-> p] \in Calls
         /\ \A pc \in MainPcs : [main EXCEPT !.pc = pc] \in Calls
  BY DEF Calls, Idle, MainPcs, SpawnEntry

\* The call that CallJoin(k) begins.
JoinOf(k) == [pc |-> "join", task |-> k, then |-> "idle", temp |-> None, priority |-> 0]

LEMMA MainCalls ==
  ASSUME NEW k \in Tasks
  PROVE  [Idle EXCEPT !.pc = "join", !.task = k] = JoinOf(k) /\ JoinOf(k) \in Calls
<1> DEFINE m == [Idle EXCEPT !.pc = "join"]
<1>1. m = [pc |-> "join", task |-> None, then |-> "idle", temp |-> None, priority |-> 0]
  BY DEF Idle
<1>2. [m EXCEPT !.task = k] = JoinOf(k)
  <2> HIDE DEF m
  <2> QED
    BY <1>1 DEF JoinOf
<1>3. JoinOf(k) \in Calls
  BY DEF JoinOf, Calls, MainPcs
<1> QED
  BY Zenon, <1>2, <1>3

\* start() goes on with the thread it has created, and lets go of it when assigned.
LEMMA MainAssigns ==
  ASSUME main \in Calls, NEW pc \in MainPcs, NEW t \in Threads \cup {None},
         main' = [main EXCEPT !.pc = pc, !.temp = t]
  PROVE  /\ main' \in Calls
         /\ main'.pc = pc /\ main'.temp = t /\ main'.task = main.task
<1> DEFINE m == [main EXCEPT !.pc = pc]
<1>1. m \in Calls /\ m.pc = pc /\ m.task = main.task
  BY DEF Calls
<1>2. main' = [m EXCEPT !.temp = t]
  OBVIOUS
<1> HIDE DEF m
<1> QED
  BY <1>1, <1>2 DEF Calls

\* TypeOK with the sets named.
LEMMA Typed ==
  TypeOK <=>
    /\ thread_ \in [Tasks -> Threads \cup {None}]
    /\ usec_ \in [Tasks -> Int]
    /\ main \in Calls
    /\ hook \in [Threads -> Frames]
    /\ joined \subseteq Threads
    /\ sched \in [Threads -> Sched]
    /\ clock \in Nat /\ offset \in Int
    /\ process \in {"running", "exited", "terminated", "quick_exit"}
    /\ verify \in BOOLEAN
  BY Zenon DEF TypeOK, Calls, MainPcs, Frames, Pcs

LEMMA InitTypes == Init => TypeOK
<1> SUFFICES ASSUME Init PROVE TypeOK
  OBVIOUS
<1>1. Idle \in Calls
  BY DEF Idle, Calls, MainPcs
<1>2. Unborn \in Frames /\ Normal \in Sched
  BY DEF Unborn, Frames, Pcs, Normal, Sched, Policies
<1>3. hook \in [Threads -> Frames] /\ sched \in [Threads -> Sched]
  BY <1>2 DEF Init
<1>4. usec_ \in [Tasks -> Int] /\ thread_ \in [Tasks -> Threads \cup {None}]
  BY DEF Init
<1>5. verify \in BOOLEAN
  BY Zenon DEF Init
<1> QED
  BY <1>1, <1>3, <1>4, <1>5, Typed DEF Init

\* Every step keeps the types.
LEMMA NextTypes == TypeOK /\ BusyInv /\ [Next]_vars => TypeOK'
<1> SUFFICES ASSUME TypeOK, BusyInv, [Next]_vars PROVE TypeOK'
  OBVIOUS
<1> DEFINE Types ==
      /\ thread_' \in [Tasks -> Threads \cup {None}]
      /\ usec_' \in [Tasks -> Int]
      /\ main' \in Calls
      /\ hook' \in [Threads -> Frames]
      /\ joined' \subseteq Threads
      /\ sched' \in [Threads -> Sched]
      /\ clock' \in Nat /\ offset' \in Int
      /\ process' \in {"running", "exited", "terminated", "quick_exit"}
      /\ verify' \in BOOLEAN
<1>0. /\ thread_ \in [Tasks -> Threads \cup {None}]
      /\ usec_ \in [Tasks -> Int]
      /\ main \in Calls
      /\ hook \in [Threads -> Frames]
      /\ joined \subseteq Threads
      /\ sched \in [Threads -> Sched]
      /\ clock \in Nat /\ offset \in Int
      /\ process \in {"running", "exited", "terminated", "quick_exit"}
      /\ verify \in BOOLEAN
  BY Typed
<1>c. clock \in Int
  BY <1>0
<1> SUFFICES Types
  BY Zenon DEF TypeOK, Calls, MainPcs, Frames, Pcs
<1>1. ASSUME NEW k \in Tasks, CallJoin(k) PROVE Types
  <2>1. main' \in Calls
    BY <1>0, <1>1, MainCalls DEF CallJoin
  <2> QED
    BY <1>0, <1>1, <2>1 DEF CallJoin
<1>2. ASSUME NEW k \in Tasks, NEW p \in Priorities, CallStart(k, p) PROVE Types
  BY <1>0, <1>2, MainTypes DEF CallStart
<1>3. CASE Join
  <2>1. main' \in Calls
    BY <1>0, <1>3, MainTypes DEF Join, Calls, MainPcs
  <2>2. thread_' \in [Tasks -> Threads \cup {None}] /\ joined' \subseteq Threads
    <3>1. CASE UNCHANGED <<thread_, joined>>
      BY <1>0, <3>1
    <3>2. CASE /\ thread_[main.task] # None /\ JoinReturns(thread_[main.task])
               /\ thread_' = [thread_ EXCEPT ![main.task] = None]
               /\ joined' = joined \cup {thread_[main.task]}
      <4>1. thread_[main.task] \in Threads
        BY <1>0, <1>3, <3>2 DEF Join, BusyInv
      <4> QED
        BY <1>0, <3>2, <4>1
    <3> QED
      BY <1>3, <3>1, <3>2 DEF Join
  <2> QED
    BY <1>0, <1>3, <2>1, <2>2 DEF Join
<1>4. ASSUME NEW t \in Threads, Create(t) PROVE Types
  <2>1. main' \in Calls
    BY <1>0, <1>4, MainAssigns DEF Create, MainPcs
  <2>2. hook' \in [Threads -> Frames]
    BY <1>0, <1>4, HookCreate
  <2>3. sched' \in [Threads -> Sched]
    BY <1>0, <1>4 DEF Create, Normal, Sched, Policies
  <2> QED
    BY <1>0, <1>4, <2>1, <2>2, <2>3 DEF Create
<1>5. CASE CreateFails
  BY <1>0, <1>5, MainTypes DEF CreateFails
<1>6. CASE Assign
  <2>1. main' \in Calls
    BY <1>0, <1>6, MainAssigns DEF Assign, MainPcs
  <2>2. thread_' \in [Tasks -> Threads \cup {None}]
    BY <1>0, <1>6 DEF Assign, Calls
  <2> QED
    BY <1>0, <1>6, <2>1, <2>2 DEF Assign
<1>7. CASE Change
  <2>1. Request \in Sched
    BY <1>0 DEF Request, Sched, Policies, Calls
  <2>2. verify' \in BOOLEAN
    BY <1>0, <1>7 DEF Change, PriorityVerified
  <2>3. sched' \in [Threads -> Sched]
    BY <1>0, <1>7, <2>1 DEF Change
  <2> QED
    BY <1>0, <1>7, <2>2, <2>3, MainTypes DEF Change
<1>8. CASE MainReturn
  <2>1. verify' \in BOOLEAN
    BY <1>0, <1>8 DEF MainReturn
  <2> QED
    BY <1>0, <1>8, <2>1 DEF MainReturn
<1>9. ASSUME NEW t \in Threads, HookStep(t) PROVE Types
  <2>1. CASE HookEntry(t)
    BY <1>0, <1>c, <2>1, HookEntered DEF HookEntry
  <2>2. CASE HookStop(t)
    BY <1>0, <1>c, <2>2, HookStopped DEF HookStop
  <2>3. CASE HookStore(t)
    <3>1. hook[t] \in Frames
      BY <1>0
    <3>2. measured(t) \in Int
      BY <3>1 DEF measured, Frames
    <3>3. usec_' \in [Tasks -> Int]
      BY <1>0, <2>3, <3>2, MicrosecondsInt DEF HookStore
    <3>4. hook' \in [Threads -> Frames]
      BY <1>0, <2>3, HookMoved DEF HookStore, Pcs, Active
    <3> QED
      BY <1>0, <2>3, <3>3, <3>4 DEF HookStore
  <2>4. CASE HookCheck(t)
    <3>1. hook' \in [Threads -> Frames]
      BY <1>0, <2>4, HookMoved DEF HookCheck, Pcs
    <3> QED
      BY <1>0, <2>4, <3>1 DEF HookCheck
  <2> QED
    BY <1>9, <2>1, <2>2, <2>3, <2>4 DEF HookStep
<1>10. CASE Tick
  BY <1>0, <1>10 DEF Tick
<1>11. CASE SetClock
  BY <1>0, <1>11 DEF SetClock
<1>12. CASE UNCHANGED vars
  BY <1>0, <1>12 DEF vars
<1> QED
  BY <1>1, <1>2, <1>3, <1>4, <1>5, <1>6, <1>7, <1>8, <1>9, <1>10, <1>11, <1>12
     DEF Next, MainStep, Ended

------------------------------------------------------------------------------
(* Which thread a task represents. *)

Representation == MainInv /\ HolderInv /\ ThreadInv

\* Steps of hook() and of the clock.
LEMMA HookKeepsRepresentation ==
  ASSUME Representation, UNCHANGED <<thread_, main, joined>>,
         \A t \in Threads :
           /\ hook[t].pc = "unborn" <=> hook'[t].pc = "unborn"
           /\ hook[t].pc = "exited" => hook'[t].pc = "exited"
           /\ hook[t].task = hook'[t].task,
         TypeOK
  PROVE  Representation'
<1> USE DEF Representation
<1>1. \A k \in Tasks : Holder(k)' = Holder(k) /\ Holder(k) \in Threads \cup {None}
  BY Typed DEF Holder, Calls
<1>2. MainInv'
  BY DEF MainInv, BusyInv
<1>3. HolderInv'
  BY <1>1 DEF HolderInv
<1>4. ThreadInv'
  BY <1>1 DEF ThreadInv
<1> QED
  BY <1>2, <1>3, <1>4

\* Steps of main() that leave thread_ alone.
LEMMA MainKeepsRepresentation ==
  ASSUME Representation, UNCHANGED <<thread_, hook, joined>>,
         main.pc # "assign", main'.pc # "assign", MainInv'
  PROVE  Representation'
<1> USE DEF Representation
<1>1. \A k \in Tasks : Holder(k)' = Holder(k)
  BY DEF Holder
<1>2. HolderInv'
  BY <1>1 DEF HolderInv
<1>3. ThreadInv'
  BY <1>1 DEF ThreadInv
<1> QED
  BY <1>2, <1>3

LEMMA CallsRepresentation ==
  ASSUME TypeOK, Representation, NEW k \in Tasks,
         CallJoin(k) \/ \E p \in Priorities : CallStart(k, p)
  PROVE  Representation'
<1> USE DEF Representation
<1>1. main'.pc = "join" /\ main'.task = k /\ main'.temp = None
  <2>1. CASE CallJoin(k)
    BY <2>1, MainCalls DEF CallJoin, JoinOf
  <2>2. CASE \E p \in Priorities : CallStart(k, p)
    BY <2>2 DEF CallStart, SpawnEntry
  <2> QED
    BY <2>1, <2>2
<1>2. main.pc = "idle" /\ UNCHANGED <<thread_, hook, joined>>
  BY DEF CallJoin, CallStart
<1>3. MainInv'
  BY <1>1 DEF MainInv, BusyInv
<1> QED
  BY <1>1, <1>2, <1>3, MainKeepsRepresentation

LEMMA JoinRepresentation ==
  ASSUME TypeOK, Representation, Join
  PROVE  Representation'
<1> USE DEF Representation
<1>k. PICK k \in Tasks : k = main.task
  BY DEF Join, MainInv, BusyInv
<1>t. PICK t : t = thread_[k]
  OBVIOUS
<1>1. main.pc = "join" /\ main.temp = None /\ UNCHANGED hook
  BY DEF Join, MainInv, BusyInv
<1>2. /\ main'.pc \in {"idle", "create"} /\ main'.temp = None
      /\ main'.pc # "idle" => main'.task = k
  BY <1>1, <1>k, Typed DEF Join, Idle, Calls
<1>3. CASE t = None /\ UNCHANGED <<thread_, joined>>
  <2>1. MainInv'
    BY <1>1, <1>2, <1>3, <1>t DEF MainInv, BusyInv
  <2> QED
    BY <1>1, <1>2, <1>3, <2>1, MainKeepsRepresentation
<1>4. CASE /\ t # None /\ JoinReturns(t)
           /\ thread_' = [thread_ EXCEPT ![k] = None]
           /\ joined' = joined \cup {t}
  <2>1. Holder(k) = t /\ hook[t].pc = "exited" /\ hook[t].task = k
    BY <1>1, <1>4, <1>t DEF Holder, HolderInv, JoinReturns
  <2>2. thread_'[k] = None /\ Holder(k)' = None
    BY <1>1, <1>2, <1>4, Typed DEF Holder
  <2>3. \A j \in Tasks : j # k => Holder(j)' = Holder(j)
    BY <1>1, <1>2, <1>4, Typed DEF Holder
  <2>4. MainInv'
    BY <1>1, <1>2, <2>2 DEF MainInv, BusyInv
  <2>5. HolderInv'
    <3>1. ASSUME NEW j \in Tasks, j # k, Holder(j) # None
          PROVE  Holder(j) # t /\ Holder(j) \notin joined
      BY <2>1, <3>1 DEF HolderInv
    <3> QED
      BY <1>1, <1>4, <2>2, <2>3, <3>1 DEF HolderInv
  <2>6. ThreadInv'
    <3>1. ASSUME NEW u \in Threads, u # t, hook[u].pc # "unborn", u \notin joined
          PROVE  Holder(hook[u].task)' = u
      <4>1. hook[u].task \in Tasks /\ Holder(hook[u].task) = u
        BY <3>1 DEF ThreadInv
      <4>2. hook[u].task # k
        BY <2>1, <3>1, <4>1
      <4> QED
        BY <1>1, <2>3, <4>1, <4>2
    <3> QED
      BY <1>1, <1>4, <2>1, <3>1 DEF ThreadInv
  <2> QED
    BY <2>4, <2>5, <2>6
<1> QED
  BY <1>3, <1>4, <1>k, <1>t DEF Join, JoinSkips

LEMMA CreateRepresentation ==
  ASSUME TypeOK, Representation, NEW t \in Threads, Create(t)
  PROVE  Representation'
<1> USE DEF Representation
<1>k. PICK k \in Tasks : k = main.task
  BY DEF Create, MainInv, BusyInv
<1>1. main.pc = "create" /\ thread_[k] = None /\ main.temp = None
  BY <1>k DEF Create, MainInv
<1>2. hook[t].pc = "unborn" /\ UNCHANGED <<thread_, joined>>
  BY DEF Create
<1>3. main'.pc = "assign" /\ main'.temp = t /\ main'.task = k
  BY <1>k, Typed, MainAssigns DEF Create, MainPcs
<1>4. /\ hook'[t].pc = "entry" /\ hook'[t].task = k
      /\ \A u \in Threads : u # t => hook'[u] = hook[u]
  BY <1>k, Typed, HookCreate
<1>5. Holder(k)' = t /\ Holder(k) = None /\ \A j \in Tasks : j # k => Holder(j)' = Holder(j)
  BY <1>1, <1>2, <1>3 DEF Holder
<1>6. \A j \in Tasks : Holder(j) \in Threads \cup {None}
  BY <1>1, Typed DEF Holder
<1>7. t \notin joined
  BY <1>2 DEF ThreadInv
<1>8. MainInv'
  BY <1>1, <1>2, <1>3 DEF MainInv, BusyInv
<1>9. HolderInv'
  <2>1. \A j \in Tasks : Holder(j) # None => Holder(j) # t
    BY <1>2 DEF HolderInv
  <2> QED
    BY <1>2, <1>4, <1>5, <1>6, <1>7, <2>1 DEF HolderInv
<1>10. ThreadInv'
  <2>1. ASSUME NEW u \in Threads, u # t, hook[u].pc # "unborn", u \notin joined
        PROVE  Holder(hook[u].task)' = u
    <3>1. hook[u].task \in Tasks /\ Holder(hook[u].task) = u
      BY <2>1 DEF ThreadInv
    <3>2. hook[u].task # k
      BY <1>5, <2>1, <3>1
    <3> QED
      BY <1>4, <1>5, <2>1, <3>1, <3>2
  <2> QED
    BY <1>1, <1>2, <1>4, <1>5, <1>7, <2>1 DEF ThreadInv
<1> QED
  BY <1>8, <1>9, <1>10

LEMMA AssignRepresentation ==
  ASSUME TypeOK, Representation, Assign
  PROVE  Representation' /\ process' = process /\ \A k \in Tasks : Holder(k)' = Holder(k)
<1> DEFINE k == main.task
<1> USE DEF Representation
<1>1. main.pc = "assign" /\ k \in Tasks /\ thread_[k] = None /\ main.temp # None
  BY DEF Assign, MainInv, BusyInv
<1>2. /\ thread_' = [thread_ EXCEPT ![k] = main.temp]
      /\ main' = [main EXCEPT !.pc = "change", !.temp = None]
      /\ UNCHANGED <<hook, joined, process>>
  BY <1>1 DEF Assign
<1>3. main'.pc = "change" /\ main'.temp = None /\ main'.task = k
  BY <1>2, Typed, MainAssigns DEF MainPcs
<1>4. thread_'[k] = main.temp /\ \A j \in Tasks : j # k => thread_'[j] = thread_[j]
  BY <1>1, <1>2, Typed
<1>5. \A j \in Tasks : Holder(j)' = Holder(j)
  BY <1>1, <1>3, <1>4 DEF Holder
<1>6. MainInv'
  BY <1>1, <1>3, <1>4 DEF MainInv, BusyInv
<1>7. HolderInv' /\ ThreadInv'
  BY <1>2, <1>5 DEF HolderInv, ThreadInv
<1> QED
  BY <1>2, <1>5, <1>6, <1>7

\* What a step does to one thread at most.
LEMMA HookStepMoves ==
  ASSUME TypeOK, NEW t \in Threads, HookStep(t)
  PROVE  /\ UNCHANGED <<thread_, main, joined>>
         /\ \A u \in Threads :
              /\ hook[u].pc = "unborn" <=> hook'[u].pc = "unborn"
              /\ hook[u].pc = "exited" => hook'[u].pc = "exited"
              /\ hook[u].task = hook'[u].task
<1>0. hook \in [Threads -> Frames] /\ clock \in Int /\ offset \in Int
  BY Typed
<1>1. CASE HookEntry(t)
  BY <1>0, <1>1, HookEntered DEF HookEntry
<1>2. CASE HookStop(t)
  BY <1>0, <1>2, HookStopped DEF HookStop
<1>3. CASE HookStore(t)
  <2>1. hook'[t].pc = "check" /\ hook'[t].task = hook[t].task
        /\ \A u \in Threads : u # t => hook'[u] = hook[u]
    BY <1>0, <1>3, HookMoved DEF HookStore, Pcs, Active
  <2> QED
    BY <1>3, <2>1 DEF HookStore
<1>4. CASE HookCheck(t)
  <2>1. CASE UNCHANGED hook
    BY <1>4, <2>1 DEF HookCheck
  <2>2. CASE hook' = [hook EXCEPT ![t].pc = "exited"]
    <3>1. hook'[t].pc = "exited" /\ hook'[t].task = hook[t].task
          /\ \A u \in Threads : u # t => hook'[u] = hook[u]
      BY <1>0, <2>2, HookMoved DEF Pcs
    <3> QED
      BY <1>4, <3>1 DEF HookCheck
  <2> QED
    BY <1>4, <2>1, <2>2 DEF HookCheck
<1> QED
  BY <1>1, <1>2, <1>3, <1>4 DEF HookStep

LEMMA NextRepresentation ==
  TypeOK /\ Representation /\ [Next]_vars => Representation'
<1> SUFFICES ASSUME TypeOK, Representation, [Next]_vars PROVE Representation'
  OBVIOUS
<1>1. ASSUME NEW k \in Tasks, CallJoin(k) \/ \E p \in Priorities : CallStart(k, p)
      PROVE  Representation'
  BY <1>1, CallsRepresentation
<1>2. CASE Join
  BY <1>2, JoinRepresentation
<1>3. ASSUME NEW t \in Threads, Create(t) PROVE Representation'
  BY <1>3, CreateRepresentation
<1>4. CASE Assign
  BY <1>4, AssignRepresentation
<1>5. CASE CreateFails \/ Change
  <2>1. /\ main.pc \in {"create", "change"} /\ UNCHANGED <<thread_, hook, joined>>
        /\ main' \in {main, Idle}
    BY <1>5 DEF CreateFails, Change
  <2>2. MainInv'
    BY <2>1 DEF MainInv, BusyInv, Representation, Idle
  <2> QED
    BY <2>1, <2>2, MainKeepsRepresentation DEF Idle
<1>6. CASE MainReturn
  <2>1. MainInv'
    BY <1>6 DEF MainReturn, MainInv, BusyInv, Representation
  <2> QED
    BY <1>6, <2>1, MainKeepsRepresentation DEF MainReturn
<1>7. ASSUME NEW t \in Threads, HookStep(t) PROVE Representation'
  BY <1>7, HookStepMoves, HookKeepsRepresentation
<1>8. CASE Tick \/ SetClock \/ UNCHANGED vars
  BY <1>8, HookKeepsRepresentation DEF Tick, SetClock, vars
<1> QED
  BY <1>1, <1>2, <1>3, <1>4, <1>5, <1>6, <1>7, <1>8 DEF Next, MainStep, Ended

------------------------------------------------------------------------------
(* What the threads measured. *)

\* TimeInv, OrderInv and UsecInv for the thread of a step; the clocks may go on.
LEMMA TimeFrame ==
  ASSUME TypeOK, TimeInv, hook' = hook, clock' \in Nat, clock <= clock'
  PROVE  TimeInv'
<1>1. hook \in [Threads -> Frames] /\ clock \in Int
  BY Typed
<1>2. \A t \in Threads : hook[t].began \in Int /\ hook[t].ended \in Int
  BY <1>1 DEF Frames
<1>3. ASSUME NEW t \in Threads
      PROVE  /\ hook[t].pc = "run" => hook[t].began <= clock'
             /\ hook[t].pc \in {"stop", "check", "exited"} => hook[t].ended <= clock'
  BY <1>1, <1>2 DEF TimeInv
<1> QED
  BY <1>3 DEF TimeInv, measured, Late

LEMMA CreateTime ==
  ASSUME TypeOK, TimeInv, NEW t \in Threads, Create(t)
  PROVE  TimeInv'
<1>1. /\ hook'[t].pc = "entry" /\ \A u \in Threads : u # t => hook'[u] = hook[u]
  BY Typed, HookCreate
<1>2. UNCHANGED <<clock, offset>>
  BY DEF Create
<1> QED
  BY <1>1, <1>2 DEF TimeInv, measured, Late

LEMMA HookTime ==
  ASSUME TypeOK, TimeInv, NEW t \in Threads, HookStep(t)
  PROVE  TimeInv'
<1>0. hook \in [Threads -> Frames] /\ clock \in Nat /\ offset \in Int /\ clock \in Int
  BY Typed
<1>1. CASE HookEntry(t)
  <2>1. /\ hook'[t].pc = "run" /\ hook'[t].start = now /\ hook'[t].began = clock
        /\ \A u \in Threads : u # t => hook'[u] = hook[u]
    BY <1>0, <1>1, HookEntered
  <2>2. UNCHANGED <<clock, offset>>
    BY <1>1 DEF HookEntry
  <2> QED
    BY <1>0, <2>1, <2>2 DEF TimeInv, measured, Late, now
<1>2. CASE HookStop(t)
  <2>1. /\ hook'[t].pc = "stop" /\ hook'[t].start = hook[t].start
        /\ hook'[t].began = hook[t].began /\ hook'[t].stop = now /\ hook'[t].ended = clock
        /\ \A u \in Threads : u # t => hook'[u] = hook[u]
    BY <1>0, <1>2, HookStopped
  <2>2. UNCHANGED <<clock, offset>> /\ hook[t].pc = "run"
    BY <1>2 DEF HookStop
  <2>3. hook'[t].began <= hook'[t].ended /\ hook'[t].ended <= clock'
    BY <1>0, <2>1, <2>2 DEF TimeInv
  <2> QED
    BY <2>1, <2>2, <2>3 DEF TimeInv, measured, Late
<1>3. CASE HookStore(t)
  <2>1. /\ hook'[t].pc = "check"
        /\ hook'[t].start = hook[t].start /\ hook'[t].began = hook[t].began
        /\ hook'[t].stop = hook[t].stop /\ hook'[t].ended = hook[t].ended
        /\ \A u \in Threads : u # t => hook'[u] = hook[u]
    BY <1>0, <1>3, HookMoved DEF HookStore, Pcs, Active
  <2>2. UNCHANGED <<clock, offset>> /\ hook[t].pc = "stop"
    BY <1>3 DEF HookStore
  <2> QED
    BY <2>1, <2>2 DEF TimeInv, measured, Late
<1>4. CASE HookCheck(t) /\ hook' # hook
  <2>1. /\ hook'[t].pc = "exited"
        /\ hook'[t].start = hook[t].start /\ hook'[t].began = hook[t].began
        /\ hook'[t].stop = hook[t].stop /\ hook'[t].ended = hook[t].ended
        /\ \A u \in Threads : u # t => hook'[u] = hook[u]
    BY <1>0, <1>4, HookMoved DEF HookCheck, Pcs
  <2>2. UNCHANGED <<clock, offset>> /\ hook[t].pc = "check" /\ ~Late(t)
    BY <1>4 DEF HookCheck
  <2> QED
    BY <2>1, <2>2 DEF TimeInv, measured, Late
<1>5. CASE HookCheck(t) /\ hook' = hook
  BY <1>0, <1>5, TimeFrame DEF HookCheck
<1> QED
  BY <1>1, <1>2, <1>3, <1>4, <1>5 DEF HookStep

LEMMA NextTime == TypeOK /\ TimeInv /\ [Next]_vars => TimeInv'
<1> SUFFICES ASSUME TypeOK, TimeInv, [Next]_vars PROVE TimeInv'
  OBVIOUS
<1>0. clock \in Nat /\ offset \in Int
  BY Typed
<1>1. CASE hook' = hook /\ clock' = clock /\ offset' = offset
  BY <1>0, <1>1, TimeFrame
<1>2. ASSUME NEW t \in Threads, Create(t) PROVE TimeInv'
  BY <1>2, CreateTime
<1>3. ASSUME NEW t \in Threads, HookStep(t) PROVE TimeInv'
  BY <1>3, HookTime
<1>4. CASE Tick
  BY <1>0, <1>4, TimeFrame DEF Tick
<1>5. CASE SetClock
  BY <1>0, <1>5, TimeFrame DEF SetClock
<1> QED
  BY <1>1, <1>2, <1>3, <1>4, <1>5
     DEF Next, MainStep, CallJoin, CallStart, Join, CreateFails, Assign, Change, MainReturn,
         Ended, vars

\* While a thread executes hook(), the others of its task have exited.
LEMMA OthersExited ==
  ASSUME Representation, NEW t \in Threads, hook[t].pc \in Active
  PROVE  \A u \in Threads :
           hook[u].pc # "unborn" /\ hook[u].task = hook[t].task /\ u # t =>
             hook[u].pc = "exited"
  BY DEF Representation, ThreadInv, Active

LEMMA NextOrder ==
  TypeOK /\ Representation /\ TimeInv /\ OrderInv /\ [Next]_vars => OrderInv'
<1> SUFFICES ASSUME TypeOK, Representation, TimeInv, OrderInv, [Next]_vars PROVE OrderInv'
  OBVIOUS
<1>0. hook \in [Threads -> Frames] /\ clock \in Int /\ offset \in Int
  BY Typed
<1>1. CASE hook' = hook
  BY <1>1 DEF OrderInv, Stored
<1>2. ASSUME NEW t \in Threads, Create(t) PROVE OrderInv'
  <2>1. hook'[t].pc = "entry" /\ \A u \in Threads : u # t => hook'[u] = hook[u]
    BY <1>0, <1>2, Typed, HookCreate
  <2> QED
    BY <2>1 DEF OrderInv, Stored
<1>3. ASSUME NEW t \in Threads, HookEntry(t) PROVE OrderInv'
  <2>1. /\ hook'[t].pc = "run" /\ hook'[t].began = clock /\ hook'[t].task = hook[t].task
        /\ \A u \in Threads : u # t => hook'[u] = hook[u]
    BY <1>0, <1>3, HookEntered
  <2>2. \A u \in Threads : Stored(u) => hook[u].ended <= clock
    BY DEF Stored, TimeInv
  <2> QED
    BY <2>1, <2>2 DEF OrderInv, Stored
<1>4. ASSUME NEW t \in Threads, HookStop(t) PROVE OrderInv'
  <2>1. /\ hook'[t].pc = "stop" /\ hook'[t].began = hook[t].began
        /\ hook'[t].task = hook[t].task
        /\ \A u \in Threads : u # t => hook'[u] = hook[u]
    BY <1>0, <1>4, HookStopped
  <2>2. hook[t].pc = "run"
    BY <1>4 DEF HookStop
  <2>3. ASSUME NEW v \in Threads, NEW u \in Threads, hook'[v].pc \in {"run", "stop"},
               Stored(u)', hook'[u].task = hook'[v].task
        PROVE  hook'[u].ended <= hook'[v].began
    <3>1. u # t /\ hook'[u] = hook[u]
      BY <2>1, <2>3 DEF Stored
    <3>2. /\ hook[v].pc \in {"run", "stop"} /\ hook'[v].began = hook[v].began
          /\ hook'[v].task = hook[v].task
      BY <2>1, <2>2, <2>3
    <3> QED
      BY <2>3, <3>1, <3>2 DEF OrderInv, Stored
  <2> QED
    BY <2>3 DEF OrderInv
<1>5. ASSUME NEW t \in Threads, HookStore(t) PROVE OrderInv'
  <2>1. /\ hook'[t].pc = "check" /\ hook'[t].task = hook[t].task
        /\ \A u \in Threads : u # t => hook'[u] = hook[u]
    BY <1>0, <1>5, HookMoved DEF HookStore, Pcs, Active
  <2>2. \A u \in Threads :
          hook[u].pc \in {"run", "stop"} /\ u # t => hook[u].task # hook[t].task
    BY <1>5, OthersExited DEF HookStore, Active
  <2> QED
    BY <2>1, <2>2 DEF OrderInv, Stored
<1>6. ASSUME NEW t \in Threads, HookCheck(t), hook' # hook PROVE OrderInv'
  <2>1. /\ hook'[t].pc = "exited" /\ hook'[t].task = hook[t].task
        /\ hook'[t].ended = hook[t].ended
        /\ \A u \in Threads : u # t => hook'[u] = hook[u]
    BY <1>0, <1>6, HookMoved DEF HookCheck, Pcs
  <2>2. Stored(t)
    BY <1>6 DEF HookCheck, Stored
  <2> QED
    BY <2>1, <2>2 DEF OrderInv, Stored
<1> QED
  BY <1>1, <1>2, <1>3, <1>4, <1>5, <1>6
     DEF Next, MainStep, HookStep, CallJoin, CallStart, Join, CreateFails, Assign, Change,
         MainReturn, Tick, SetClock, Ended, vars

\* t is the last of the threads of its task that have stored, and usec_ is its.
Measured(k, t) ==
  /\ t \in Spawned(k) /\ Stored(t) /\ usec_[k] = microseconds(measured(t))
  /\ \A u \in Spawned(k) :
       Stored(u) => hook[u].began <= hook[t].began /\ hook[u].ended <= hook[t].ended

\* A step in which no thread stores keeps it.
LEMMA UsecFrame ==
  ASSUME UsecInv, usec_' = usec_,
         \A t \in Threads :
           /\ Stored(t)' <=> Stored(t)
           /\ Stored(t) => /\ hook'[t].task = hook[t].task
                           /\ hook'[t].began = hook[t].began /\ hook'[t].ended = hook[t].ended
                           /\ hook'[t].start = hook[t].start /\ hook'[t].stop = hook[t].stop
  PROVE  UsecInv'
<1> SUFFICES ASSUME NEW k \in Tasks, NEW s \in Threads, (s \in Spawned(k) /\ Stored(s))'
             PROVE  \E t \in Threads : Measured(k, t)'
  BY DEF UsecInv, Measured, Spawned
<1>1. \A t \in Threads : (t \in Spawned(k) /\ Stored(t))' <=> t \in Spawned(k) /\ Stored(t)
  BY DEF Spawned, Stored
<1>2. PICK t \in Threads : Measured(k, t)
  BY <1>1 DEF UsecInv, Measured, Spawned
<1>3. Measured(k, t)'
  BY <1>1, <1>2 DEF Measured, measured, Spawned
<1> QED
  BY <1>3

LEMMA StoreUsec ==
  ASSUME TypeOK, Representation, TimeInv, OrderInv, UsecInv,
         NEW t \in Threads, HookStore(t)
  PROVE  UsecInv'
<1>0. hook \in [Threads -> Frames] /\ usec_ \in [Tasks -> Int]
  BY Typed
<1>1. /\ hook'[t].pc = "check" /\ hook'[t].task = hook[t].task
      /\ hook'[t].start = hook[t].start /\ hook'[t].began = hook[t].began
      /\ hook'[t].stop = hook[t].stop /\ hook'[t].ended = hook[t].ended
      /\ \A u \in Threads : u # t => hook'[u] = hook[u]
  BY <1>0, HookMoved DEF HookStore, Pcs, Active
<1>2. PICK k \in Tasks : k = hook[t].task
  BY DEF HookStore, Representation, ThreadInv
<1>3. usec_'[k] = microseconds(measured(t)) /\ \A j \in Tasks : j # k => usec_'[j] = usec_[j]
  BY <1>0, <1>2 DEF HookStore
<1>4. hook[t].pc = "stop"
  BY DEF HookStore
<1> SUFFICES ASSUME NEW j \in Tasks, NEW s \in Threads, (s \in Spawned(j) /\ Stored(s))'
             PROVE  \E u \in Threads : Measured(j, u)'
  BY DEF UsecInv, Measured, Spawned
<1>5. CASE j = k
  <2>1. \A u \in Spawned(k) : u # t => hook[u].pc = "exited"
    BY <1>2, <1>4, OthersExited DEF Spawned, Active
  <2>2. \A u \in Spawned(k) : u # t => hook[u].ended <= hook[t].began
    BY <1>2, <1>4, <2>1 DEF OrderInv, Stored, Spawned
  <2>3. \A u \in Threads : /\ hook[u].began \in Int /\ hook[u].ended \in Int
    BY <1>0 DEF Frames
  <2>4. \A u \in Spawned(k) : /\ hook[u].began <= hook[t].began
                              /\ hook[u].ended <= hook[t].ended
    BY <1>4, <2>1, <2>2, <2>3 DEF TimeInv, Spawned
  <2>5. \A u \in Threads : (u \in Spawned(k))' <=> u \in Spawned(k)
    BY <1>1, <1>4 DEF Spawned
  <2>6. t \in Spawned(k)
    BY <1>2, <1>4 DEF Spawned
  <2>7. measured(t)' = measured(t)
    BY <1>1 DEF measured
  <2>8. Measured(k, t)'
    BY <1>1, <1>3, <2>4, <2>5, <2>6, <2>7 DEF Measured, Stored, Spawned, microseconds
  <2> QED
    BY <1>5, <2>8
<1>6. CASE j # k
  <2>1. \A u \in Threads : (u \in Spawned(j))' <=> u \in Spawned(j)
    BY <1>1, <1>4 DEF Spawned
  <2>2. \A u \in Spawned(j) : u # t /\ hook'[u] = hook[u]
    BY <1>1, <1>2, <1>6 DEF Spawned
  <2>3. PICK u \in Spawned(j) : Measured(j, u)
    BY <2>1, <2>2 DEF UsecInv, Measured, Stored
  <2>4. Measured(j, u)'
    BY <1>3, <1>6, <2>1, <2>2, <2>3 DEF Measured, Stored, measured, Spawned, microseconds
  <2> QED
    BY <2>4 DEF Spawned
<1> QED
  BY <1>5, <1>6

LEMMA NextUsec ==
  /\ TypeOK /\ Representation /\ TimeInv /\ OrderInv /\ UsecInv
  /\ [Next]_vars
  => UsecInv'
<1> SUFFICES ASSUME TypeOK, Representation, TimeInv, OrderInv, UsecInv, [Next]_vars
             PROVE  UsecInv'
  OBVIOUS
<1>0. hook \in [Threads -> Frames] /\ clock \in Int /\ offset \in Int
  BY Typed
<1>1. CASE hook' = hook /\ usec_' = usec_
  BY <1>1, UsecFrame DEF Stored
<1>2. ASSUME NEW t \in Threads, Create(t) PROVE UsecInv'
  <2>1. /\ hook'[t].pc = "entry" /\ hook[t].pc = "unborn" /\ usec_' = usec_
        /\ \A u \in Threads : u # t => hook'[u] = hook[u]
    BY <1>0, <1>2, Typed, HookCreate DEF Create
  <2> QED
    BY <2>1, UsecFrame DEF Stored
<1>3. ASSUME NEW t \in Threads, HookEntry(t) PROVE UsecInv'
  <2>1. /\ hook'[t].pc = "run" /\ hook[t].pc = "entry" /\ usec_' = usec_
        /\ \A u \in Threads : u # t => hook'[u] = hook[u]
    BY <1>0, <1>3, HookEntered DEF HookEntry
  <2> QED
    BY <2>1, UsecFrame DEF Stored
<1>4. ASSUME NEW t \in Threads, HookStop(t) PROVE UsecInv'
  <2>1. /\ hook'[t].pc = "stop" /\ hook[t].pc = "run" /\ usec_' = usec_
        /\ \A u \in Threads : u # t => hook'[u] = hook[u]
    BY <1>0, <1>4, HookStopped DEF HookStop
  <2> QED
    BY <2>1, UsecFrame DEF Stored
<1>5. ASSUME NEW t \in Threads, HookStore(t) PROVE UsecInv'
  BY <1>5, StoreUsec
<1>6. ASSUME NEW t \in Threads, HookCheck(t), hook' # hook PROVE UsecInv'
  <2>1. /\ hook'[t].pc = "exited" /\ hook[t].pc = "check" /\ usec_' = usec_
        /\ hook'[t].task = hook[t].task
        /\ hook'[t].start = hook[t].start /\ hook'[t].began = hook[t].began
        /\ hook'[t].stop = hook[t].stop /\ hook'[t].ended = hook[t].ended
        /\ \A u \in Threads : u # t => hook'[u] = hook[u]
    BY <1>0, <1>6, HookMoved DEF HookCheck, Pcs
  <2> QED
    BY <2>1, UsecFrame DEF Stored
<1>7. ASSUME NEW t \in Threads, HookCheck(t) PROVE hook' # hook \/ usec_' = usec_
  BY <1>7 DEF HookCheck
<1> QED
  BY <1>1, <1>2, <1>3, <1>4, <1>5, <1>6, <1>7
     DEF Next, MainStep, HookStep, CallJoin, CallStart, Join, CreateFails, Assign, Change,
         MainReturn, Tick, SetClock, Ended, vars

------------------------------------------------------------------------------
(* How the process ends. *)

\* A process that has ended stays as it is.
LEMMA EndedStays == [Next]_vars /\ process # "running" => UNCHANGED vars
  BY DEF Next, MainStep, HookStep, CallJoin, CallStart, Join, Create, CreateFails, Assign,
         Change, MainReturn, HookEntry, HookStop, HookStore, HookCheck, Tick, SetClock,
         Ended

\* Only these steps end it.
LEMMA WhoEnds ==
  [Next]_vars /\ process = "running" /\ process' # "running"
    => Assign \/ Change \/ MainReturn \/ \E t \in Threads : HookCheck(t)
  BY DEF Next, MainStep, HookStep, CallJoin, CallStart, Join, Create, CreateFails,
         HookEntry, HookStop, HookStore, Tick, SetClock, Ended, vars

\* The time that a late thread measured has really passed, or the clock was set.
LEMMA LateIsLate ==
  ASSUME TypeOK, NEW t \in Threads, Late(t)
  PROVE  SetForward(t) \/ hook[t].ended - hook[t].began > Us * TicksPerUs
<1>1. hook[t] \in Frames /\ Us * TicksPerUs \in Int
  BY Typed
<1>2. /\ hook[t].start \in Int /\ hook[t].stop \in Int
      /\ hook[t].began \in Int /\ hook[t].ended \in Int
  BY <1>1 DEF Frames
<1> QED
  BY <1>1, <1>2 DEF Late, SetForward, measured

LEMMA NextEnd ==
  /\ TypeOK /\ Representation /\ TimeInv /\ QuitJustified /\ CleanReturn
  /\ [Next]_vars
  => QuitJustified' /\ CleanReturn'
<1> SUFFICES ASSUME TypeOK, Representation, TimeInv, QuitJustified, CleanReturn, [Next]_vars
             PROVE  QuitJustified' /\ CleanReturn'
  OBVIOUS
<1>1. CASE process # "running"
  BY <1>1, EndedStays
     DEF vars, QuitJustified, CleanReturn, Uncollected, Spawned, Request, SetForward, measured
<1>2. CASE process' = "running"
  BY <1>2 DEF QuitJustified, CleanReturn
<1>3. CASE Assign
  BY <1>2, <1>3, AssignRepresentation DEF QuitJustified, CleanReturn, Assign
<1>4. CASE Change /\ process' # "running"
  <2>1. main.pc = "change" /\ main' = main /\ process' = "quick_exit"
        /\ errnum \in {"EINVAL", "EPERM"}
    BY <1>4 DEF Change
  <2>2. ~(ValidPriority(Request) /\ Permitted(Request))
    BY <2>1 DEF errnum, setschedparam
  <2> QED
    BY <2>1, <2>2 DEF QuitJustified, CleanReturn, Request, ValidPriority, Permitted
<1>5. CASE MainReturn /\ process' # "running"
  <2>1. process' \in {"terminated", "exited"} /\ UNCHANGED <<thread_, main, hook, joined>>
        /\ main.pc = "idle"
    BY <1>5 DEF MainReturn
  <2>2. process' = "exited" => \A k \in Tasks : Holder(k) = None
    BY <1>5, <2>1 DEF MainReturn, Holder
  <2>3. \A k \in Tasks : Holder(k) = None => Uncollected(k) = {}
    <3>1. ASSUME NEW k \in Tasks, NEW t \in Uncollected(k) PROVE Holder(k) = t
      BY <3>1 DEF Uncollected, Spawned, Representation, ThreadInv, Active
    <3>2. \A k \in Tasks : Uncollected(k) \subseteq Threads
      BY DEF Uncollected, Spawned
    <3> QED
      BY <3>1, <3>2
  <2> QED
    BY <2>1, <2>2, <2>3 DEF QuitJustified, CleanReturn, Uncollected, Spawned
<1>6. ASSUME NEW t \in Threads, HookCheck(t), process' # "running"
      PROVE  QuitJustified' /\ CleanReturn'
  <2>1. process' = "quick_exit" /\ Late(t) /\ UNCHANGED hook /\ hook[t].pc = "check"
    BY <1>6 DEF HookCheck
  <2>2. SetForward(t) \/ hook[t].ended - hook[t].began > Us * TicksPerUs
    BY <2>1, LateIsLate
  <2> QED
    BY <2>1, <2>2 DEF QuitJustified, CleanReturn, SetForward, measured
<1> QED
  BY <1>1, <1>2, <1>3, <1>4, <1>5, <1>6, WhoEnds

------------------------------------------------------------------------------

LEMMA InitTask == Init => TaskInv
<1> SUFFICES ASSUME Init PROVE TaskInv
  OBVIOUS
<1>1. TypeOK
  BY InitTypes
<1>2. \A t \in Threads : hook[t].pc = "unborn"
  BY DEF Init, Unborn
<1>3. main.pc = "idle" /\ main.temp = None /\ joined = {} /\ \A k \in Tasks : thread_[k] = None
  BY DEF Init, Idle
<1>4. MainInv /\ HolderInv /\ ThreadInv
  BY <1>2, <1>3 DEF MainInv, BusyInv, HolderInv, ThreadInv, Holder
<1>5. TimeInv /\ OrderInv /\ UsecInv
  BY <1>2 DEF TimeInv, OrderInv, UsecInv, Stored, Spawned
<1>6. QuitJustified /\ CleanReturn
  BY DEF Init, QuitJustified, CleanReturn
<1> QED
  BY <1>1, <1>4, <1>5, <1>6 DEF TaskInv

LEMMA NextTask == TaskInv /\ [Next]_vars => TaskInv'
<1> SUFFICES ASSUME TaskInv, [Next]_vars PROVE TaskInv'
  OBVIOUS
<1>1. TypeOK /\ Representation /\ BusyInv
  BY DEF TaskInv, Representation, MainInv
<1>2. TypeOK'
  BY <1>1, NextTypes
<1>3. Representation'
  BY <1>1, NextRepresentation
<1>4. TimeInv' /\ OrderInv' /\ UsecInv'
  BY <1>1, NextTime, NextOrder, NextUsec DEF TaskInv
<1>5. QuitJustified' /\ CleanReturn'
  BY <1>1, NextEnd DEF TaskInv
<1> QED
  BY <1>2, <1>3, <1>4, <1>5 DEF TaskInv, Representation

LEMMA TaskInvariant == Spec => []TaskInv
  BY InitTask, NextTask, PTL DEF Spec

------------------------------------------------------------------------------
(* The properties. *)

\* A thread that is not collected is the one that its task represents.
LEMMA OnlyHolder ==
  ASSUME Representation, NEW k \in Tasks
  PROVE  /\ Holder(k) = None => Uncollected(k) = {}
         /\ Holder(k) \in Threads => Uncollected(k) = {Holder(k)}
<1>1. \A t \in Uncollected(k) : t = Holder(k) /\ t \in Threads
  BY DEF Uncollected, Spawned, Representation, ThreadInv, Active
<1>2. Holder(k) \in Threads => Holder(k) \in Uncollected(k)
  BY DEF Uncollected, Spawned, Representation, HolderInv
<1> QED
  BY <1>1, <1>2

LEMMA HolderType == ASSUME TypeOK, NEW k \in Tasks PROVE Holder(k) \in Threads \cup {None}
  BY Typed DEF Holder, Calls

\* Every variable of CriticalTask keeps its type.
THEOREM TaskTypeCorrect == Spec => []TypeOK
<1>1. TaskInv => TypeOK
  BY DEF TaskInv
<1> QED
  BY <1>1, TaskInvariant, PTL

\* start() never lets two threads of one task execute hook() (task.h:56, 159).
THEOREM HooksAreSerial == Spec => []OneHookPerTask
<1>1. TaskInv => OneHookPerTask
  <2> SUFFICES ASSUME TaskInv, NEW k \in Tasks PROVE Cardinality(Uncollected(k)) <= 1
    BY DEF OneHookPerTask
  <2>1. Uncollected(k) = {} \/ Uncollected(k) = {Holder(k)}
    BY OnlyHolder, HolderType DEF TaskInv, Representation
  <2> QED
    <3>1. Cardinality({}) = 0 /\ Cardinality({Holder(k)}) = 1
      BY Zenon, FS_EmptySet, FS_Singleton
    <3> QED
      BY <2>1, <3>1
<1> QED
  BY <1>1, TaskInvariant, PTL

\* A thread that got past hook() was no longer in run() than the task may be, to the
\* tick, if the clock was not set (task.h:136, 235-245).
THEOREM DeadlinesHold == Spec => []DeadlineEnforced
<1>1. TaskInv => DeadlineEnforced
  <2> SUFFICES ASSUME TaskInv, NEW t \in Threads, hook[t].pc = "exited", Undisturbed(t)
               PROVE  hook[t].ended - hook[t].began <= Us * TicksPerUs
    BY DEF DeadlineEnforced
  <2>1. hook[t] \in Frames /\ Us * TicksPerUs \in Int
    BY Typed DEF TaskInv
  <2>2. hook[t].start \in Int /\ hook[t].stop \in Int
    BY <2>1 DEF Frames
  <2>3. ~(hook[t].stop > hook[t].start + Us * TicksPerUs)
    BY DEF TaskInv, TimeInv, Late
  <2> QED
    BY <2>1, <2>2, <2>3 DEF Undisturbed, measured
<1> QED
  BY <1>1, TaskInvariant, PTL

\* The process quits only for a run() that was really too long, if the clock was not
\* set forward, or for a refused request (task.h:243-244, thread.h:131-139).
THEOREM QuitsAreJustified == Spec => []QuitJustified
<1>1. TaskInv => QuitJustified
  BY DEF TaskInv
<1> QED
  BY <1>1, TaskInvariant, PTL

\* A program that returns from main() leaves no thread behind that uses a task.
THEOREM ReturnIsClean == Spec => []CleanReturn
<1>1. TaskInv => CleanReturn
  BY DEF TaskInv
<1> QED
  BY <1>1, TaskInvariant, PTL

\* Whole microseconds: d lies between usec and usec + 1 of them, and usec in the slice.
LEMMA WholeMicroseconds ==
  ASSUME NEW d \in Nat, d <= Us * TicksPerUs
  PROVE  /\ microseconds(d) \in 0..Us
         /\ microseconds(d) * TicksPerUs <= d /\ d < (microseconds(d) + 1) * TicksPerUs
<1> DEFINE q == d \div TicksPerUs
<1>1. microseconds(d) = q
  BY DEF microseconds
<1>2. q \in Nat /\ q * TicksPerUs <= d /\ d < (q + 1) * TicksPerUs
  OBVIOUS
<1>3. q <= Us
  <2> SUFFICES ASSUME q >= Us + 1 PROVE FALSE
    BY <1>2
  <2> HIDE DEF q
  <2>1. q * TicksPerUs >= (Us + 1) * TicksPerUs
    BY <1>2
  <2>2. (Us + 1) * TicksPerUs = Us * TicksPerUs + TicksPerUs
    OBVIOUS
  <2>3. q * TicksPerUs \in Int /\ Us * TicksPerUs \in Int
    BY <1>2
  <2> QED
    BY <1>2, <2>1, <2>2, <2>3
<1> QED
  BY <1>1, <1>2, <1>3

\* After join(), runtime() is what the last run() took (task.h:172-175, 235-242).
THEOREM RuntimeIsMeasured == Spec => []RuntimeAfterJoin
<1>1. TaskInv => RuntimeAfterJoin
  <2> SUFFICES ASSUME TaskInv, NEW k \in Tasks, Uncollected(k) = {}, Spawned(k) # {}
               PROVE  \E t \in Spawned(k) :
                        /\ Last(k, t)
                        /\ Undisturbed(t) =>
                             LET d == hook[t].ended - hook[t].began
                             IN  /\ runtime(k) \in 0..Us
                                 /\ runtime(k) * TicksPerUs <= d
                                 /\ d < (runtime(k) + 1) * TicksPerUs
    BY DEF RuntimeAfterJoin
  <2>1. \A t \in Spawned(k) : t \in Threads /\ hook[t].pc = "exited"
    BY DEF Uncollected, Spawned, TaskInv, ThreadInv
  <2>2. PICK t \in Spawned(k) : Measured(k, t)
    BY <2>1 DEF TaskInv, UsecInv, Measured, Stored
  <2>3. Last(k, t)
    BY <2>1, <2>2 DEF Measured, Last, Stored
  <2>4. ASSUME Undisturbed(t), NEW d, d = hook[t].ended - hook[t].began
        PROVE  /\ runtime(k) \in 0..Us
               /\ runtime(k) * TicksPerUs <= d /\ d < (runtime(k) + 1) * TicksPerUs
    <3>1. hook[t] \in Frames /\ Us * TicksPerUs \in Int
      BY <2>1, Typed DEF TaskInv
    <3>2. /\ hook[t].start \in Int /\ hook[t].stop \in Int
          /\ hook[t].began \in Int /\ hook[t].ended \in Int
      BY <3>1 DEF Frames
    <3>3. hook[t].began <= hook[t].ended /\ ~Late(t)
      BY <2>1 DEF TaskInv, TimeInv
    <3>4. measured(t) = d
      BY <2>4 DEF Undisturbed
    <3>5. d \in Nat /\ d <= Us * TicksPerUs
      BY <2>4, <3>1, <3>2, <3>3, <3>4 DEF Late, measured
    <3>6. runtime(k) = microseconds(d)
      BY <2>2, <3>4 DEF Measured, runtime
    <3> QED
      BY <3>5, <3>6, WholeMicroseconds
  <2> QED
    BY <2>3, <2>4
<1> QED
  BY <1>1, TaskInvariant, PTL

\* main() can make the next step of the call that it is inside of.
MainGoesOn ==
  \/ main.pc = "join" /\ (JoinSkips(main.task) \/ JoinReturns(thread_[main.task]))
  \/ main.pc = "create"
  \/ main.pc = "assign" /\ thread_[main.task] = None
  \/ main.pc = "change" /\ errnum \in {"0", "ESRCH", "EINVAL", "EPERM"}

\* A call is never stuck: start() and join() wait for nothing but the thread that the
\* task represents, and while they do this thread is in hook(), where it waits for
\* nothing (task.h:158-162, 172-175, 220-221).
THEOREM CallsNeverBlock ==
  Spec => [](process = "running" /\ main.pc # "idle" =>
               MainGoesOn \/ hook[thread_[main.task]].pc \in Active)
<1>1. ASSUME TaskInv, main.pc # "idle"
      PROVE  MainGoesOn \/ hook[thread_[main.task]].pc \in Active
  <2>1. main \in Calls /\ hook \in [Threads -> Frames] /\ main.task \in Tasks
    BY <1>1, Typed DEF TaskInv, MainInv, BusyInv
  <2>2. main.pc \in {"join", "create", "assign", "change"}
    BY <1>1, <2>1 DEF Calls, MainPcs
  <2>3. CASE main.pc = "join" /\ thread_[main.task] # None
    <3>1. Holder(main.task) = thread_[main.task]
      BY <2>3 DEF Holder
    <3>2. thread_[main.task] \in Threads
      BY <1>1, <2>1, <2>3, Typed DEF TaskInv
    <3>3. hook[thread_[main.task]].pc # "unborn"
      BY <1>1, <2>1, <2>3, <3>1 DEF TaskInv, HolderInv
    <3>4. hook[thread_[main.task]].pc \in Pcs
      BY <2>1, <3>2 DEF Frames
    <3> QED
      BY <2>3, <3>3, <3>4 DEF Pcs, MainGoesOn, JoinReturns
  <2>4. CASE main.pc = "join" /\ thread_[main.task] = None
    BY <2>4 DEF MainGoesOn, JoinSkips
  <2>5. CASE main.pc = "change"
    BY <2>5 DEF MainGoesOn, errnum, setschedparam
  <2>6. CASE main.pc \in {"create", "assign"}
    BY <1>1, <2>6 DEF MainGoesOn, TaskInv, MainInv
  <2> QED
    BY <2>2, <2>3, <2>4, <2>5, <2>6
<1> QED
  BY <1>1, TaskInvariant, PTL

\* Neither start() nor join() terminates the process: only main() does, which returns
\* while a task still represents a thread.  start() assigns to thread_ without a test,
\* and the assignment would terminate if spawn() had not joined (task.h:159-160).
TerminatedAtReturn ==
  process = "terminated" => main.pc = "idle" /\ \E k \in Tasks : thread_[k] # None

THEOREM CallsNeverTerminate == Spec => []TerminatedAtReturn
<1>1. Init => TerminatedAtReturn
  BY DEF Init, TerminatedAtReturn
<1>2. ASSUME TaskInv, TerminatedAtReturn, [Next]_vars PROVE TerminatedAtReturn'
  <2>1. CASE process # "running"
    BY <1>2, <2>1, EndedStays DEF TerminatedAtReturn, vars
  <2>2. CASE process = "running" /\ process' # "running"
    <3>1. ~(Assign /\ process' # "running")
      BY <1>2 DEF Assign, TaskInv, MainInv
    <3>2. ASSUME Change \/ \E t \in Threads : HookCheck(t) PROVE process' # "terminated"
      BY <2>2, <3>2 DEF Change, HookCheck
    <3>3. ASSUME MainReturn PROVE TerminatedAtReturn'
      BY <3>3 DEF MainReturn, TerminatedAtReturn
    <3> QED
      BY <1>2, <2>2, <3>1, <3>2, <3>3, WhoEnds DEF TerminatedAtReturn
  <2>3. CASE process' = "running"
    BY <2>3 DEF TerminatedAtReturn
  <2> QED
    BY <2>1, <2>2, <2>3
<1> QED
  BY <1>1, <1>2, TaskInvariant, PTL DEF Spec

------------------------------------------------------------------------------
(* CriticalTask implements SerialTask. *)

\* The job of task k, seen as its representation.
JobOf(k) == IF \E t \in Uncollected(k) : hook[t].pc \in Active THEN "active"
            ELSE IF Uncollected(k) # {} THEN "finished" ELSE "none"

BegunOf(k) == Cardinality(Spawned(k))

Jobs == [k \in Tasks |-> JobOf(k)]

Begun == [k \in Tasks |-> BegunOf(k)]

\* Only finitely many threads were spawned, however many there may be.
FiniteInv == \A k \in Tasks : IsFiniteSet(Spawned(k))

LEMMA SpawnedStep ==
  ASSUME TypeOK, [Next]_vars, NEW k \in Tasks
  PROVE  \/ Spawned(k)' = Spawned(k)
         \/ \E t \in Threads :
              /\ Create(t) /\ k = main.task /\ t \notin Spawned(k)
              /\ Spawned(k)' = Spawned(k) \cup {t}
<1>0. hook \in [Threads -> Frames] /\ main \in Calls
  BY Typed
<1>1. CASE hook' = hook
  BY <1>1 DEF Spawned
<1>2. ASSUME NEW t \in Threads, HookStep(t) PROVE Spawned(k)' = Spawned(k)
  BY <1>2, HookStepMoves DEF Spawned
<1>3. ASSUME NEW t \in Threads, Create(t)
      PROVE  \/ Spawned(k)' = Spawned(k)
             \/ /\ k = main.task /\ t \notin Spawned(k)
                /\ Spawned(k)' = Spawned(k) \cup {t}
  <2>1. /\ hook'[t].pc = "entry" /\ hook'[t].task = main.task
        /\ \A u \in Threads : u # t => hook'[u] = hook[u]
    BY <1>0, <1>3, HookCreate
  <2>2. hook[t].pc = "unborn"
    BY <1>3 DEF Create
  <2> QED
    BY <2>1, <2>2 DEF Spawned
<1> QED
  BY <1>1, <1>2, <1>3
     DEF Next, MainStep, CallJoin, CallStart, Join, CreateFails, Assign, Change, MainReturn,
         Tick, SetClock, Ended, vars

LEMMA NextFinite == TypeOK /\ FiniteInv /\ [Next]_vars => FiniteInv'
<1> SUFFICES ASSUME TypeOK, FiniteInv, [Next]_vars, NEW k \in Tasks
             PROVE  IsFiniteSet(Spawned(k)')
  BY DEF FiniteInv
<1>1. IsFiniteSet(Spawned(k))
  BY DEF FiniteInv
<1>2. CASE Spawned(k)' = Spawned(k)
  BY <1>1, <1>2
<1>3. ASSUME NEW t \in Threads, Spawned(k)' = Spawned(k) \cup {t}
      PROVE  IsFiniteSet(Spawned(k)')
  BY <1>1, <1>3, FS_AddElement
<1> QED
  BY <1>2, <1>3, SpawnedStep

\* The job of a task depends on the thread that the task represents.
LEMMA JobOfHolder ==
  ASSUME TypeOK, Representation, NEW k \in Tasks
  PROVE  JobOf(k) = IF Holder(k) = None THEN "none"
                    ELSE IF hook[Holder(k)].pc \in Active THEN "active" ELSE "finished"
<1>1. CASE Holder(k) = None
  <2>1. Uncollected(k) = {}
    BY <1>1, OnlyHolder
  <2> QED
    BY <1>1, <2>1 DEF JobOf
<1>2. CASE Holder(k) # None
  <2>1. Uncollected(k) = {Holder(k)}
    BY <1>2, OnlyHolder, HolderType
  <2> QED
    BY <1>2, <2>1 DEF JobOf
<1> QED
  BY <1>1, <1>2

\* The same for all tasks, and so that it can be carried along a behaviour.
JobInv ==
  \A k \in Tasks :
    JobOf(k) = IF Holder(k) = None THEN "none"
               ELSE IF hook[Holder(k)].pc \in Active THEN "active" ELSE "finished"

LEMMA JobInvariant == Spec => [](JobInv /\ FiniteInv)
<1>1. TaskInv => JobInv
  BY JobOfHolder DEF TaskInv, Representation, JobInv
<1>2. Init => FiniteInv
  <2>1. Init => \A k \in Tasks : Spawned(k) = {}
    BY DEF Init, Spawned, Unborn
  <2> QED
    BY <2>1, FS_EmptySet DEF FiniteInv
<1>3. TaskInv /\ FiniteInv /\ [Next]_vars => FiniteInv'
  BY NextFinite DEF TaskInv
<1> QED
  BY <1>1, <1>2, <1>3, TaskInvariant, PTL DEF Spec

\* Steps that change no job.
LEMMA JobsStay ==
  ASSUME JobInv, JobInv', TypeOK, Representation,
         \A k \in Tasks :
           /\ Holder(k)' = Holder(k)
           /\ Holder(k) # None =>
                (hook'[Holder(k)].pc \in Active <=> hook[Holder(k)].pc \in Active)
  PROVE  Jobs' = Jobs
<1>1. \A k \in Tasks : JobOf(k)' = JobOf(k)
  BY DEF JobInv
<1> QED
  BY <1>1 DEF Jobs

\* A job of k begins when its thread is created.
LEMMA CreateBegins ==
  ASSUME JobInv, JobInv', FiniteInv, TypeOK, Representation, NEW t \in Threads, Create(t)
  PROVE  \E k \in Tasks :
           /\ Jobs[k] = "none"
           /\ Jobs' = [Jobs EXCEPT ![k] = "active"]
           /\ Begun' = [Begun EXCEPT ![k] = Begun[k] + 1]
<1>k. PICK k \in Tasks : k = main.task
  BY DEF Create, Representation, MainInv, BusyInv
<1>1. /\ main.pc = "create" /\ thread_[k] = None /\ hook[t].pc = "unborn"
      /\ UNCHANGED thread_
  BY <1>k DEF Create, Representation, MainInv
<1>2. main'.pc = "assign" /\ main'.temp = t /\ main'.task = k
  BY <1>k, Typed, MainAssigns DEF Create, MainPcs
<1>3. /\ hook'[t].pc = "entry" /\ hook'[t].task = k
      /\ \A u \in Threads : u # t => hook'[u] = hook[u]
  BY <1>k, Typed, HookCreate
<1>4. Holder(k)' = t /\ Holder(k) = None /\ \A j \in Tasks : j # k => Holder(j)' = Holder(j)
  BY <1>1, <1>2 DEF Holder
<1>5. \A j \in Tasks : Holder(j) # None => Holder(j) \in Threads /\ Holder(j) # t
  BY <1>1, HolderType DEF Representation, HolderInv
<1>6. JobOf(k) = "none" /\ JobOf(k)' = "active"
  BY <1>3, <1>4 DEF JobInv, Active
<1>7. \A j \in Tasks : j # k => JobOf(j)' = JobOf(j)
  BY <1>3, <1>4, <1>5 DEF JobInv
<1>8. Jobs[k] = "none" /\ Jobs' = [Jobs EXCEPT ![k] = "active"]
  BY <1>6, <1>7 DEF Jobs
<1>9. BegunOf(k)' = BegunOf(k) + 1
  <2>1. t \notin Spawned(k) /\ Spawned(k)' = Spawned(k) \cup {t}
    BY <1>1, <1>3 DEF Spawned
  <2> QED
    BY <2>1, FS_AddElement DEF BegunOf, FiniteInv
<1>10. \A j \in Tasks : j # k => BegunOf(j)' = BegunOf(j)
  <2>1. \A j \in Tasks : j # k => Spawned(j)' = Spawned(j)
    BY <1>1, <1>3 DEF Spawned
  <2> QED
    BY <2>1 DEF BegunOf
<1>11. Begun' = [Begun EXCEPT ![k] = Begun[k] + 1]
  BY <1>9, <1>10 DEF Begun
<1> QED
  BY <1>8, <1>11

\* It finishes when hook() returns in time.
LEMMA CheckFinishes ==
  ASSUME JobInv, JobInv', TypeOK, Representation, NEW t \in Threads, HookCheck(t), hook' # hook
  PROVE  \E k \in Tasks : Jobs[k] = "active" /\ Jobs' = [Jobs EXCEPT ![k] = "finished"]
<1>1. /\ hook[t].pc = "check" /\ hook' = [hook EXCEPT ![t].pc = "exited"]
      /\ UNCHANGED <<main, thread_>>
  BY DEF HookCheck
<1>2. hook'[t].pc = "exited" /\ \A u \in Threads : u # t => hook'[u] = hook[u]
  BY <1>1, Typed, HookMoved DEF Pcs
<1>3. PICK k \in Tasks : k = hook[t].task /\ Holder(k) = t
  BY <1>1 DEF Representation, ThreadInv
<1>4. \A j \in Tasks : Holder(j)' = Holder(j) /\ (Holder(j) \in Threads \/ Holder(j) = None)
  BY <1>1, HolderType DEF Holder
<1>5. \A j \in Tasks : j # k => Holder(j) # t
  BY <1>3 DEF Representation, HolderInv
<1>6. JobOf(k) = "active" /\ JobOf(k)' = "finished"
  BY <1>1, <1>2, <1>3, <1>4 DEF JobInv, Active
<1>7. \A j \in Tasks : j # k => JobOf(j)' = JobOf(j)
  BY <1>2, <1>4, <1>5 DEF JobInv
<1> QED
  BY <1>6, <1>7 DEF Jobs

\* And it is collected by join().
LEMMA JoinCollects ==
  ASSUME JobInv, JobInv', TypeOK, Representation, Join
  PROVE  \/ Jobs' = Jobs
         \/ \E k \in Tasks : Jobs[k] = "finished" /\ Jobs' = [Jobs EXCEPT ![k] = "none"]
<1>k. PICK k \in Tasks : k = main.task
  BY DEF Join, Representation, MainInv, BusyInv
<1>1. main.pc = "join" /\ UNCHANGED hook /\ main'.pc # "assign"
  BY Typed DEF Join, Idle, Calls
<1>2. CASE UNCHANGED thread_
  <2>1. \A j \in Tasks : Holder(j)' = Holder(j)
    BY <1>1, <1>2 DEF Holder
  <2> QED
    BY <1>1, <2>1, JobsStay
<1>3. CASE /\ thread_[k] # None /\ hook[thread_[k]].pc = "exited"
           /\ thread_' = [thread_ EXCEPT ![k] = None]
  <2>1. Holder(k) = thread_[k] /\ Holder(k)' = None
    BY <1>1, <1>3, Typed DEF Holder
  <2>2. \A j \in Tasks : j # k => Holder(j)' = Holder(j)
    BY <1>1, <1>3, Typed DEF Holder
  <2>3. JobOf(k) = "finished" /\ JobOf(k)' = "none"
    BY <1>3, <2>1 DEF JobInv, Active
  <2>4. \A j \in Tasks : j # k => JobOf(j)' = JobOf(j)
    BY <1>1, <2>2 DEF JobInv
  <2> QED
    BY <2>3, <2>4 DEF Jobs
<1> QED
  BY <1>k, <1>2, <1>3 DEF Join, JoinReturns

\* The other steps are none of the jobs.
LEMMA OthersStay ==
  ASSUME JobInv, JobInv', TypeOK, Representation, [Next]_vars, ~Join,
         \A t \in Threads : ~Create(t) /\ ~(HookCheck(t) /\ hook' # hook)
  PROVE  Jobs' = Jobs
<1>0. \A k \in Tasks : Holder(k) \in Threads \cup {None}
  BY HolderType
<1>1. CASE Assign
  <2>1. UNCHANGED hook /\ \A k \in Tasks : Holder(k)' = Holder(k)
    BY <1>1, AssignRepresentation DEF Assign
  <2> QED
    BY <2>1, JobsStay
<1>2. ASSUME NEW t \in Threads, HookStep(t) PROVE Jobs' = Jobs
  <2>1. UNCHANGED <<thread_, main>>
    BY <1>2, HookStepMoves
  <2>2. \A u \in Threads : hook'[u].pc \in Active <=> hook[u].pc \in Active
    <3>0. hook \in [Threads -> Frames] /\ clock \in Int /\ offset \in Int
      BY Typed
    <3>1. CASE HookEntry(t)
      BY <3>0, <3>1, HookEntered DEF HookEntry, Active
    <3>2. CASE HookStop(t)
      BY <3>0, <3>2, HookStopped DEF HookStop, Active
    <3>3. CASE HookStore(t)
      BY <3>0, <3>3, HookMoved DEF HookStore, Active, Pcs
    <3> QED
      BY <1>2, <3>1, <3>2, <3>3 DEF HookStep
  <2>3. \A k \in Tasks : Holder(k)' = Holder(k)
    BY <2>1 DEF Holder
  <2> QED
    BY <1>0, <2>2, <2>3, JobsStay
<1>3. CASE /\ UNCHANGED <<thread_, hook>>
           /\ UNCHANGED main \/ (main.pc # "assign" /\ main'.pc # "assign")
  <2>1. \A k \in Tasks : Holder(k)' = Holder(k)
    BY <1>3 DEF Holder
  <2> QED
    BY <1>3, <2>1, JobsStay
<1>4. ASSUME NEW k \in Tasks, CallJoin(k) \/ \E p \in Priorities : CallStart(k, p)
      PROVE  Jobs' = Jobs
  <2>1. main.pc = "idle" /\ main'.pc = "join" /\ UNCHANGED <<thread_, hook>>
    <3>1. CASE CallJoin(k)
      BY <3>1, MainCalls DEF CallJoin, JoinOf
    <3>2. CASE \E p \in Priorities : CallStart(k, p)
      BY <3>2 DEF CallStart, SpawnEntry
    <3> QED
      BY <1>4, <3>1, <3>2
  <2> QED
    BY <1>3, <2>1
<1>5. CASE CreateFails \/ Change
  BY <1>3, <1>5 DEF CreateFails, Change, Idle
<1> QED
  BY <1>1, <1>2, <1>3, <1>4, <1>5
     DEF Next, MainStep, MainReturn, Tick, SetClock, Ended, vars

LEMMA BegunStays ==
  ASSUME TypeOK, [Next]_vars, \A t \in Threads : ~Create(t)
  PROVE  Begun' = Begun
<1>1. \A k \in Tasks : Spawned(k)' = Spawned(k)
  BY SpawnedStep
<1> QED
  BY <1>1 DEF Begun, BegunOf

\* Every behaviour of the tasks is one of the serial task: jobs of a task begin one after
\* the other, each after the last one was collected (task.h:56, 158-162).
THEOREM ImplementsSerialTask == Spec => RunsSerially
<1>1. Init => Serial!Init
  <2> SUFFICES ASSUME Init PROVE Serial!Init
    OBVIOUS
  <2>1. \A k \in Tasks : Spawned(k) = {}
    BY DEF Init, Spawned, Unborn
  <2>2. \A k \in Tasks : JobOf(k) = "none" /\ BegunOf(k) = 0
    BY <2>1, FS_EmptySet DEF JobOf, Uncollected, BegunOf
  <2>3. Jobs = [k \in Tasks |-> "none"] /\ Begun = [k \in Tasks |-> 0]
    BY <2>2 DEF Jobs, Begun
  <2>4. process = "running"
    BY DEF Init
  <2> QED
    BY Zenon, <2>3, <2>4 DEF Serial!Init, Jobs, Begun, JobOf, BegunOf
<1>2. /\ TaskInv /\ JobInv /\ FiniteInv /\ JobInv' /\ [Next]_vars
      => [Serial!Next]_(Serial!vars)
  <2> SUFFICES ASSUME TaskInv, JobInv, FiniteInv, JobInv', [Next]_vars
               PROVE  [Serial!Next]_(Serial!vars)
    OBVIOUS
  <2>0. TypeOK /\ Representation
    BY DEF TaskInv, Representation
  <2>1. ASSUME NEW t \in Threads, Create(t) PROVE [Serial!Next]_(Serial!vars)
    <3>1. process = "running" /\ process' = process
      BY <2>1 DEF Create
    <3>2. PICK k \in Tasks : /\ Jobs[k] = "none" /\ Jobs' = [Jobs EXCEPT ![k] = "active"]
                             /\ Begun' = [Begun EXCEPT ![k] = Begun[k] + 1]
      BY <2>0, <2>1, CreateBegins
    <3>3. Serial!Begin(k)
      BY Zenon, <3>1, <3>2 DEF Serial!Begin, Jobs, Begun, JobOf, BegunOf
    <3> QED
      BY <3>3 DEF Serial!Next
  <2>2. ASSUME NEW t \in Threads, HookCheck(t), hook' # hook
        PROVE  [Serial!Next]_(Serial!vars)
    <3>1. process = "running" /\ process' = process
      BY <2>2 DEF HookCheck
    <3>2. Begun' = Begun
      <4>1. \A k \in Tasks : Spawned(k)' = Spawned(k)
        BY <2>0, <2>2, HookStepMoves DEF HookStep, Spawned
      <4> QED
        BY <4>1 DEF Begun, BegunOf
    <3>3. PICK k \in Tasks : Jobs[k] = "active" /\ Jobs' = [Jobs EXCEPT ![k] = "finished"]
      BY <2>0, <2>2, CheckFinishes
    <3>4. Serial!Finish(k)
      BY Zenon, <3>1, <3>2, <3>3 DEF Serial!Finish, Jobs, Begun, JobOf, BegunOf
    <3> QED
      BY <3>4 DEF Serial!Next
  <2>3. CASE Join
    <3>1. process = "running" /\ process' = process
      BY <2>3 DEF Join
    <3>2. Begun' = Begun
      BY <2>0, <2>3, BegunStays DEF Join, Create
    <3>3. CASE Jobs' = Jobs
      BY Zenon, <3>1, <3>2, <3>3 DEF Serial!vars, Jobs, Begun, JobOf, BegunOf
    <3>4. ASSUME NEW k \in Tasks, Jobs[k] = "finished", Jobs' = [Jobs EXCEPT ![k] = "none"]
          PROVE  [Serial!Next]_(Serial!vars)
      <4>1. Serial!Collect(k)
        BY Zenon, <3>1, <3>2, <3>4 DEF Serial!Collect, Jobs, Begun, JobOf, BegunOf
      <4> QED
        BY <4>1 DEF Serial!Next
    <3> QED
      BY <2>0, <2>3, <3>3, <3>4, JoinCollects
  <2>4. CASE ~Join /\ \A t \in Threads : ~Create(t) /\ ~(HookCheck(t) /\ hook' # hook)
    <3>1. Jobs' = Jobs /\ Begun' = Begun
      BY <2>0, <2>4, OthersStay, BegunStays
    <3>2. CASE process = "running" /\ process' # "running"
      <4>1. Serial!Down
        BY Zenon, <3>1, <3>2 DEF Serial!Down, Jobs, Begun, JobOf, BegunOf
      <4> QED
        BY <4>1 DEF Serial!Next
    <3>3. CASE (process # "running") = (process' # "running")
      BY Zenon, <3>1, <3>3 DEF Serial!vars, Jobs, Begun, JobOf, BegunOf
    <3>4. process # "running" => process' = process
      BY EndedStays DEF vars
    <3> QED
      BY <3>2, <3>3, <3>4
  <2> QED
    BY <2>1, <2>2, <2>3, <2>4
<1> QED
  BY <1>1, <1>2, TaskInvariant, JobInvariant, PTL DEF Spec, RunsSerially, Serial!Spec

==============================================================================
