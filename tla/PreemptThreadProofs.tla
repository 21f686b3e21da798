------------------------- MODULE PreemptThreadProofs -------------------------
(***************************************************************************)
(* Proofs about PreemptThread, for any number of objects, threads and      *)
(* requests.  Inv is inductive; every safety property follows from it.     *)
(***************************************************************************)
EXTENDS PreemptThread, TLAPS

USE PosixAssumption, PreemptThreadAssumption

------------------------------------------------------------------------------
(* What the kernel answers. *)

\* pthread_setschedparam() answers success only for a thread that has not
\* exited, and reports ESRCH exactly for one that has.
LEMMA SchedparamAnswer ==
  ASSUME NEW exited \in BOOLEAN, NEW r \in Sched
  PROVE  /\ setschedparam(exited, r) = "0" => ~exited
         /\ setschedparam(exited, r) = "ESRCH" <=> exited
  BY DEF setschedparam

\* The types of the definitions that the actions use.
LEMMA FrameTypes ==
  /\ Idle \in Frames
  /\ Normal \in Sched
  /\ \A o \in Objects, r \in Requests, op \in {"join", "ctor"} :
       [op |-> op, obj |-> o, req |-> r] \in Frames
  /\ \A o \in Objects : [op |-> "join", obj |-> o, req |-> Normal] \in Frames
  BY DEF Idle, Frames, Normal, Sched, Policies

LEMMA InitInv == Init => Inv
  <1> SUFFICES ASSUME Init PROVE Inv
    OBVIOUS
  <1>1. TypeOK
    BY FrameTypes DEF Init, TypeOK, Callers
  <1>2. FramesInv
    BY DEF Init, FramesInv, Idle
  <1>3. ReleaseInv /\ SingleOwner /\ NoThreadLost
    BY DEF Init, ReleaseInv, SingleOwner, NoThreadLost, Unreleased, Callers
  <1>4. RunsAsGranted /\ CleanExit
    BY DEF Init, RunsAsGranted, CleanExit
  <1> QED
    BY <1>1, <1>2, <1>3, <1>4 DEF Inv

------------------------------------------------------------------------------
(* The scheduling functions. *)

\* Apply and Grant keep the invariant: a call that answers true has either
\* scheduled the thread or found that it has exited.
LEMMA ApplyKeeps ==
  ASSUME NEW o \in Objects, NEW r \in Requests, TypeOK, RunsAsGranted,
         process = "running", Apply(o, r), Grant(o, r, Tried(o, r)),
         UNCHANGED state
  PROVE  /\ error' \in [Objects -> BOOLEAN]
         /\ sched' \in [Callers -> Sched]
         /\ verify' \in BOOLEAN
         /\ granted' \in [Threads -> Sched \cup {None}]
         /\ \A t \in Threads :
              state'[t] = "running" /\ granted'[t] # None => sched'[t] = granted'[t]
  <1> USE DEF TypeOK
  <1>0. r \in Sched
    OBVIOUS
  <1>1. /\ error' \in [Objects -> BOOLEAN]
        /\ verify' \in BOOLEAN
    BY DEF Apply, Tried, PriorityVerified
  <1>2. CASE ~joinable(o)
    BY <1>1, <1>2 DEF Apply, Grant, RunsAsGranted
  <1>3. CASE joinable(o)
    <2>1. impl[o] \in Threads /\ impl[o] \in Callers
      BY <1>3 DEF joinable, Callers
    <2>2. /\ errnum(o, r) = "0" => state[impl[o]] # "exited"
          /\ errnum(o, r) = "ESRCH" <=> state[impl[o]] = "exited"
      BY <1>0, <2>1, SchedparamAnswer DEF errnum
    <2>3. sched' \in [Callers -> Sched] /\ granted' \in [Threads -> Sched \cup {None}]
      BY <1>0, <2>1 DEF Apply, Grant
    <2>4. ASSUME NEW t \in Threads, state'[t] = "running", granted'[t] # None
          PROVE  sched'[t] = granted'[t]
      <3>1. CASE t # impl[o]
        BY <2>1, <2>4, <3>1 DEF Apply, Grant, RunsAsGranted, Callers
      <3>2. CASE t = impl[o] /\ errnum(o, r) = "0"
        BY <1>3, <2>1, <3>2 DEF Apply, Grant, Tried
      <3>3. CASE t = impl[o] /\ errnum(o, r) # "0"
        <4>1. ~Tried(o, r)
          BY <1>3, <2>2, <2>4, <3>3 DEF Tried
        <4>2. sched' = sched /\ granted' = granted
          BY <3>3, <4>1 DEF Apply, Grant
        <4> QED
          BY <2>4, <4>2 DEF RunsAsGranted
      <3> QED
        BY <3>1, <3>2, <3>3
    <2> QED
      BY <1>1, <2>3, <2>4
  <1> QED
    BY <1>2, <1>3

LEMMA TrySchedulingInv ==
  ASSUME Inv, NEW c \in Callers, NEW o \in Objects, NEW r \in Requests,
         TryScheduling(c, o, r)
  PROVE  Inv'
  <1>1. /\ TypeOK /\ RunsAsGranted
        /\ process = "running" /\ UNCHANGED process
        /\ Apply(o, r) /\ Grant(o, r, Tried(o, r))
        /\ UNCHANGED <<alive, impl, state, joined, detached, frame>>
    BY DEF Inv, TryScheduling, MayCall
  <1>2. /\ error' \in [Objects -> BOOLEAN] /\ sched' \in [Callers -> Sched]
        /\ verify' \in BOOLEAN /\ granted' \in [Threads -> Sched \cup {None}]
        /\ \A t \in Threads :
             state'[t] = "running" /\ granted'[t] # None => sched'[t] = granted'[t]
    BY <1>1, ApplyKeeps
  <1>3. TypeOK'
    BY <1>1, <1>2 DEF TypeOK
  <1>4. FramesInv'
    BY <1>1 DEF Inv, FramesInv
  <1>5. ReleaseInv'
    BY <1>1 DEF Inv, ReleaseInv, Grant, TypeOK, SingleOwner, Unreleased, joinable
  <1>6. SingleOwner' /\ NoThreadLost'
    BY <1>1 DEF Inv, SingleOwner, NoThreadLost, Unreleased
  <1>7. RunsAsGranted' /\ CleanExit'
    BY <1>1, <1>2 DEF RunsAsGranted, CleanExit
  <1> QED
    BY <1>3, <1>4, <1>5, <1>6, <1>7 DEF Inv

\* change_scheduling(): it returns only if try_scheduling() returned true.
LEMMA ChangeKeeps ==
  ASSUME NEW o \in Objects, NEW r \in Requests, TypeOK, RunsAsGranted,
         process = "running", Change(o, r), UNCHANGED state
  PROVE  /\ error' \in [Objects -> BOOLEAN]
         /\ sched' \in [Callers -> Sched]
         /\ verify' \in BOOLEAN
         /\ process' \in {"running", "quick_exit"}
         /\ granted' \in [Threads -> Sched \cup {None}]
         /\ \A t \in Threads :
              state'[t] = "running" /\ granted'[t] # None => sched'[t] = granted'[t]
  <1>1. process' \in {"running", "quick_exit"} /\ Apply(o, r)
    BY DEF Change, ChangeOutcome
  <1>2. ChangeOutcome(o, r) = "running" <=> Tried(o, r)
    BY DEF ChangeOutcome
  <1>3. Grant(o, r, Tried(o, r))
    BY <1>2 DEF Change, Grant
  <1> QED
    BY <1>1, <1>3, ApplyKeeps

LEMMA ChangeSchedulingInv ==
  ASSUME Inv, NEW c \in Callers, NEW o \in Objects, NEW r \in Requests,
         ChangeScheduling(c, o, r)
  PROVE  Inv'
  <1>1. /\ TypeOK /\ RunsAsGranted /\ process = "running" /\ Change(o, r)
        /\ UNCHANGED <<alive, impl, state, joined, detached, frame>>
    BY DEF Inv, ChangeScheduling, MayCall
  <1>2. /\ error' \in [Objects -> BOOLEAN] /\ sched' \in [Callers -> Sched]
        /\ verify' \in BOOLEAN /\ granted' \in [Threads -> Sched \cup {None}]
        /\ process' \in {"running", "quick_exit"}
        /\ \A t \in Threads :
             state'[t] = "running" /\ granted'[t] # None => sched'[t] = granted'[t]
    BY <1>1, ChangeKeeps
  <1>3. TypeOK'
    BY <1>1, <1>2 DEF TypeOK
  <1>4. FramesInv'
    BY <1>1 DEF Inv, FramesInv
  <1>5. ReleaseInv'
    BY <1>1 DEF Inv, ReleaseInv, Change, Grant, TypeOK, SingleOwner, Unreleased, joinable
  <1>6. SingleOwner' /\ NoThreadLost'
    BY <1>1 DEF Inv, SingleOwner, NoThreadLost, Unreleased
  <1>7. RunsAsGranted' /\ CleanExit'
    BY <1>1, <1>2 DEF RunsAsGranted, CleanExit
  <1> QED
    BY <1>3, <1>4, <1>5, <1>6, <1>7 DEF Inv

LEMMA ConstructRealtimeEndInv ==
  ASSUME Inv, NEW c \in Callers, ConstructRealtimeEnd(c)
  PROVE  Inv'
  <1> DEFINE o == frame[c].obj
             r == frame[c].req
  <1>1. /\ TypeOK /\ FramesInv /\ RunsAsGranted /\ process = "running"
        /\ Change(o, r) /\ frame[c].op = "ctor"
        /\ frame' = [frame EXCEPT ![c] = Idle]
        /\ UNCHANGED <<alive, impl, state, joined, detached>>
    BY DEF Inv, ConstructRealtimeEnd
  <1>2. o \in Objects /\ r \in Requests
    BY <1>1 DEF TypeOK, Frames, FramesInv, Idle
  <1>3. /\ error' \in [Objects -> BOOLEAN] /\ sched' \in [Callers -> Sched]
        /\ verify' \in BOOLEAN /\ granted' \in [Threads -> Sched \cup {None}]
        /\ process' \in {"running", "quick_exit"}
        /\ \A t \in Threads :
             state'[t] = "running" /\ granted'[t] # None => sched'[t] = granted'[t]
    BY <1>1, <1>2, ChangeKeeps
  <1>4. TypeOK'
    BY <1>1, <1>3, FrameTypes DEF TypeOK
  <1>5. FramesInv'
    BY <1>1 DEF FramesInv, TypeOK, Idle
  <1>6. ReleaseInv'
    BY <1>1, <1>2 DEF Inv, ReleaseInv, Change, Grant, TypeOK, SingleOwner, Unreleased, joinable
  <1>7. SingleOwner' /\ NoThreadLost'
    BY <1>1 DEF Inv, SingleOwner, NoThreadLost, Unreleased
  <1>8. RunsAsGranted' /\ CleanExit'
    BY <1>1, <1>3 DEF RunsAsGranted, CleanExit
  <1> QED
    BY <1>4, <1>5, <1>6, <1>7, <1>8 DEF Inv

------------------------------------------------------------------------------
(* Constructors and destructor. *)

LEMMA ConstructDefaultInv ==
  ASSUME Inv, NEW c \in Callers, NEW o \in Objects, ConstructDefault(c, o)
  PROVE  Inv'
  <1> USE DEF ConstructDefault, MayCall
  <1>1. TypeOK'
    BY DEF Inv, TypeOK
  <1>2. FramesInv' /\ ReleaseInv'
    BY DEF Inv, FramesInv, ReleaseInv
  <1>3. SingleOwner' /\ NoThreadLost'
    BY DEF Inv, SingleOwner, NoThreadLost, Unreleased
  <1>4. RunsAsGranted' /\ CleanExit'
    BY DEF Inv, RunsAsGranted, CleanExit
  <1> QED
    BY <1>1, <1>2, <1>3, <1>4 DEF Inv

\* The source loses the thread that the target gets.  The target had none: its
\* lifetime had not begun.
LEMMA ConstructMoveInv ==
  ASSUME Inv, NEW c \in Callers, NEW o \in Objects, NEW p \in Objects,
         ConstructMove(c, o, p)
  PROVE  Inv'
  <1> USE DEF ConstructMove, MayCall
  <1>1. TypeOK'
    BY DEF Inv, TypeOK, MoveImpl
  <1>2. impl[o] = None /\ o # p
    BY DEF Inv, SingleOwner, Vacant, Usable
  <1>3. /\ impl' = [impl EXCEPT ![o] = impl[p], ![p] = None]
        /\ impl \in [Objects -> Threads \cup {None}]
    BY DEF MoveImpl, Inv, TypeOK
  <1>4. FramesInv'
    <2>1. \A d \in Callers : frame[d].obj \notin {o, p}
      BY DEF Vacant, Usable, Unshared
    <2>2. \A d \in Callers : frame[d] # Idle => impl'[frame[d].obj] # None
      BY <1>3, <2>1 DEF Inv, FramesInv, TypeOK, Frames, Idle
    <2> QED
      BY <2>2 DEF Inv, FramesInv
  <1>5. ReleaseInv'
    BY DEF Inv, ReleaseInv
  <1>6. SingleOwner'
    BY <1>2, <1>3 DEF Inv, SingleOwner, Unreleased, Usable
  <1>7. NoThreadLost'
    <2>1. ASSUME NEW t \in Threads, Unreleased(t)
          PROVE  \E q \in Objects : impl'[q] = t
      <3>1. PICK q \in Objects : impl[q] = t
        BY <2>1 DEF Inv, NoThreadLost
      <3>2. t # None /\ q # o
        BY <1>2, <3>1
      <3>3. CASE q = p
        BY <1>2, <1>3, <3>1, <3>3
      <3>4. CASE q # p
        BY <1>3, <3>1, <3>2, <3>4
      <3> QED
        BY <3>3, <3>4
    <2> QED
      BY <2>1 DEF NoThreadLost, Unreleased
  <1>8. RunsAsGranted' /\ CleanExit'
    BY DEF Inv, RunsAsGranted, CleanExit
  <1> QED
    BY <1>1, <1>4, <1>5, <1>6, <1>7, <1>8 DEF Inv

\* What starting a thread in an object leaves true.
LEMMA StartKeeps ==
  ASSUME Inv, NEW c \in Callers, NEW o \in Objects, NEW t \in Threads,
         Vacant(o), Start(c, o, t), UNCHANGED <<joined, detached, granted>>
  PROVE  /\ alive' \subseteq Objects
         /\ impl' \in [Objects -> Threads \cup {None}]
         /\ error' \in [Objects -> BOOLEAN]
         /\ state' \in [Callers -> {"unborn", "running", "exited"}]
         /\ sched' \in [Callers -> Sched]
         /\ impl'[o] = t /\ \A p \in Objects \ {o} : impl'[p] = impl[p]
         /\ \A d \in Callers : state[d] = "running" => state'[d] = "running"
         /\ ReleaseInv'
         /\ SingleOwner'
         /\ NoThreadLost'
         /\ \A u \in Threads :
              state'[u] = "running" /\ granted'[u] # None /\ RunsAsGranted
                /\ process = "running" => sched'[u] = granted'[u]
  <1> USE DEF Start
  <1>1. /\ alive' \subseteq Objects
        /\ impl' \in [Objects -> Threads \cup {None}]
        /\ error' \in [Objects -> BOOLEAN]
        /\ state' \in [Callers -> {"unborn", "running", "exited"}]
        /\ sched' \in [Callers -> Sched]
    BY DEF Inv, TypeOK, Callers
  <1>2. /\ impl'[o] = t /\ \A p \in Objects \ {o} : impl'[p] = impl[p]
        /\ state[t] = "unborn" /\ state'[t] = "running" /\ t \in Callers
        /\ \A d \in Callers \ {t} : state'[d] = state[d] /\ sched'[d] = sched[d]
    BY DEF Inv, TypeOK, Callers
  <1>3. impl[o] = None /\ granted[t] = None /\ t \notin joined \cup detached
    BY <1>2 DEF Inv, SingleOwner, Vacant, ReleaseInv
  <1>4. \A u \in Threads : u # t => (Unreleased(u)' <=> Unreleased(u))
    BY <1>2 DEF Unreleased, Callers
  <1>5. ReleaseInv'
    BY <1>2, <1>3 DEF Inv, ReleaseInv, Callers, TypeOK
  <1>6. SingleOwner'
    <2>1. \A p \in Objects : impl[p] # None => impl[p] # t
      BY <1>2 DEF Inv, SingleOwner, Unreleased
    <2>2. \A p, q \in Objects : impl'[p] = impl'[q] /\ impl'[p] # None => p = q
      BY <1>2, <2>1 DEF Inv, SingleOwner
    <2>3. Unreleased(t)'
      BY <1>2, <1>3 DEF Unreleased
    <2>4. ASSUME NEW p \in Objects, impl'[p] # None
          PROVE  /\ p \in alive'
                 /\ state'[impl'[p]] # "unborn"
                 /\ impl'[p] \notin joined' \cup detached'
      <3>1. CASE p = o
        BY <1>2, <2>3, <3>1 DEF Unreleased, Inv, TypeOK
      <3>2. CASE p # o
        <4>1. impl'[p] = impl[p] /\ impl[p] # t /\ impl[p] \in Callers
          BY <1>2, <2>1, <2>4, <3>2 DEF Inv, TypeOK, Callers
        <4> QED
          BY <1>2, <2>4, <4>1 DEF Inv, SingleOwner, Unreleased, TypeOK
      <3> QED
        BY <3>1, <3>2
    <2> QED
      BY <2>2, <2>4 DEF SingleOwner, Unreleased
  <1>7. NoThreadLost'
    BY <1>2, <1>3, <1>4 DEF Inv, NoThreadLost, Unreleased
  <1> QED
    BY <1>1, <1>2, <1>3, <1>5, <1>6, <1>7 DEF RunsAsGranted, Callers

LEMMA ConstructInv ==
  ASSUME Inv, NEW c \in Callers, NEW o \in Objects, NEW t \in Threads,
         Construct(c, o, t)
  PROVE  Inv'
  <1>1. /\ process = "running" /\ Vacant(o) /\ Start(c, o, t)
        /\ UNCHANGED <<joined, detached, frame, process, verify, granted>>
    BY DEF Construct, MayCall
  <1>2. TypeOK'
    BY <1>1, StartKeeps DEF Inv, TypeOK
  <1>3. FramesInv'
    <2>1. \A d \in Callers : frame[d].obj # o
      BY <1>1 DEF Vacant, Unshared
    <2>2. \A d \in Callers : frame[d] # Idle =>
            impl'[frame[d].obj] # None /\ state'[d] = "running"
      BY <1>1, <2>1, StartKeeps DEF Inv, FramesInv, TypeOK, Frames, Idle
    <2> QED
      BY <1>1, <2>2 DEF Inv, FramesInv
  <1>4. ReleaseInv' /\ SingleOwner' /\ NoThreadLost'
    BY <1>1, StartKeeps
  <1>5. RunsAsGranted' /\ CleanExit'
    BY <1>1, StartKeeps DEF Inv, RunsAsGranted, CleanExit
  <1> QED
    BY <1>2, <1>3, <1>4, <1>5 DEF Inv

LEMMA ConstructRealtimeInv ==
  ASSUME Inv, NEW c \in Callers, NEW o \in Objects, NEW t \in Threads,
         NEW r \in Requests, ConstructRealtime(c, o, t, r)
  PROVE  Inv'
  <1> DEFINE f == [op |-> "ctor", obj |-> o, req |-> r]
  <1>1. /\ process = "running" /\ Vacant(o) /\ Start(c, o, t)
        /\ frame[c] = Idle /\ state[c] = "running"
        /\ frame' = [frame EXCEPT ![c] = f]
        /\ UNCHANGED <<joined, detached, process, verify, granted>>
    BY DEF ConstructRealtime, MayCall
  <1>2. TypeOK'
    BY <1>1, StartKeeps, FrameTypes DEF Inv, TypeOK
  <1>3. FramesInv'
    <2>1. \A d \in Callers : frame[d].obj # o
      BY <1>1 DEF Vacant, Unshared
    <2>2. frame'[c] = f /\ \A d \in Callers \ {c} : frame'[d] = frame[d]
      BY <1>1 DEF Inv, TypeOK
    <2>3. f.op = "ctor" /\ f.obj = o /\ f.req = r /\ f # Idle
      BY DEF Idle
    <2>4. \A d \in Callers : frame'[d] # Idle =>
            impl'[frame'[d].obj] # None /\ state'[d] = "running"
      BY <1>1, <2>1, <2>2, <2>3, StartKeeps DEF Inv, FramesInv, TypeOK, Frames, Idle
    <2>5. \A d, e \in Callers :
            frame'[d].obj = frame'[e].obj /\ frame'[d].obj # None => d = e
      BY <2>1, <2>2, <2>3 DEF Inv, FramesInv
    <2>6. \A d \in Callers :
            /\ frame'[d].op = "idle" <=> frame'[d].obj = None
            /\ frame'[d].op = "idle" <=> frame'[d] = Idle
            /\ frame'[d].op = "ctor" => frame'[d].req \in Requests
      BY <2>2, <2>3 DEF Inv, FramesInv
    <2> QED
      BY <2>4, <2>5, <2>6 DEF FramesInv
  <1>4. ReleaseInv' /\ SingleOwner' /\ NoThreadLost'
    BY <1>1, StartKeeps
  <1>5. RunsAsGranted' /\ CleanExit'
    BY <1>1, StartKeeps DEF Inv, RunsAsGranted, CleanExit
  <1> QED
    BY <1>2, <1>3, <1>4, <1>5 DEF Inv

LEMMA DestroyInv ==
  ASSUME Inv, NEW c \in Callers, NEW o \in Objects, Destroy(c, o)
  PROVE  Inv'
  <1> USE DEF Destroy, MayCall
  <1>1. TypeOK'
    BY DEF Inv, TypeOK
  <1>2. impl' = impl
    BY DEF Inv, TypeOK, DestroyTerminates, joinable
  <1>3. FramesInv' /\ ReleaseInv'
    BY <1>2 DEF Inv, FramesInv, ReleaseInv
  <1>4. SingleOwner' /\ NoThreadLost'
    BY <1>2 DEF Inv, SingleOwner, NoThreadLost, Unreleased, DestroyTerminates, joinable
  <1>5. RunsAsGranted' /\ CleanExit'
    BY DEF Inv, RunsAsGranted, CleanExit
  <1> QED
    BY <1>1, <1>3, <1>4, <1>5 DEF Inv

------------------------------------------------------------------------------
(* Assignment, swap, join, detach. *)

\* As for the move constructor: the target of an assignment that does not
\* terminate the process represented no thread.
LEMMA AssignInv ==
  ASSUME Inv, NEW c \in Callers, NEW o \in Objects, NEW p \in Objects,
         Assign(c, o, p)
  PROVE  Inv'
  <1> USE DEF Assign, MayCall
  <1>1. TypeOK'
    BY DEF Inv, TypeOK, MoveImpl
  <1>2. ReleaseInv' /\ RunsAsGranted' /\ CleanExit'
    BY DEF Inv, ReleaseInv, RunsAsGranted, CleanExit
  <1>3. CASE AssignTerminates(o) /\ UNCHANGED impl
    BY <1>1, <1>2, <1>3
    DEF Inv, FramesInv, SingleOwner, NoThreadLost, Unreleased
  <1>4. CASE ~AssignTerminates(o) /\ impl' = MoveImpl(o, p)
    <2>1. impl[o] = None
      BY <1>4 DEF AssignTerminates, joinable
    <2>2. /\ impl' = [impl EXCEPT ![o] = impl[p], ![p] = None]
          /\ impl \in [Objects -> Threads \cup {None}]
      BY <1>4 DEF MoveImpl, Inv, TypeOK
    <2>3. FramesInv'
      <3>1. \A d \in Callers : frame[d].obj \notin {o, p}
        BY DEF Usable, Unshared
      <3>2. \A d \in Callers : frame[d] # Idle => impl'[frame[d].obj] # None
        BY <2>2, <3>1 DEF Inv, FramesInv, TypeOK, Frames, Idle
      <3> QED
        BY <3>2 DEF Inv, FramesInv
    <2>4. SingleOwner'
      BY <2>1, <2>2 DEF Inv, SingleOwner, Unreleased, Usable
    <2>5. NoThreadLost'
      <3>1. ASSUME NEW t \in Threads, Unreleased(t)
            PROVE  \E q \in Objects : impl'[q] = t
        <4>1. PICK q \in Objects : impl[q] = t
          BY <3>1 DEF Inv, NoThreadLost
        <4>2. t # None /\ q # o
          BY <2>1, <4>1
        <4>3. CASE q = p
          BY <2>2, <4>1, <4>2, <4>3
        <4>4. CASE q # p
          BY <2>2, <4>1, <4>2, <4>4
        <4> QED
          BY <4>3, <4>4
      <3> QED
        BY <3>1 DEF NoThreadLost, Unreleased
    <2> QED
      BY <1>1, <1>2, <2>3, <2>4, <2>5 DEF Inv
  <1> QED
    BY <1>3, <1>4

LEMMA SwapInv ==
  ASSUME Inv, NEW c \in Callers, NEW o \in Objects, NEW p \in Objects,
         Swap(c, o, p)
  PROVE  Inv'
  <1> USE DEF Swap, MayCall
  <1>1. TypeOK'
    BY DEF Inv, TypeOK
  <1>2. ReleaseInv' /\ RunsAsGranted' /\ CleanExit'
    BY DEF Inv, ReleaseInv, RunsAsGranted, CleanExit
  <1>3. /\ impl'[o] = impl[p] /\ impl'[p] = impl[o]
        /\ \A q \in Objects \ {o, p} : impl'[q] = impl[q]
    BY DEF Inv, TypeOK
  <1>4. FramesInv'
    <2>1. \A d \in Callers : frame[d].obj \notin {o, p}
      BY DEF Usable, Unshared
    <2>2. \A d \in Callers : frame[d] # Idle => impl'[frame[d].obj] # None
      BY <1>3, <2>1 DEF Inv, FramesInv, TypeOK, Frames, Idle
    <2> QED
      BY <2>2 DEF Inv, FramesInv
  <1>5. SingleOwner'
    <2> DEFINE g(q) == IF q = o THEN p ELSE IF q = p THEN o ELSE q
    <2>1. \A q \in Objects : g(q) \in Objects /\ impl'[q] = impl[g(q)]
      BY <1>3
    <2>2. \A q, s \in Objects : g(q) = g(s) => q = s
      OBVIOUS
    <2>3. \A q \in Objects : g(q) \in alive => q \in alive
      BY DEF Usable
    <2> HIDE DEF g
    <2>4. \A q, s \in Objects : impl'[q] = impl'[s] /\ impl'[q] # None => q = s
      BY <2>1, <2>2 DEF Inv, SingleOwner
    <2>5. ASSUME NEW q \in Objects, impl'[q] # None
          PROVE  /\ q \in alive /\ state[impl'[q]] # "unborn"
                 /\ impl'[q] \notin joined \cup detached
      BY <2>1, <2>3, <2>5 DEF Inv, SingleOwner, Unreleased
    <2> QED
      BY <2>4, <2>5 DEF SingleOwner, Unreleased
  <1>6. NoThreadLost'
    <2>1. ASSUME NEW t \in Threads, Unreleased(t)
          PROVE  \E q \in Objects : impl'[q] = t
      <3>1. PICK q \in Objects : impl[q] = t
        BY <2>1 DEF Inv, NoThreadLost
      <3> QED
        BY <1>3, <3>1
    <2> QED
      BY <2>1 DEF NoThreadLost, Unreleased
  <1> QED
    BY <1>1, <1>2, <1>4, <1>5, <1>6 DEF Inv

LEMMA JoinBeginInv ==
  ASSUME Inv, NEW c \in Callers, NEW o \in Objects, JoinBegin(c, o)
  PROVE  Inv'
  <1> DEFINE f == [op |-> "join", obj |-> o, req |-> Normal]
  <1> USE DEF JoinBegin, MayCall
  <1>1. TypeOK'
    BY FrameTypes DEF Inv, TypeOK
  <1>2. FramesInv'
    <2>1. \A d \in Callers : frame[d].obj # o
      BY DEF Usable, Unshared
    <2>2. frame'[c] = f /\ \A d \in Callers \ {c} : frame'[d] = frame[d]
      BY DEF Inv, TypeOK
    <2>3. f.op = "join" /\ f.obj = o /\ f # Idle
      BY DEF Idle
    <2>4. \A d \in Callers : frame'[d] # Idle =>
            impl'[frame'[d].obj] # None /\ state'[d] = "running"
      BY <2>1, <2>2, <2>3 DEF Inv, FramesInv, joinable
    <2>5. \A d, e \in Callers :
            frame'[d].obj = frame'[e].obj /\ frame'[d].obj # None => d = e
      BY <2>1, <2>2, <2>3 DEF Inv, FramesInv
    <2>6. \A d \in Callers :
            /\ frame'[d].op = "idle" <=> frame'[d].obj = None
            /\ frame'[d].op = "idle" <=> frame'[d] = Idle
            /\ frame'[d].op = "ctor" => frame'[d].req \in Requests
      BY <2>2, <2>3 DEF Inv, FramesInv
    <2> QED
      BY <2>4, <2>5, <2>6 DEF FramesInv
  <1>3. ReleaseInv' /\ RunsAsGranted' /\ CleanExit'
    BY DEF Inv, ReleaseInv, RunsAsGranted, CleanExit
  <1>4. SingleOwner' /\ NoThreadLost'
    BY DEF Inv, SingleOwner, NoThreadLost, Unreleased
  <1> QED
    BY <1>1, <1>2, <1>3, <1>4 DEF Inv

\* What taking the thread t out of o leaves true, once it counts as released.
LEMMA ReleaseKeeps ==
  ASSUME Inv, NEW o \in Objects, NEW t \in Threads, impl[o] = t,
         impl' = [impl EXCEPT ![o] = None], UNCHANGED <<alive, state>>,
         joined' \cup detached' = joined \cup detached \cup {t}
  PROVE  SingleOwner' /\ NoThreadLost'
  <1>1. /\ impl'[o] = None /\ \A p \in Objects \ {o} : impl'[p] = impl[p]
        /\ \A p \in Objects \ {o} : impl[p] # t
    BY DEF Inv, TypeOK, SingleOwner
  <1>2. SingleOwner'
    <2>1. \A p, q \in Objects : impl'[p] = impl'[q] /\ impl'[p] # None => p = q
      BY <1>1 DEF Inv, SingleOwner
    <2>2. ASSUME NEW p \in Objects, impl'[p] # None
          PROVE  /\ p \in alive /\ state[impl'[p]] # "unborn"
                 /\ impl'[p] \notin joined' \cup detached'
      <3>1. p # o /\ impl'[p] = impl[p] /\ impl[p] # t
        BY <1>1, <2>2
      <3> QED
        BY <2>2, <3>1 DEF Inv, SingleOwner, Unreleased
    <2> QED
      BY <2>1, <2>2 DEF SingleOwner, Unreleased
  <1>3. NoThreadLost'
    <2>1. ASSUME NEW u \in Threads, Unreleased(u)'
          PROVE  \E q \in Objects : impl'[q] = u
      <3>1. u # t /\ Unreleased(u)
        BY <2>1 DEF Unreleased
      <3>2. PICK q \in Objects : impl[q] = u
        BY <3>1 DEF Inv, NoThreadLost
      <3> QED
        BY <1>1, <3>1, <3>2
    <2> QED
      BY <2>1 DEF NoThreadLost
  <1> QED
    BY <1>2, <1>3

LEMMA JoinEndInv ==
  ASSUME Inv, NEW c \in Callers, JoinEnd(c)
  PROVE  Inv'
  <1> DEFINE o == frame[c].obj
             t == impl[o]
  <1>1. /\ process = "running" /\ frame[c].op = "join" /\ state[t] = "exited"
        /\ joined' = joined \cup {t}
        /\ impl' = [impl EXCEPT ![o] = None]
        /\ frame' = [frame EXCEPT ![c] = Idle]
        /\ UNCHANGED <<alive, error, state, detached, sched, process, verify, granted>>
    BY DEF JoinEnd, JoinReady
  <1>2. o \in Objects /\ t \in Threads /\ t \notin joined \cup detached
    BY <1>1 DEF Inv, TypeOK, Frames, FramesInv, Idle, SingleOwner, Unreleased
  <1>3. TypeOK'
    BY <1>1, <1>2, FrameTypes DEF Inv, TypeOK
  <1>4. FramesInv'
    <2>1. frame'[c] = Idle /\ \A d \in Callers \ {c} : frame'[d] = frame[d]
      BY <1>1 DEF Inv, TypeOK
    <2>2. \A d \in Callers \ {c} : frame[d].obj # o
      BY <1>2 DEF Inv, FramesInv
    <2>3. \A d \in Callers : frame'[d] # Idle =>
            impl'[frame'[d].obj] # None /\ state'[d] = "running"
      BY <1>1, <1>2, <2>1, <2>2 DEF Inv, FramesInv, TypeOK, Frames, Idle
    <2> QED
      BY <2>1, <2>3 DEF Inv, FramesInv, Idle
  <1>5. ReleaseInv'
    BY <1>1, <1>2 DEF Inv, ReleaseInv
  <1>6. SingleOwner' /\ NoThreadLost'
    BY <1>1, <1>2, ReleaseKeeps, ZenonT(30)
  <1>7. RunsAsGranted' /\ CleanExit'
    BY <1>1 DEF Inv, RunsAsGranted, CleanExit
  <1> QED
    BY <1>3, <1>4, <1>5, <1>6, <1>7 DEF Inv

LEMMA DetachInv ==
  ASSUME Inv, NEW c \in Callers, NEW o \in Objects, Detach(c, o)
  PROVE  Inv'
  <1> DEFINE t == impl[o]
  <1> USE DEF Detach, MayCall
  <1>1. t \in Threads /\ t \notin joined \cup detached /\ state[t] # "unborn"
    BY DEF Inv, TypeOK, joinable, SingleOwner, Unreleased
  <1>2. TypeOK'
    BY <1>1 DEF Inv, TypeOK
  <1>3. FramesInv'
    <2>1. \A d \in Callers : frame[d].obj # o
      BY DEF Usable, Unshared
    <2>2. \A d \in Callers : frame[d] # Idle => impl'[frame[d].obj] # None
      BY <2>1 DEF Inv, FramesInv, TypeOK, Frames, Idle
    <2> QED
      BY <2>2 DEF Inv, FramesInv
  <1>4. ReleaseInv'
    BY <1>1 DEF Inv, ReleaseInv
  <1>5. SingleOwner' /\ NoThreadLost'
    BY <1>1, ReleaseKeeps
  <1>6. RunsAsGranted' /\ CleanExit'
    BY DEF Inv, RunsAsGranted, CleanExit
  <1> QED
    BY <1>2, <1>3, <1>4, <1>5, <1>6 DEF Inv

------------------------------------------------------------------------------
(* The environment, and the theorems. *)

LEMMA ThreadExitInv ==
  ASSUME Inv, NEW t \in Threads, ThreadExit(t)
  PROVE  Inv'
  <1> USE DEF ThreadExit, MayCall
  <1>1. TypeOK'
    BY DEF Inv, TypeOK, Callers
  <1>2. /\ state'[t] = "exited" /\ \A d \in Callers \ {t} : state'[d] = state[d]
        /\ state[t] = "running" /\ t \in Callers
    BY DEF Inv, TypeOK, Callers
  <1>3. FramesInv'
    BY <1>2 DEF Inv, FramesInv
  <1>4. ReleaseInv'
    BY <1>2 DEF Inv, ReleaseInv, TypeOK, Callers
  <1>5. \A u \in Threads : Unreleased(u)' <=> Unreleased(u)
    BY <1>2 DEF Unreleased, Callers
  <1>6. SingleOwner' /\ NoThreadLost'
    BY <1>2, <1>5 DEF Inv, SingleOwner, NoThreadLost, Unreleased, TypeOK, Callers
  <1>7. RunsAsGranted' /\ CleanExit'
    BY <1>2 DEF Inv, RunsAsGranted, CleanExit, Callers
  <1> QED
    BY <1>1, <1>3, <1>4, <1>6, <1>7 DEF Inv

\* All objects are gone, so no object represents a thread any more, so none is
\* left to be joined or detached.
LEMMA MainReturnInv ==
  ASSUME Inv, MainReturn
  PROVE  Inv'
  <1> USE DEF MainReturn, MayCall
  <1>1. TypeOK'
    BY DEF Inv, TypeOK, Callers
  <1>2. /\ state' = [state EXCEPT ![Main] = "exited"]
        /\ \A d \in Threads : state'[d] = state[d]
        /\ \A d \in Callers \ {Main} : state'[d] = state[d]
    BY DEF Inv, TypeOK, Callers
  <1>3. FramesInv'
    BY <1>2 DEF Inv, FramesInv
  <1>4. ReleaseInv'
    BY <1>2 DEF Inv, ReleaseInv, TypeOK
  <1>5. \A u \in Threads : Unreleased(u)' <=> Unreleased(u)
    BY <1>2 DEF Unreleased
  <1>6. SingleOwner' /\ NoThreadLost'
    BY <1>2, <1>5 DEF Inv, SingleOwner, NoThreadLost, Unreleased, TypeOK
  <1>7. \A u \in Threads : ~Unreleased(u)'
    BY <1>5, <1>6 DEF Inv, SingleOwner, NoThreadLost, TypeOK
  <1>8. RunsAsGranted' /\ CleanExit'
    BY <1>4, <1>7 DEF RunsAsGranted, CleanExit, ReleaseInv
  <1> QED
    BY <1>1, <1>3, <1>4, <1>6, <1>8 DEF Inv

LEMMA StutterInv == Inv /\ UNCHANGED vars => Inv'
  BY DEF Inv, vars, TypeOK, FramesInv, ReleaseInv, SingleOwner, NoThreadLost,
         Unreleased, RunsAsGranted, CleanExit

LEMMA NextInv == Inv /\ [Next]_vars => Inv'
  <1> SUFFICES ASSUME Inv, [Next]_vars PROVE Inv'
    OBVIOUS
  <1>1. CASE UNCHANGED vars
    BY <1>1, StutterInv
  <1>2. CASE \E c \in Callers : Step(c)
    <2> PICK c \in Callers : Step(c)
      BY <1>2
    <2>1. CASE ConstructRealtimeEnd(c) \/ JoinEnd(c)
      BY <2>1, ConstructRealtimeEndInv, JoinEndInv
    <2>2. CASE ~(ConstructRealtimeEnd(c) \/ JoinEnd(c))
      <3> PICK o \in Objects :
             \/ ConstructDefault(c, o)
             \/ Destroy(c, o)
             \/ JoinBegin(c, o)
             \/ Detach(c, o)
             \/ \E p \in Objects :
                  ConstructMove(c, o, p) \/ Assign(c, o, p) \/ Swap(c, o, p)
             \/ \E t \in Threads : Construct(c, o, t)
             \/ \E t \in Threads, r \in Requests : ConstructRealtime(c, o, t, r)
             \/ \E r \in Requests : TryScheduling(c, o, r) \/ ChangeScheduling(c, o, r)
        BY <2>2 DEF Step
      <3>1. CASE ConstructDefault(c, o) \/ Destroy(c, o) \/ JoinBegin(c, o) \/ Detach(c, o)
        BY <3>1, ConstructDefaultInv, DestroyInv, JoinBeginInv, DetachInv
      <3>2. CASE \E p \in Objects : ConstructMove(c, o, p) \/ Assign(c, o, p) \/ Swap(c, o, p)
        BY <3>2, ConstructMoveInv, AssignInv, SwapInv
      <3>3. CASE \E t \in Threads : Construct(c, o, t)
        BY <3>3, ConstructInv
      <3>4. CASE \E t \in Threads, r \in Requests : ConstructRealtime(c, o, t, r)
        BY <3>4, ConstructRealtimeInv
      <3>5. CASE \E r \in Requests : TryScheduling(c, o, r) \/ ChangeScheduling(c, o, r)
        BY <3>5, TrySchedulingInv, ChangeSchedulingInv
      <3> QED
        BY <3>1, <3>2, <3>3, <3>4, <3>5
    <2> QED
      BY <2>1, <2>2
  <1>3. CASE \E t \in Threads : ThreadExit(t)
    BY <1>3, ThreadExitInv
  <1>4. CASE MainReturn
    BY <1>4, MainReturnInv
  <1>5. CASE Ended
    BY <1>5, StutterInv DEF Ended
  <1> QED
    BY <1>1, <1>2, <1>3, <1>4, <1>5 DEF Next

\* The inductive invariant: types, the calls in progress, and the safety
\* properties below, which need one another to be inductive.
THEOREM Invariance == Spec => []Inv
  BY InitInv, NextInv, PTL DEF Spec

\* Every variable keeps its type.
THEOREM TypeCorrect == Spec => []TypeOK
  <1>1. Inv => TypeOK
    BY DEF Inv
  <1> QED
    BY <1>1, Invariance, PTL

\* A thread of execution is represented by at most one object, which is alive,
\* and only as long as it was neither joined nor detached (thread.h:40-45, 68-74).
THEOREM Ownership == Spec => []SingleOwner
  <1>1. Inv => SingleOwner
    BY DEF Inv
  <1> QED
    BY <1>1, Invariance, PTL

\* A thread that must still be joined or detached is in some object.
THEOREM NothingLost == Spec => []NoThreadLost
  <1>1. Inv => NoThreadLost
    BY DEF Inv
  <1> QED
    BY <1>1, Invariance, PTL

\* A program that returns from main() has joined or detached every thread.
THEOREM ExitIsClean == Spec => []CleanExit
  <1>1. Inv => CleanExit
    BY DEF Inv
  <1> QED
    BY <1>1, Invariance, PTL

\* A running thread has the scheduling that the last successful call reported
\* (thread.h:54-60, 122-139).
THEOREM GrantsHold == Spec => []RunsAsGranted
  <1>1. Inv => RunsAsGranted
    BY DEF Inv
  <1> QED
    BY <1>1, Invariance, PTL

------------------------------------------------------------------------------
(* A blocked join(). *)

\* While c waits in join(), its object and its thread are c's alone.
LEMMA BlockedJoin ==
  ASSUME Inv, NEW c \in Callers, frame[c].op = "join"
  PROVE  /\ frame[c].obj \in Objects
         /\ impl[frame[c].obj] \in Threads
         /\ impl[frame[c].obj] \notin joined \cup detached
         /\ frame[c] # Idle
         /\ \A o \in Objects : impl[o] = impl[frame[c].obj] => o = frame[c].obj
         /\ \A o \in Objects : Unshared(o) => o # frame[c].obj
         /\ \A d \in Callers : frame[d].obj = frame[c].obj => d = c
  <1>1. frame[c] # Idle /\ frame[c].obj \in Objects
    BY DEF Inv, TypeOK, Frames, FramesInv, Idle
  <1>2. impl[frame[c].obj] \in Threads
    BY <1>1 DEF Inv, FramesInv, TypeOK
  <1> QED
    BY <1>1, <1>2 DEF Inv, SingleOwner, Unreleased, FramesInv, Unshared

\* A step that keeps c's call, its object and the releases keeps the join.
LEMMA UntouchedJoin ==
  ASSUME Inv, NEW c \in Callers, frame'[c] = frame[c],
         frame[c].op = "join" =>
           /\ impl'[frame[c].obj] = impl[frame[c].obj]
           /\ impl[frame[c].obj] \notin joined' \cup detached'
  PROVE  JoinStaysOrReturns(c)
  BY DEF JoinStaysOrReturns

LEMMA StepJoin ==
  ASSUME Inv, NEW c \in Callers, NEW d \in Callers, Step(d)
  PROVE  JoinStaysOrReturns(c)
  <1> SUFFICES ASSUME frame[c].op = "join" PROVE JoinStaysOrReturns(c)
    BY DEF JoinStaysOrReturns
  <1> DEFINE b == frame[c].obj
             t == impl[b]
  <1>0. /\ b \in Objects /\ t \in Threads /\ t \notin joined \cup detached
        /\ frame[c] # Idle
        /\ \A o \in Objects : impl[o] = t => o = b
        /\ \A o \in Objects : Unshared(o) => o # b
        /\ \A e \in Callers : frame[e].obj = b => e = c
        /\ frame \in [Callers -> Frames] /\ impl \in [Objects -> Threads \cup {None}]
    BY BlockedJoin DEF Inv, TypeOK
  <1> HIDE DEF b, t
  <1>1. ASSUME ConstructRealtimeEnd(d) PROVE JoinStaysOrReturns(c)
    <2>1. d # c /\ frame' = [frame EXCEPT ![d] = Idle]
          /\ UNCHANGED <<impl, joined, detached>>
      BY <1>1 DEF ConstructRealtimeEnd
    <2> QED
      BY <1>0, <2>1, UntouchedJoin DEF b, t
  <1>2. ASSUME JoinEnd(d), d = c PROVE JoinStaysOrReturns(c)
    BY <1>0, <1>2 DEF JoinEnd, JoinReady, JoinStaysOrReturns, b, t
  <1>3. ASSUME JoinEnd(d), d # c PROVE JoinStaysOrReturns(c)
    <2>1. frame[d].obj \in Objects /\ frame[d].obj # b /\ impl[frame[d].obj] # t
      BY <1>0, <1>3, BlockedJoin DEF JoinEnd
    <2>2. /\ frame'[c] = frame[c] /\ impl'[b] = t
          /\ t \notin joined' \cup detached'
      BY <1>0, <1>3, <2>1 DEF JoinEnd, t
    <2> QED
      BY <2>2, UntouchedJoin DEF b, t
  <1>4. ASSUME NEW o \in Objects,
               \/ ConstructDefault(d, o) \/ Destroy(d, o) \/ Detach(d, o)
               \/ JoinBegin(d, o)
               \/ \E r \in Requests : TryScheduling(d, o, r) \/ ChangeScheduling(d, o, r)
        PROVE  JoinStaysOrReturns(c)
    <2>1. frame[d] = Idle /\ Unshared(o)
      BY <1>4 DEF ConstructDefault, Destroy, Detach, JoinBegin, TryScheduling,
                  ChangeScheduling, MayCall, Usable, Vacant
    <2>2. d # c /\ o # b /\ impl[o] # t
      BY <1>0, <2>1
    <2>3. /\ frame'[c] = frame[c] /\ impl'[b] = t
          /\ t \notin joined' \cup detached'
      BY <1>0, <1>4, <2>2 DEF ConstructDefault, Destroy, Detach, JoinBegin,
         TryScheduling, ChangeScheduling, t
    <2> QED
      BY <2>3, UntouchedJoin DEF b, t
  <1>5. ASSUME NEW o \in Objects, NEW p \in Objects,
               ConstructMove(d, o, p) \/ Assign(d, o, p) \/ Swap(d, o, p)
        PROVE  JoinStaysOrReturns(c)
    <2>1. Unshared(o) /\ Unshared(p)
      BY <1>5 DEF ConstructMove, Assign, Swap, Usable, Vacant
    <2>2. o # b /\ p # b
      BY <1>0, <2>1
    <2>3. /\ frame'[c] = frame[c] /\ impl'[b] = t
          /\ t \notin joined' \cup detached'
      BY <1>0, <1>5, <2>2 DEF ConstructMove, Assign, Swap, MoveImpl, t
    <2> QED
      BY <2>3, UntouchedJoin DEF b, t
  <1>6. ASSUME NEW o \in Objects, NEW u \in Threads,
               \/ Construct(d, o, u)
               \/ \E r \in Requests : ConstructRealtime(d, o, u, r)
        PROVE  JoinStaysOrReturns(c)
    <2>1. Unshared(o) /\ frame[d] = Idle
      BY <1>6 DEF Construct, ConstructRealtime, Vacant, MayCall
    <2>2. o # b /\ d # c
      BY <1>0, <2>1
    <2>3. /\ frame'[c] = frame[c] /\ impl'[b] = t
          /\ t \notin joined' \cup detached'
      BY <1>0, <1>6, <2>2 DEF Construct, ConstructRealtime, Start, t
    <2> QED
      BY <2>3, UntouchedJoin DEF b, t
  <1> QED
    BY <1>1, <1>2, <1>3, <1>4, <1>5, <1>6 DEF Step

\* Nothing that other threads do with their objects takes away the thread that
\* a blocked join() waits for (thread.h:93-101).
THEOREM JoinIsUndisturbed == Spec => JoinTargetStays
  <1>1. Inv /\ [Next]_vars => [\A c \in Callers : JoinStaysOrReturns(c)]_vars
    <2> SUFFICES ASSUME Inv, Next, NEW c \in Callers
                 PROVE  JoinStaysOrReturns(c) \/ UNCHANGED vars
      OBVIOUS
    <2>1. CASE \E d \in Callers : Step(d)
      BY <2>1, StepJoin
    <2>2. CASE (\E t \in Threads : ThreadExit(t)) \/ MainReturn
      <3>1. UNCHANGED <<impl, joined, detached, frame>>
        BY <2>2 DEF ThreadExit, MainReturn
      <3>2. frame[c].op = "join" => impl[frame[c].obj] \notin joined \cup detached
        BY BlockedJoin
      <3> QED
        BY <3>1, <3>2, UntouchedJoin
    <2>3. CASE Ended
      BY <2>3 DEF Ended
    <2> QED
      BY <2>1, <2>2, <2>3 DEF Next
  <1> QED
    BY <1>1, Invariance, PTL DEF Spec, JoinTargetStays

==============================================================================
