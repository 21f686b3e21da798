--------------------------- MODULE FifoOrderProofs ---------------------------
(***************************************************************************)
(* The properties of FifoOrder for any number of threads and any           *)
(* priorities, under Suitable.                                             *)
(*                                                                         *)
(* The invariant says that the threads end in the order in which they were *)
(* created and that the counter tells how many have (Ordered), how far     *)
(* main() is (LoopInv), and that the run queue keeps the order of creation *)
(* (QueueInv).  TheFirst is the heart of the argument: the thread that is  *)
(* on a core is the first that has not ended.                              *)
(***************************************************************************)
EXTENDS FifoOrder, TLAPS, FiniteSetTheorems

\* The threads 1..e have ended and no other has; only the next one can be inside
\* of its check and decrement, and what it has loaded is still the counter.
Ordered(e) ==
  /\ \A i \in Ids : thr[i] = "exited" <=> i <= e
  /\ global_value = First - e
  /\ \A i \in Ids : thr[i] \in {"load", "store"} => i = e + 1
  /\ \A i \in Ids : thr[i] = "store" => reg[i] = global_value

OrderInv == (\E e \in 0..N : Ordered(e)) /\ TestSucceeds

Created(i) == thr[i] # "unborn"

\* How far the loops of run() are.
LoopInv ==
  /\ main.pc # "end" => main.i \in Ids
  /\ process = "running" =>
       /\ main.pc = "create" => \A i \in Ids : Created(i) <=> i < main.i
       /\ main.pc = "change" =>
            /\ program.thread = "preempt::thread"
            /\ \A i \in Ids : Created(i) <=> i <= main.i
            /\ \A i \in Ids : i < main.i => thr[i] = "exited"
       /\ main.pc \in {"join", "end"} => \A i \in Ids : Created(i)
       /\ main.pc = "join" => \A i \in Ids : i < main.i => thr[i] = "exited"
       /\ main.pc = "end" => \A i \in Ids : thr[i] = "exited"

\* A thread that can run is a real-time thread with the setting of its table,
\* unless its constructor has yet to change it; equal priorities queue up in the
\* order of creation.
QueueInv ==
  process = "running" =>
    /\ \A i \in Ids :
         Ready(i) => \/ sched[i] = request(i)
                     \/ main.pc = "change" /\ i = main.i /\ sched[i] = Normal
    /\ \A i \in Ids : since[i] <= arrivals
    /\ program.policy = "SCHED_FIFO" =>
         \A i, j \in Ids : i < j /\ Rt(i) /\ Rt(j) => since[i] < since[j]

FifoInv == FifoTypeOK /\ OrderInv /\ LoopInv /\ QueueInv

Mains == [pc : {"create", "change", "join", "end"}, i : Nat]

------------------------------------------------------------------------------
(* The program and the scheduler. *)

\* What Suitable and the types say of the program that is executed.
LEMMA ProgramFacts ==
  ASSUME Suitable, FifoTypeOK
  PROVE  /\ N \in Nat /\ N >= 1 /\ Ids = 1..N
         /\ program.policy \in Realtime /\ program.policy \in Policies
         /\ \A i \in Ids : program.table[i] \in Int /\ program.table[i] > 0
         /\ \A i, j \in Ids : i < j => program.table[j] <= program.table[i]
         /\ program.policy = "SCHED_RR" =>
              \A i, j \in Ids : i < j => program.table[j] < program.table[i]
         /\ program.thread \in {"base::thread", "preempt::thread"}
         /\ program.thread = "preempt::thread" => program.cores = 1
<1>1. /\ program \in Programs
      /\ program.thread \in {"base::thread", "preempt::thread"}
      /\ program.policy \in Policies /\ program.table \in Seq(Int)
  BY FifoOrderAssumption DEF FifoTypeOK
<1>2. N \in Nat /\ Ids = 1..N /\ \A i \in Ids : program.table[i] \in Int
  BY <1>1 DEF N, Ids
<1>3. N >= 1
  BY <1>1, <1>2 DEF Suitable, N
<1>4. \A i, j \in Ids : i < j =>
        IF program.policy = "SCHED_RR" THEN program.table[j] < program.table[i]
        ELSE program.table[j] <= program.table[i]
  BY <1>1, Zenon DEF Suitable, Ids
<1>5. \A i, j \in Ids : i < j => program.table[j] <= program.table[i]
  BY <1>2, <1>4
<1>6. \A i \in Ids : program.table[i] > 0
  BY <1>1, Zenon DEF Suitable, Ids
<1>7. program.policy \in Realtime /\ (program.thread = "preempt::thread" => program.cores = 1)
  BY <1>1, Zenon DEF Suitable
<1> QED
  BY <1>1, <1>2, <1>3, <1>4, <1>5, <1>6, <1>7

LEMMA RequestFacts ==
  ASSUME Suitable, FifoTypeOK, NEW i \in Ids
  PROVE  /\ request(i) \in Sched
         /\ request(i).policy = program.policy /\ request(i).priority = program.table[i]
         /\ request(i).policy \in Realtime
         /\ PriorityVerified(request(i))
  BY ProgramFacts DEF request, Sched, PriorityVerified

\* Nobody precedes a real-time thread that is on the core.
LEMMA CoreIsFirst ==
  ASSUME Suitable, FifoTypeOK, NEW i \in Ids, Rt(i), OnCpu(i)
  PROVE  \A j \in Ids : ~Precedes(j, i)
<1> DEFINE S == {j \in Ids : Precedes(j, i)}
<1>1. N \in Nat /\ Ids = 1..N
  BY ProgramFacts
<1>2. IsFiniteSet(Ids)
  BY <1>1, FS_Interval
<1>3. IsFiniteSet(S)
  BY <1>2, FS_Subset
<1>4. Cardinality(S) < 1
  BY Zenon DEF OnCpu, Suitable
<1> HIDE DEF S
<1>5. Cardinality(S) = 0
  BY <1>3, <1>4, FS_CardinalityType
<1>6. S = {}
  BY <1>3, <1>5, FS_EmptySet, Zenon
<1> QED
  BY <1>6 DEF S

\* On a machine with one core, nothing normal runs next to a real-time thread.
LEMMA OneCore ==
  ASSUME Suitable, FifoTypeOK, program.cores = 1, NormalRuns
  PROVE  \A j \in Ids : ~Rt(j)
<1> DEFINE S == {j \in Ids : Rt(j)}
<1>1. N \in Nat /\ Ids = 1..N
  BY ProgramFacts
<1>2. IsFiniteSet(Ids)
  BY <1>1, FS_Interval
<1>3. IsFiniteSet(S)
  BY <1>2, FS_Subset
<1>4. RtCores = 1
  BY DEF Suitable
<1>5. Cardinality(S) < 1
  BY <1>4 DEF NormalRuns
<1> HIDE DEF S
<1>6. Cardinality(S) = 0
  BY <1>3, <1>5, FS_CardinalityType
<1>7. S = {}
  BY <1>3, <1>6, FS_EmptySet, Zenon
<1> QED
  BY <1>7 DEF S

\* The thread that is on a core is the first that has not ended.
LEMMA TheFirst ==
  ASSUME Suitable, FifoTypeOK, LoopInv, QueueInv, process = "running",
         NEW i \in Ids, Ready(i), OnCpu(i), NEW e \in 0..N, Ordered(e)
  PROVE  i = e + 1
<1>1. N \in Nat /\ Ids = 1..N
  BY ProgramFacts
<1>2. i > e
  BY <1>1 DEF Ready, Ordered
<1>3. SUFFICES ASSUME e + 1 < i PROVE FALSE
  BY <1>1, <1>2
<1>4. e + 1 \in Ids /\ thr[e + 1] # "exited"
  BY <1>1, <1>3 DEF Ordered
<1>5. main.pc \in {"create", "change", "join", "end"} /\ main.i \in Nat
  BY DEF FifoTypeOK
<1>6. main.pc # "change"
  BY <1>1, <1>3, <1>4, <1>5 DEF LoopInv, Created, Ready
<1>7. Created(e + 1)
  BY <1>1, <1>3, <1>4, <1>5, <1>6 DEF LoopInv, Created, Ready
<1>8. Ready(e + 1)
  BY <1>4, <1>7 DEF Ready, Created
<1>9. sched[i] = request(i) /\ sched[e + 1] = request(e + 1)
  BY <1>4, <1>6, <1>8 DEF QueueInv
<1>10. Rt(i) /\ Rt(e + 1)
  BY <1>4, <1>8, <1>9, RequestFacts DEF Rt
<1>11. Precedes(e + 1, i)
  <2>1. sched[e + 1].priority = program.table[e + 1] /\ sched[i].priority = program.table[i]
    BY <1>4, <1>9, RequestFacts
  <2>2. CASE program.policy = "SCHED_RR"
    BY <1>3, <1>4, <1>10, <2>1, <2>2, ProgramFacts DEF Precedes
  <2>3. CASE program.policy = "SCHED_FIFO"
    <3>1. since[e + 1] < since[i]
      BY <1>3, <1>4, <1>10, <2>3 DEF QueueInv
    <3>2. program.table[i] <= program.table[e + 1]
      BY <1>3, <1>4, ProgramFacts
    <3> QED
      BY <1>4, <1>10, <2>1, <3>1, <3>2, ProgramFacts DEF Precedes
  <2> QED
    BY <2>2, <2>3, ProgramFacts DEF Realtime
<1> QED
  BY <1>4, <1>10, <1>11, CoreIsFirst

------------------------------------------------------------------------------
(* Types. *)

LEMMA Typed ==
  FifoTypeOK <=>
    /\ program \in Programs
    /\ main \in Mains
    /\ thr \in [Ids -> {"unborn", "entry", "load", "store", "exited"}]
    /\ reg \in [Ids -> Int]
    /\ global_value \in Int
    /\ verify \in BOOLEAN
    /\ sched \in [Ids -> Sched]
    /\ since \in [Ids -> Nat]
    /\ arrivals \in Nat /\ slices \in Nat
    /\ process \in {"running", "success", "failure", "refused"}
  BY Zenon DEF FifoTypeOK, Mains

\* What no step changes.
LEMMA SameProgram ==
  ASSUME UNCHANGED program
  PROVE  /\ Ids' = Ids /\ N' = N
         /\ \A i : request(i)' = request(i)
  BY DEF Ids, N, request

LEMMA NextRoundTyped ==
  ASSUME main \in Mains, N \in Nat,
         NEW pc \in {"create", "join"}, NEW next \in {"join", "end"}
  PROVE  /\ NextRound(pc, next) \in Mains
         /\ main.i < N => NextRound(pc, next).pc = pc /\ NextRound(pc, next).i = main.i + 1
         /\ main.i >= N => NextRound(pc, next).pc = next /\ NextRound(pc, next).i = 1
  BY DEF NextRound, Mains

LEMMA InitTypes == Suitable /\ FifoInit => FifoTypeOK
<1> SUFFICES ASSUME Suitable, FifoInit PROVE FifoTypeOK
  OBVIOUS
<1>1. Normal \in Sched
  BY DEF Normal, Sched, Policies
<1>2. [pc |-> "create", i |-> 1] \in Mains
  BY DEF Mains
<1>3. First \in Int
  BY FifoOrderAssumption
<1>4. verify \in BOOLEAN
  BY Zenon DEF FifoInit
<1> QED
  BY <1>1, <1>2, <1>3, <1>4, Typed DEF FifoInit

\* The steps of run() that give thread i a place in the queue.
LEMMA EnqueueTyped ==
  ASSUME sched \in [Ids -> Sched], since \in [Ids -> Nat], arrivals \in Nat,
         NEW i \in Ids, NEW r \in Sched, Enqueue(i, r)
  PROVE  /\ sched' \in [Ids -> Sched] /\ since' \in [Ids -> Nat] /\ arrivals' \in Nat
         /\ sched'[i] = r /\ since'[i] = arrivals + 1 /\ arrivals' = arrivals + 1
         /\ \A j \in Ids : j # i => sched'[j] = sched[j] /\ since'[j] = since[j]
  BY DEF Enqueue

LEMMA NextTypes == Suitable /\ FifoTypeOK /\ LoopInv /\ [FifoNext]_fifoVars => FifoTypeOK'
<1> SUFFICES ASSUME Suitable, FifoTypeOK, LoopInv, [FifoNext]_fifoVars PROVE FifoTypeOK'
  OBVIOUS
<1> DEFINE Types ==
      /\ program' \in Programs
      /\ main' \in Mains
      /\ thr' \in [Ids -> {"unborn", "entry", "load", "store", "exited"}]
      /\ reg' \in [Ids -> Int]
      /\ global_value' \in Int
      /\ verify' \in BOOLEAN
      /\ sched' \in [Ids -> Sched]
      /\ since' \in [Ids -> Nat]
      /\ arrivals' \in Nat /\ slices' \in Nat
      /\ process' \in {"running", "success", "failure", "refused"}
<1>0. /\ program \in Programs
      /\ main \in Mains
      /\ thr \in [Ids -> {"unborn", "entry", "load", "store", "exited"}]
      /\ reg \in [Ids -> Int]
      /\ global_value \in Int
      /\ verify \in BOOLEAN
      /\ sched \in [Ids -> Sched]
      /\ since \in [Ids -> Nat]
      /\ arrivals \in Nat /\ slices \in Nat
      /\ process \in {"running", "success", "failure", "refused"}
  BY Typed
<1>n. N \in Nat
  BY ProgramFacts
<1>u. UNCHANGED program
  BY DEF FifoNext, MainStep, ThreadStep, Create, Construct, Change, Join, Return, Check, Load,
         Store, SliceExpires, fifoVars
<1>t. Types => FifoTypeOK'
  <2>1. Ids' = Ids
    BY <1>u, SameProgram
  <2> QED
    BY <2>1, Zenon DEF FifoTypeOK, Mains
<1> HIDE DEF Types
<1>i. main.pc # "end" => main.i \in Ids
  BY DEF LoopInv
<1>1. ASSUME Create PROVE Types
  <2>1. main.i \in Ids /\ request(main.i) \in Sched
    BY <1>1, <1>i, RequestFacts DEF Create, MainAt
  <2>2. verify' \in BOOLEAN
    BY <1>1, Zenon DEF Create
  <2>3. CASE /\ thr' = [thr EXCEPT ![main.i] = "entry"]
             /\ Enqueue(main.i, request(main.i))
             /\ main' = NextRound("create", "join")
             /\ UNCHANGED process
    <3>1. main' \in Mains
      BY <1>0, <1>n, <2>3, NextRoundTyped
    <3>2. sched' \in [Ids -> Sched] /\ since' \in [Ids -> Nat] /\ arrivals' \in Nat
      BY <1>0, <2>1, <2>3, EnqueueTyped
    <3> QED
      BY <1>0, <1>1, <2>2, <2>3, <3>1, <3>2 DEF Create, Types
  <2>4. CASE process' = "refused" /\ UNCHANGED <<main, thr, sched, since, arrivals>>
    BY <1>0, <1>1, <2>2, <2>4 DEF Create, Types
  <2> QED
    BY <1>1, <2>3, <2>4 DEF Create, CreatedSched
<1>2. ASSUME Construct PROVE Types
  <2>1. verify' \in BOOLEAN
    BY <1>2, Zenon DEF Construct
  <2>2. main' \in Mains
    BY <1>0, <1>2 DEF Construct, Mains
  <2>3. Normal \in Sched
    BY DEF Normal, Sched, Policies
  <2> QED
    BY <1>0, <1>2, <2>1, <2>2, <2>3 DEF Construct, Types
<1>3. ASSUME Change PROVE Types
  <2>1. main.i \in Ids /\ request(main.i) \in Sched
    BY <1>3, <1>i, RequestFacts DEF Change, MainAt
  <2>2. verify' \in BOOLEAN
    BY <1>3, Zenon DEF Change
  <2>3. main' \in Mains
    BY <1>0, <1>3, <1>n, NextRoundTyped DEF Change
  <2>4. CASE Enqueue(main.i, request(main.i)) /\ UNCHANGED process
    <3>1. sched' \in [Ids -> Sched] /\ since' \in [Ids -> Nat] /\ arrivals' \in Nat
      BY <1>0, <2>1, <2>4, EnqueueTyped
    <3> QED
      BY <1>0, <1>3, <2>2, <2>3, <2>4, <3>1 DEF Change, Types
  <2>5. CASE UNCHANGED <<sched, since, arrivals>> /\ process' \in {process, "refused"}
    BY <1>0, <1>3, <2>2, <2>3, <2>5 DEF Change, Types
  <2> QED
    BY <1>3, <2>4, <2>5 DEF Change, ChangeRequest
<1>4. ASSUME Join PROVE Types
  <2>1. main' \in Mains
    BY <1>0, <1>4, <1>n, NextRoundTyped DEF Join, JoinRound
  <2> QED
    BY <1>0, <1>4, <2>1 DEF Join, Types
<1>5. ASSUME Return PROVE Types
  <2>1. verify' \in BOOLEAN
    BY <1>5, Zenon DEF Return
  <2> QED
    BY <1>0, <1>5, <2>1 DEF Return, Types
<1>6. ASSUME NEW i \in Ids, Check(i) PROVE Types
  <2>1. verify' \in BOOLEAN
    BY <1>6, Zenon DEF Check
  <2> QED
    BY <1>0, <1>6, <2>1 DEF Check, Types
<1>7. ASSUME NEW i \in Ids, Load(i) PROVE Types
  BY <1>0, <1>7 DEF Load, Types
<1>8. ASSUME NEW i \in Ids, Store(i) PROVE Types
  BY <1>0, <1>8 DEF Store, Types
<1>9. ASSUME NEW i \in Ids, SliceExpires(i) PROVE Types
  <2>1. sched' \in [Ids -> Sched] /\ since' \in [Ids -> Nat] /\ arrivals' \in Nat
    BY <1>0, <1>9, EnqueueTyped DEF SliceExpires
  <2> QED
    BY <1>0, <1>9, <2>1 DEF SliceExpires, Types
<1>10. ASSUME UNCHANGED fifoVars PROVE Types
  BY <1>0, <1>10 DEF fifoVars, Types
<1> QED
  BY <1>t, <1>1, <1>2, <1>3, <1>4, <1>5, <1>6, <1>7, <1>8, <1>9, <1>10
     DEF FifoNext, MainStep, ThreadStep

------------------------------------------------------------------------------
(* The order of the threads. *)

LEMMA InitFifo == Suitable /\ FifoInit => FifoInv
<1> SUFFICES ASSUME Suitable, FifoInit PROVE FifoInv
  OBVIOUS
<1>1. FifoTypeOK
  BY InitTypes
<1>2. N \in Nat /\ N >= 1 /\ Ids = 1..N /\ First \in Int
  BY <1>1, ProgramFacts, FifoOrderAssumption
<1>3. 0 \in 0..N /\ Ordered(0)
  BY <1>2 DEF FifoInit, Ordered
<1>4. TestSucceeds
  BY Zenon DEF FifoInit, TestSucceeds
<1>5. LoopInv
  BY <1>2 DEF FifoInit, LoopInv, Created
<1>6. QueueInv
  BY DEF FifoInit, QueueInv, Ready, Rt
<1> QED
  BY <1>1, <1>3, <1>4, <1>5, <1>6 DEF FifoInv, OrderInv

LEMMA SameOrder ==
  ASSUME UNCHANGED <<program, thr, reg, global_value>>, NEW e \in 0..N, Ordered(e)
  PROVE  (\E f \in 0..N : Ordered(f))'
<1>1. Ids' = Ids /\ N' = N
  BY SameProgram
<1>2. Ordered(e)'
  BY <1>1 DEF Ordered
<1> QED
  BY <1>1, <1>2

\* A thread that is started has not ended.
LEMMA StartOrder ==
  ASSUME FifoTypeOK, UNCHANGED <<program, reg, global_value>>, NEW e \in 0..N, Ordered(e),
         NEW i \in Ids, thr[i] = "unborn", thr' = [thr EXCEPT ![i] = "entry"]
  PROVE  (\E f \in 0..N : Ordered(f))'
<1>1. Ids' = Ids /\ N' = N
  BY SameProgram
<1>2. thr \in [Ids -> {"unborn", "entry", "load", "store", "exited"}]
  BY Typed
<1>3. Ordered(e)'
  BY <1>1, <1>2 DEF Ordered
<1> QED
  BY <1>1, <1>3

\* The steps of the threads: only the first that has not ended is on a core.
LEMMA ThreadOrder ==
  ASSUME Suitable, FifoInv, NEW i \in Ids, ThreadStep(i)
  PROVE  OrderInv'
<1>0. /\ FifoTypeOK /\ LoopInv /\ QueueInv /\ verify /\ process = "running"
      /\ thr \in [Ids -> {"unborn", "entry", "load", "store", "exited"}]
      /\ reg \in [Ids -> Int] /\ global_value \in Int
      /\ N \in Nat /\ Ids = 1..N /\ First \in Int
  BY Typed, ProgramFacts, FifoOrderAssumption
     DEF FifoInv, OrderInv, TestSucceeds, ThreadStep, Check, Load, Store, ThreadAt
<1>1. PICK e \in 0..N : Ordered(e)
  BY DEF FifoInv, OrderInv
<1>2. i = e + 1
  BY <1>0, <1>1, TheFirst DEF ThreadStep, Check, Load, Store, ThreadAt, Ready
<1>3. Ids' = Ids /\ N' = N
  BY SameProgram DEF ThreadStep, Check, Load, Store
<1>4. e \in Int /\ i \in 1..N
  BY <1>0, <1>1
<1>5. CASE Check(i)
  <2>1. global_value = First - (i - 1)
    BY <1>0, <1>1, <1>2, <1>4 DEF Ordered
  <2>2. verify' /\ process' # "failure"
    BY <1>0, <1>5, <2>1, Zenon DEF Check
  <2>3. /\ UNCHANGED <<reg, global_value>> /\ thr[i] = "entry"
        /\ thr' = [thr EXCEPT ![i] = "load"]
    BY <1>5 DEF Check, ThreadAt
  <2>4. Ordered(e)'
    BY <1>0, <1>1, <1>2, <1>3, <2>3 DEF Ordered
  <2> QED
    BY <1>1, <1>3, <2>2, <2>4 DEF OrderInv, TestSucceeds
<1>6. CASE Load(i)
  <2>1. /\ reg' = [reg EXCEPT ![i] = global_value] /\ thr' = [thr EXCEPT ![i] = "store"]
        /\ thr[i] = "load" /\ UNCHANGED <<global_value, verify, process>>
    BY <1>6 DEF Load, ThreadAt
  <2>2. Ordered(e)'
    BY <1>0, <1>1, <1>2, <1>3, <1>4, <2>1 DEF Ordered
  <2> QED
    BY <1>0, <1>1, <1>3, <2>1, <2>2 DEF OrderInv, TestSucceeds
<1>7. CASE Store(i)
  <2>1. /\ global_value' = reg[i] - 1 /\ thr' = [thr EXCEPT ![i] = "exited"]
        /\ thr[i] = "store" /\ UNCHANGED <<reg, verify, process>>
    BY <1>7 DEF Store, ThreadAt
  <2>2. global_value' = First - (e + 1)
    BY <1>0, <1>1, <1>4, <2>1 DEF Ordered
  <2>3. \A j \in Ids : thr'[j] = "exited" <=> j <= e + 1
    BY <1>0, <1>1, <1>2, <1>4, <2>1 DEF Ordered
  <2>4. \A j \in Ids : thr'[j] \notin {"load", "store"}
    BY <1>0, <1>1, <1>2, <1>4, <2>1 DEF Ordered
  <2>5. e + 1 \in 0..N /\ Ordered(e + 1)'
    BY <1>0, <1>2, <1>3, <1>4, <2>2, <2>3, <2>4 DEF Ordered
  <2> QED
    BY <1>0, <1>3, <2>1, <2>5 DEF OrderInv, TestSucceeds
<1> QED
  BY <1>5, <1>6, <1>7 DEF ThreadStep

\* The steps of main(): no VERIFY fails.
LEMMA MainOrder ==
  ASSUME Suitable, FifoInv, MainStep
  PROVE  OrderInv'
<1>0. /\ FifoTypeOK /\ LoopInv /\ QueueInv /\ verify /\ process = "running"
      /\ thr \in [Ids -> {"unborn", "entry", "load", "store", "exited"}]
      /\ N \in Nat /\ N >= 1 /\ Ids = 1..N /\ First \in Int /\ main \in Mains
  BY Typed, ProgramFacts, FifoOrderAssumption
     DEF FifoInv, OrderInv, TestSucceeds, MainStep, MainAt,
         Create, Construct, Change, Join, Return
<1>1. PICK e \in 0..N : Ordered(e)
  BY DEF FifoInv, OrderInv
<1>3. Ids' = Ids /\ N' = N
  BY SameProgram DEF MainStep, Create, Construct, Change, Join, Return
<1>v. ASSUME NEW i \in Ids
      PROVE  TableVerified(i) /\ PriorityVerified(request(i))
  <2>1. i = 1 \/ (i - 1 \in Ids /\ i - 1 < i)
    BY <1>0
  <2> QED
    BY <1>0, <2>1, ProgramFacts, RequestFacts DEF TableVerified
<1>5. CASE Create
  <2>1. main.i \in Ids /\ thr[main.i] = "unborn"
    BY <1>0, <1>5 DEF Create, MainAt, LoopInv, Created
  <2>2. verify' /\ process' # "failure"
    <3>1. verify' = (verify /\ TableVerified(main.i) /\ PriorityVerified(request(main.i)))
      BY <1>5, Zenon DEF Create
    <3>2. verify'
      BY <1>0, <1>v, <2>1, <3>1, Zenon
    <3> QED
      BY <1>0, <1>5, <3>2 DEF Create
  <2>3. UNCHANGED <<program, reg, global_value>>
        /\ (thr' = [thr EXCEPT ![main.i] = "entry"] \/ UNCHANGED thr)
    BY <1>5 DEF Create
  <2>4. (\E f \in 0..N : Ordered(f))'
    BY <1>0, <1>1, <2>1, <2>3, StartOrder, SameOrder
  <2> QED
    BY <2>2, <2>4 DEF OrderInv, TestSucceeds
<1>6. CASE Construct
  <2>1. main.i \in Ids /\ thr[main.i] = "unborn"
    BY <1>0, <1>6 DEF Construct, MainAt, LoopInv, Created
  <2>2. verify' /\ process' # "failure"
    <3>1. verify' = (verify /\ TableVerified(main.i)) /\ process' = process
      BY <1>6, Zenon DEF Construct
    <3>2. verify'
      BY <1>0, <1>v, <2>1, <3>1, Zenon
    <3> QED
      BY <1>0, <3>1, <3>2
  <2>3. UNCHANGED <<program, reg, global_value>> /\ thr' = [thr EXCEPT ![main.i] = "entry"]
    BY <1>6 DEF Construct
  <2>4. (\E f \in 0..N : Ordered(f))'
    BY <1>0, <1>1, <2>1, <2>3, StartOrder
  <2> QED
    BY <2>2, <2>4 DEF OrderInv, TestSucceeds
<1>7. CASE Change
  <2>1. main.i \in Ids
    BY <1>0, <1>7 DEF Change, MainAt, LoopInv
  <2>2. verify' /\ process' # "failure"
    <3>1. verify' = (verify /\ PriorityVerified(request(main.i)))
      BY <1>7, Zenon DEF Change
    <3>2. verify'
      BY <1>0, <1>v, <2>1, <3>1, Zenon
    <3> QED
      BY <1>0, <1>7, <3>2 DEF Change
  <2>3. (\E f \in 0..N : Ordered(f))'
    BY <1>1, <1>7, SameOrder DEF Change
  <2> QED
    BY <2>2, <2>3 DEF OrderInv, TestSucceeds
<1>8. CASE Join
  <2>1. (\E f \in 0..N : Ordered(f))'
    BY <1>1, <1>8, SameOrder DEF Join
  <2> QED
    BY <1>0, <1>8, <2>1 DEF Join, OrderInv, TestSucceeds
<1>9. CASE Return
  <2>1. \A i \in Ids : thr[i] = "exited"
    BY <1>0, <1>9 DEF Return, MainAt, LoopInv
  <2>2. e = N
    BY <1>0, <1>1, <2>1 DEF Ordered
  <2>3. global_value = First - N
    BY <1>1, <2>2 DEF Ordered
  <2>4. verify'
    BY <1>0, <1>9, <2>3, Zenon DEF Return
  <2>5. process' # "failure"
    BY <1>9, <2>4 DEF Return
  <2>6. (\E f \in 0..N : Ordered(f))'
    BY <1>1, <1>9, SameOrder DEF Return
  <2> QED
    BY <2>4, <2>5, <2>6 DEF OrderInv, TestSucceeds
<1> QED
  BY <1>5, <1>6, <1>7, <1>8, <1>9 DEF MainStep

------------------------------------------------------------------------------
(* The loops and the run queue. *)

LEMMA ThreadLoops ==
  ASSUME Suitable, FifoInv, NEW i \in Ids, ThreadStep(i)
  PROVE  LoopInv' /\ QueueInv'
<1>0. /\ thr \in [Ids -> {"unborn", "entry", "load", "store", "exited"}]
      /\ LoopInv /\ QueueInv
  BY Typed DEF FifoInv
<1>1. /\ UNCHANGED <<program, main, sched, since, arrivals, process>>
      /\ thr[i] \in {"entry", "load", "store"}
      /\ \E pc \in {"load", "store", "exited"} : thr' = [thr EXCEPT ![i] = pc]
  BY DEF ThreadStep, Check, Load, Store, ThreadAt
<1>2. Ids' = Ids /\ \A j : request(j)' = request(j)
  BY <1>1, SameProgram
<1>3. \A j \in Ids : /\ Created(j)' <=> Created(j)
                     /\ thr[j] = "exited" => thr'[j] = "exited"
                     /\ Ready(j)' => Ready(j)
                     /\ Rt(j)' => Rt(j)
  BY <1>0, <1>1 DEF Created, Ready, Rt
<1>4. LoopInv'
  BY <1>0, <1>1, <1>2, <1>3 DEF LoopInv
<1>5. QueueInv'
  BY <1>0, <1>1, <1>2, <1>3 DEF QueueInv
<1> QED
  BY <1>4, <1>5

\* Only a thread of a SCHED_RR program loses its place to an expired slice.
LEMMA SliceLoops ==
  ASSUME Suitable, FifoInv, NEW i \in Ids, SliceExpires(i)
  PROVE  LoopInv' /\ QueueInv' /\ OrderInv'
<1>0. /\ sched \in [Ids -> Sched] /\ since \in [Ids -> Nat] /\ arrivals \in Nat
      /\ FifoTypeOK /\ LoopInv /\ QueueInv /\ OrderInv
  BY Typed DEF FifoInv
<1>1. /\ UNCHANGED <<program, main, thr, reg, global_value, verify, process>>
      /\ Rt(i) /\ sched[i].policy = "SCHED_RR" /\ Enqueue(i, sched[i]) /\ process = "running"
  BY DEF SliceExpires
<1>2. Ids' = Ids /\ \A j : request(j)' = request(j)
  BY <1>1, SameProgram
<1>3. /\ \A j \in Ids : sched'[j] = sched[j]
      /\ \A j \in Ids : since'[j] = IF j = i THEN arrivals + 1 ELSE since[j]
      /\ arrivals' = arrivals + 1
  BY <1>0, <1>1, EnqueueTyped
<1>4. sched[i] = request(i)
  BY <1>0, <1>1 DEF QueueInv, Rt, Normal
<1>5. program.policy = "SCHED_RR"
  BY <1>0, <1>1, <1>4, RequestFacts
<1>6. LoopInv'
  BY <1>0, <1>1, <1>2 DEF LoopInv, Created
<1>7. QueueInv'
  BY <1>0, <1>1, <1>2, <1>3, <1>5 DEF QueueInv, Ready
<1>8. (\E e \in 0..N : Ordered(e))'
  BY <1>0, <1>1, SameOrder DEF OrderInv
<1>9. OrderInv'
  BY <1>0, <1>1, <1>8 DEF OrderInv, TestSucceeds
<1> QED
  BY <1>6, <1>7, <1>9

\* A thread that has its real-time place leaves main() at the next round, which
\* is what base::thread and the second half of preempt::thread have in common.
LEMMA RoundLoops ==
  ASSUME Suitable, FifoInv, process = "running",
         NEW i \in Ids, i = main.i, main' = NextRound("create", "join"),
         UNCHANGED <<program, process>>,
         \A j \in Ids : Created(j)' <=> j <= i,
         \A j \in Ids : j # i =>
           (Ready(j)' => Ready(j)) /\ sched'[j] = sched[j] /\ since'[j] = since[j],
         Ready(i)' => sched'[i] = request(i) /\ since'[i] = arrivals + 1,
         since'[i] <= arrivals', arrivals' \in {arrivals, arrivals + 1}
  PROVE  LoopInv' /\ QueueInv'
<1>0. /\ since \in [Ids -> Nat] /\ arrivals \in Nat /\ main \in Mains
      /\ LoopInv /\ QueueInv /\ N \in Nat /\ N >= 1 /\ Ids = 1..N
  BY Typed, ProgramFacts DEF FifoInv
<1>2. Ids' = Ids /\ \A j : request(j)' = request(j)
  BY SameProgram
<1>3. /\ main.i < N => main'.pc = "create" /\ main'.i = main.i + 1
      /\ main.i >= N => main'.pc = "join" /\ main'.i = 1
  BY <1>0, NextRoundTyped
<1>4. LoopInv'
  <2>1. CASE i < N
    BY <1>0, <1>2, <1>3, <2>1 DEF LoopInv
  <2>2. CASE i >= N
    BY <1>0, <1>2, <1>3, <2>2 DEF LoopInv
  <2> QED
    BY <1>0, <2>1, <2>2
<1>5. \A j \in Ids : Ready(j)' => sched'[j] = request(j)
  BY <1>0 DEF QueueInv
<1>6. \A j \in Ids : since'[j] <= arrivals'
  BY <1>0 DEF QueueInv
<1>7. ASSUME program.policy = "SCHED_FIFO", NEW j \in Ids, NEW k \in Ids, j < k,
             Rt(j)', Rt(k)'
      PROVE  since'[j] < since'[k]
  <2>1. Ready(j)' /\ Ready(k)'
    BY <1>7 DEF Rt
  <2>2. j <= i /\ k <= i
    BY <2>1 DEF Ready, Created
  <2>3. j # i
    BY <1>0, <1>7, <2>2
  <2>4. since'[j] = since[j] /\ since[j] <= arrivals /\ sched'[j] = sched[j] /\ Ready(j)
    BY <1>0, <2>1, <2>3 DEF QueueInv
  <2>5. CASE k = i
    BY <1>0, <2>1, <2>4, <2>5
  <2>6. CASE k # i
    <3>1. Ready(k) /\ sched'[k] = sched[k] /\ since'[k] = since[k]
      BY <2>1, <2>6
    <3>2. Rt(j) /\ Rt(k)
      BY <1>7, <2>4, <3>1 DEF Rt
    <3> QED
      BY <1>0, <1>7, <2>4, <3>1, <3>2 DEF QueueInv
  <2> QED
    BY <2>5, <2>6
<1>8. QueueInv'
  BY <1>2, <1>5, <1>6, <1>7 DEF QueueInv
<1> QED
  BY <1>4, <1>8

LEMMA CreateLoops ==
  ASSUME Suitable, FifoInv, Create
  PROVE  LoopInv' /\ QueueInv'
<1>0. /\ thr \in [Ids -> {"unborn", "entry", "load", "store", "exited"}]
      /\ sched \in [Ids -> Sched] /\ since \in [Ids -> Nat] /\ arrivals \in Nat
      /\ FifoTypeOK /\ LoopInv /\ QueueInv /\ N \in Nat /\ Ids = 1..N
  BY Typed, ProgramFacts DEF FifoInv
<1>1. /\ process = "running" /\ main.pc = "create" /\ main.i \in Ids /\ UNCHANGED program
      /\ \A j \in Ids : Created(j) <=> j < main.i
  BY <1>0 DEF Create, MainAt, LoopInv
<1>2. PICK i \in Ids : i = main.i
  BY <1>1
<1>3. CASE process' = "refused" /\ UNCHANGED <<main, thr, sched, since, arrivals>>
  <2>1. Ids' = Ids
    BY <1>1, SameProgram
  <2> QED
    BY <1>1, <1>3, <2>1 DEF LoopInv, QueueInv
<1>4. CASE /\ thr' = [thr EXCEPT ![i] = "entry"] /\ Enqueue(i, request(i))
           /\ main' = NextRound("create", "join") /\ UNCHANGED process
  <2>1. request(i) \in Sched
    BY <1>0, RequestFacts
  <2>2. /\ sched'[i] = request(i) /\ since'[i] = arrivals + 1 /\ arrivals' = arrivals + 1
        /\ \A j \in Ids : j # i => sched'[j] = sched[j] /\ since'[j] = since[j]
    BY <1>0, <1>4, <2>1, EnqueueTyped
  <2>3. \A j \in Ids : Created(j)' <=> j <= i
    BY <1>0, <1>1, <1>2, <1>4 DEF Created
  <2>4. \A j \in Ids : j # i => (Ready(j)' => Ready(j))
    BY <1>0, <1>4 DEF Ready
  <2>5. since'[i] <= arrivals' /\ arrivals' \in {arrivals, arrivals + 1}
    BY <1>0, <2>2
  <2> QED
    BY <1>1, <1>2, <1>4, <2>2, <2>3, <2>4, <2>5, RoundLoops
<1> QED
  BY <1>2, <1>3, <1>4 DEF Create, CreatedSched

\* The first half of preempt::thread's constructor runs when no real-time thread
\* is left, so all older threads have ended.
LEMMA ConstructLoops ==
  ASSUME Suitable, FifoInv, Construct
  PROVE  LoopInv' /\ QueueInv'
<1>0. /\ thr \in [Ids -> {"unborn", "entry", "load", "store", "exited"}]
      /\ sched \in [Ids -> Sched] /\ main \in Mains
      /\ FifoTypeOK /\ LoopInv /\ QueueInv /\ N \in Nat /\ Ids = 1..N
  BY Typed, ProgramFacts DEF FifoInv
<1>1. /\ process = "running" /\ main.pc = "create" /\ main.i \in Ids
      /\ program.thread = "preempt::thread" /\ NormalRuns
      /\ \A j \in Ids : Created(j) <=> j < main.i
      /\ UNCHANGED <<program, since, arrivals, process>>
  BY <1>0 DEF Construct, MainAt, LoopInv
<1>2. PICK i \in Ids : i = main.i
  BY <1>1
<1>3. /\ thr' = [thr EXCEPT ![i] = "entry"] /\ sched' = [sched EXCEPT ![i] = Normal]
      /\ main'.pc = "change" /\ main'.i = i
  BY <1>0, <1>2 DEF Construct, Mains
<1>4. Ids' = Ids /\ \A j : request(j)' = request(j)
  BY <1>1, SameProgram
<1>5. \A j \in Ids : ~Rt(j)
  BY <1>0, <1>1, OneCore, ProgramFacts
<1>6. \A j \in Ids : j < i => thr[j] = "exited"
  <2> SUFFICES ASSUME NEW j \in Ids, j < i, thr[j] # "exited" PROVE FALSE
    OBVIOUS
  <2>1. Ready(j)
    BY <1>1, <1>2 DEF Ready, Created
  <2>2. sched[j] = request(j)
    BY <1>0, <1>1, <2>1 DEF QueueInv
  <2> QED
    BY <1>0, <1>5, <2>1, <2>2, RequestFacts DEF Rt
<1>7. LoopInv'
  BY <1>0, <1>1, <1>2, <1>3, <1>4, <1>6 DEF LoopInv, Created
<1>8. \A j \in Ids : /\ j # i => (Ready(j)' => Ready(j))
                     /\ sched'[j] = IF j = i THEN Normal ELSE sched[j]
  BY <1>0, <1>3 DEF Ready
<1>9. \A j \in Ids : ~Rt(j)'
  BY <1>5, <1>8 DEF Rt, Normal, Realtime
<1>10. QueueInv'
  BY <1>0, <1>1, <1>3, <1>4, <1>8, <1>9 DEF QueueInv
<1> QED
  BY <1>7, <1>10

LEMMA ChangeLoops ==
  ASSUME Suitable, FifoInv, Change
  PROVE  LoopInv' /\ QueueInv'
<1>0. /\ thr \in [Ids -> {"unborn", "entry", "load", "store", "exited"}]
      /\ sched \in [Ids -> Sched] /\ since \in [Ids -> Nat] /\ arrivals \in Nat
      /\ FifoTypeOK /\ LoopInv /\ QueueInv /\ N \in Nat /\ N >= 1 /\ Ids = 1..N /\ main \in Mains
  BY Typed, ProgramFacts DEF FifoInv
<1>1. /\ process = "running" /\ main.pc = "change" /\ main.i \in Ids
      /\ \A j \in Ids : Created(j) <=> j <= main.i
      /\ main' = NextRound("create", "join") /\ UNCHANGED <<program, thr>>
  BY <1>0 DEF Change, MainAt, LoopInv
<1>2. PICK i \in Ids : i = main.i
  BY <1>1
<1>3. CASE process' = "refused"
  <2>1. Ids' = Ids
    BY <1>1, SameProgram
  <2>2. main'.pc # "end" => main'.i \in Ids
    BY <1>0, <1>1, NextRoundTyped
  <2> QED
    BY <1>3, <2>1, <2>2 DEF LoopInv, QueueInv
<1>4. \A j \in Ids : Created(j)' <=> j <= i
  BY <1>1, <1>2 DEF Created
<1>5. \A j \in Ids : Ready(j)' <=> Ready(j)
  BY <1>1 DEF Ready
<1>6. CASE Enqueue(i, request(i)) /\ UNCHANGED process
  <2>1. request(i) \in Sched
    BY <1>0, RequestFacts
  <2>2. /\ sched'[i] = request(i) /\ since'[i] = arrivals + 1 /\ arrivals' = arrivals + 1
        /\ \A j \in Ids : j # i => sched'[j] = sched[j] /\ since'[j] = since[j]
    BY <1>0, <1>6, <2>1, EnqueueTyped
  <2>3. since'[i] <= arrivals' /\ arrivals' \in {arrivals, arrivals + 1}
    BY <1>0, <2>2
  <2> QED
    BY <1>1, <1>2, <1>4, <1>5, <1>6, <2>2, <2>3, RoundLoops
<1>7. CASE thr[i] = "exited" /\ UNCHANGED <<sched, since, arrivals, process>>
  <2>1. ~Ready(i)'
    BY <1>1, <1>7 DEF Ready
  <2>2. since'[i] <= arrivals' /\ arrivals' \in {arrivals, arrivals + 1}
    BY <1>0, <1>1, <1>7 DEF QueueInv
  <2> QED
    BY <1>1, <1>2, <1>4, <1>5, <1>7, <2>1, <2>2, RoundLoops
<1> QED
  BY <1>2, <1>3, <1>6, <1>7 DEF Change, ChangeRequest, setschedparam

LEMMA JoinLoops ==
  ASSUME Suitable, FifoInv, Join \/ Return
  PROVE  LoopInv' /\ QueueInv'
<1>0. /\ main \in Mains /\ FifoTypeOK /\ LoopInv /\ QueueInv
      /\ N \in Nat /\ N >= 1 /\ Ids = 1..N
  BY Typed, ProgramFacts DEF FifoInv
<1>1. CASE Join
  <2>1. /\ process = "running" /\ main.pc = "join" /\ main.i \in Ids
        /\ thr[main.i] = "exited" /\ main' = NextRound("join", "end")
        /\ UNCHANGED <<program, thr, sched, since, arrivals, process>>
        /\ \A j \in Ids : Created(j)
        /\ \A j \in Ids : j < main.i => thr[j] = "exited"
    BY <1>0, <1>1 DEF Join, MainAt, LoopInv, JoinRound
  <2>2. Ids' = Ids /\ \A j : request(j)' = request(j)
    BY <2>1, SameProgram
  <2>3. /\ main.i < N => main'.pc = "join" /\ main'.i = main.i + 1
        /\ main.i >= N => main'.pc = "end" /\ main'.i = 1
    BY <1>0, <2>1, NextRoundTyped
  <2>4. LoopInv'
    <3>1. CASE main.i < N
      BY <1>0, <2>1, <2>2, <2>3, <3>1 DEF LoopInv, Created
    <3>2. CASE main.i >= N
      BY <1>0, <2>1, <2>2, <2>3, <3>2 DEF LoopInv, Created
    <3> QED
      BY <1>0, <2>1, <3>1, <3>2
  <2>5. \A j \in Ids : (Ready(j)' <=> Ready(j)) /\ (Rt(j)' <=> Rt(j))
    BY <2>1 DEF Ready, Rt
  <2>6. QueueInv'
    BY <1>0, <2>1, <2>2, <2>5 DEF QueueInv
  <2> QED
    BY <2>4, <2>6
<1>2. CASE Return
  <2>1. process' # "running" /\ UNCHANGED <<program, main>>
    BY <1>2 DEF Return
  <2>2. Ids' = Ids
    BY <2>1, SameProgram
  <2> QED
    BY <1>0, <2>1, <2>2 DEF LoopInv, QueueInv
<1> QED
  BY <1>1, <1>2

LEMMA NextFifo == Suitable /\ FifoInv /\ [FifoNext]_fifoVars => FifoInv'
<1> SUFFICES ASSUME Suitable, FifoInv, [FifoNext]_fifoVars PROVE FifoInv'
  OBVIOUS
<1>t. FifoTypeOK'
  BY NextTypes DEF FifoInv
<1>1. CASE MainStep
  BY <1>t, <1>1, MainOrder, CreateLoops, ConstructLoops, ChangeLoops, JoinLoops
     DEF FifoInv, MainStep
<1>2. ASSUME NEW i \in Ids, ThreadStep(i) PROVE FifoInv'
  BY <1>t, <1>2, ThreadOrder, ThreadLoops DEF FifoInv
<1>3. ASSUME NEW i \in Ids, SliceExpires(i) PROVE FifoInv'
  BY <1>t, <1>3, SliceLoops DEF FifoInv
<1>4. CASE UNCHANGED fifoVars
  <2>1. Ids' = Ids /\ \A j : request(j)' = request(j)
    BY <1>4, SameProgram DEF fifoVars
  <2>2. LoopInv'
    BY <1>4, <2>1 DEF fifoVars, FifoInv, LoopInv, Created
  <2>3. QueueInv'
    BY <1>4, <2>1 DEF fifoVars, FifoInv, QueueInv, Ready, Rt
  <2>4. (\E e \in 0..N : Ordered(e))'
    BY <1>4, SameOrder DEF fifoVars, FifoInv, OrderInv
  <2>5. OrderInv'
    BY <1>4, <2>4 DEF fifoVars, FifoInv, OrderInv, TestSucceeds
  <2> QED
    BY <1>t, <2>2, <2>3, <2>5 DEF FifoInv
<1> QED
  BY <1>1, <1>2, <1>3, <1>4 DEF FifoNext

LEMMA FifoSafety == ASSUME Suitable PROVE FifoSpec => []FifoInv
  BY InitFifo, NextFifo, PTL DEF FifoSpec

\* At most one thread is between its check and the end of its decrement, for any
\* number of threads and any table that keeps to the rule of the test
\* (tests/preempt_03_decrement.cc:9).
THEOREM NoLockIsNeeded == ASSUME Suitable PROVE FifoSpec => []OneAtATime
<1>1. FifoInv => OneAtATime
  <2> SUFFICES ASSUME FifoInv PROVE OneAtATime
    OBVIOUS
  <2> DEFINE S == {i \in Ids : thr[i] \in {"load", "store"}}
  <2>1. PICK e \in 0..N : Ordered(e)
    BY DEF FifoInv, OrderInv
  <2>2. N \in Nat
    BY ProgramFacts DEF FifoInv
  <2>3. S \in SUBSET {e + 1}
    BY <2>1 DEF Ordered
  <2>4. IsFiniteSet({e + 1}) /\ Cardinality({e + 1}) = 1
    BY FS_Singleton, Zenon
  <2> HIDE DEF S
  <2>5. IsFiniteSet(S) /\ Cardinality(S) <= Cardinality({e + 1})
    BY <2>3, <2>4, FS_Subset, Zenon
  <2>6. Cardinality(S) <= 1
    BY <2>4, <2>5
  <2> QED
    BY <2>6, Zenon DEF OneAtATime, S
<1> QED
  BY <1>1, FifoSafety, PTL

\* The threads pass their check and end in the order in which they were created
\* (FAQ.md:200).
THEOREM CreationOrderIsKept == ASSUME Suitable PROVE FifoSpec => []InCreationOrder
<1>1. FifoInv => InCreationOrder
  <2> SUFFICES ASSUME FifoInv, NEW i \in Ids, NEW j \in Ids, i < j,
                      thr[j] \in {"load", "store", "exited"}
               PROVE  thr[i] = "exited"
    BY DEF InCreationOrder
  <2>1. PICK e \in 0..N : Ordered(e)
    BY DEF FifoInv, OrderInv
  <2>2. N \in Nat /\ Ids = 1..N
    BY ProgramFacts DEF FifoInv
  <2>3. j <= e + 1
    BY <2>1, <2>2 DEF Ordered
  <2> QED
    BY <2>1, <2>2, <2>3 DEF Ordered
<1> QED
  BY <1>1, FifoSafety, PTL

\* No VERIFY of such a program fails (README.md:108).
THEOREM TestAlwaysSucceeds == ASSUME Suitable PROVE FifoSpec => []TestSucceeds
<1>1. FifoInv => TestSucceeds
  BY DEF FifoInv, OrderInv
<1> QED
  BY <1>1, FifoSafety, PTL

\* Every variable keeps its type.
THEOREM FifoTypeCorrect == ASSUME Suitable PROVE FifoSpec => []FifoTypeOK
<1>1. FifoInv => FifoTypeOK
  BY DEF FifoInv
<1> QED
  BY <1>1, FifoSafety, PTL

------------------------------------------------------------------------------
(* Somebody can always go on: the safety half of Terminates. *)

\* main() finds a core and does not wait in join(): what the guards of MainStep ask for.
MainGoesOn == NormalRuns /\ (main.pc = "join" => thr[main.i] = "exited")

\* A thread is on a core: what the guards of ThreadStep ask for.
ThreadGoesOn == \E i \in Ids : Ready(i) /\ OnCpu(i)

\* Where nobody precedes a real-time thread, it is on the core.
LEMMA FirstIsOnCore ==
  ASSUME Suitable, NEW i \in Ids, Rt(i), \A j \in Ids : ~Precedes(j, i)
  PROVE  Ready(i) /\ OnCpu(i)
<1>1. {j \in Ids : Precedes(j, i)} = {}
  OBVIOUS
<1>2. Cardinality({j \in Ids : Precedes(j, i)}) = 0
  BY <1>1, FS_EmptySet, Zenon
<1>3. Cardinality({j \in Ids : Precedes(j, i)}) < RtCores
  BY <1>2 DEF Suitable
<1> QED
  BY <1>3, Zenon DEF OnCpu, Rt

\* Without real-time threads, main() has a core.
LEMMA NoRtNoWait ==
  ASSUME Suitable, FifoTypeOK, \A j \in Ids : ~Rt(j)
  PROVE  NormalRuns
<1>1. {j \in Ids : Rt(j)} = {}
  OBVIOUS
<1>2. Cardinality({j \in Ids : Rt(j)}) = 0
  BY <1>1, FS_EmptySet, Zenon
<1>3. RtCores = 1 /\ program.cores \in Nat /\ program.cores >= RtCores
  BY FifoOrderAssumption DEF Suitable, FifoTypeOK
<1> QED
  BY <1>2, <1>3 DEF NormalRuns

\* Of the real-time threads, the first that has not ended is on the core.
LEMMA FirstGoesOn ==
  ASSUME Suitable, FifoInv, process = "running", NEW i \in Ids, Rt(i)
  PROVE  ThreadGoesOn
<1>1. PICK e \in 0..N : Ordered(e)
  BY DEF FifoInv, OrderInv
<1>2. FifoTypeOK /\ LoopInv /\ QueueInv /\ N \in Nat /\ Ids = 1..N
  BY ProgramFacts DEF FifoInv
<1>3. main.pc \in {"create", "change", "join", "end"} /\ main.i \in Nat
  BY <1>2 DEF FifoTypeOK
<1>4. e + 1 <= i /\ e + 1 \in Ids
  BY <1>1, <1>2 DEF Rt, Ready, Ordered
<1>5. CASE main.pc = "change"
  <2>1. \A j \in Ids : Ready(j) => j = main.i
    BY <1>2, <1>5 DEF LoopInv, Created, Ready
  <2>2. \A j \in Ids : Rt(j) => j = i
    BY <2>1 DEF Rt
  <2>3. since[i] \in Nat /\ sched[i] \in Sched
    BY <1>2 DEF FifoTypeOK
  <2>4. ~Precedes(i, i)
    BY <2>3 DEF Precedes, Sched
  <2>5. \A j \in Ids : ~Precedes(j, i)
    BY <2>2, <2>4 DEF Precedes
  <2> QED
    BY <2>5, FirstIsOnCore DEF ThreadGoesOn
<1>6. CASE main.pc # "change"
  <2>1. Created(e + 1)
    BY <1>2, <1>3, <1>4, <1>6 DEF LoopInv, Created, Rt, Ready
  <2>2. Ready(e + 1)
    BY <1>1, <1>2, <1>4, <2>1 DEF Created, Ready, Ordered
  <2>3. \A j \in Ids : Ready(j) => sched[j] = request(j)
    BY <1>2, <1>6 DEF QueueInv
  <2>4. Rt(e + 1)
    BY <1>2, <1>4, <2>2, <2>3, RequestFacts DEF Rt
  <2>5. ASSUME NEW j \in Ids, Precedes(j, e + 1) PROVE FALSE
    <3>1. Rt(j) /\ Ready(j)
      BY <2>5 DEF Precedes, Rt
    <3>2. e + 1 <= j
      BY <1>1, <1>2, <3>1 DEF Ready, Ordered
    <3>3. sched[j].priority = program.table[j]
          /\ sched[e + 1].priority = program.table[e + 1]
      BY <1>2, <1>4, <2>2, <2>3, <3>1, RequestFacts
    <3>4. program.table[j] \in Int /\ program.table[e + 1] \in Int
      BY <1>2, <1>4, ProgramFacts
    <3>5. since[j] \in Nat /\ since[e + 1] \in Nat
      BY <1>2, <1>4 DEF FifoTypeOK
    <3>6. j # e + 1
      BY <2>5, <3>3, <3>4, <3>5 DEF Precedes
    <3>7. e + 1 < j
      BY <1>2, <1>4, <3>2, <3>6
    <3>8. program.table[j] <= program.table[e + 1]
      BY <1>2, <1>4, <3>7, ProgramFacts
    <3>9. program.table[j] = program.table[e + 1] /\ since[j] < since[e + 1]
      BY <2>5, <3>3, <3>4, <3>8 DEF Precedes
    <3>10. program.policy = "SCHED_FIFO"
      BY <1>2, <1>4, <3>4, <3>7, <3>9, ProgramFacts DEF Realtime
    <3>11. since[e + 1] < since[j]
      BY <1>2, <1>4, <2>4, <3>1, <3>7, <3>10 DEF QueueInv
    <3> QED
      BY <3>5, <3>9, <3>11
  <2> QED
    BY <1>4, <2>4, <2>5, FirstIsOnCore DEF ThreadGoesOn
<1> QED
  BY <1>5, <1>6

\* As long as the program runs, main() or a thread of the test can go on: on one core
\* main() is kept from running only by threads that run themselves, and it never waits
\* in join() for one that has no core (threading.h:158, README.md:108).
THEOREM NeverStuck ==
  ASSUME Suitable
  PROVE  FifoSpec => [](process = "running" => MainGoesOn \/ ThreadGoesOn)
<1>1. FifoInv /\ process = "running" => MainGoesOn \/ ThreadGoesOn
  <2> SUFFICES ASSUME FifoInv, process = "running", \A i \in Ids : ~Rt(i)
               PROVE  MainGoesOn
    BY FirstGoesOn
  <2>1. FifoTypeOK /\ LoopInv /\ QueueInv
    BY DEF FifoInv
  <2>2. ASSUME main.pc = "join", thr[main.i] # "exited" PROVE FALSE
    <3>1. main.i \in Ids /\ Ready(main.i)
      BY <2>1, <2>2 DEF LoopInv, Created, Ready
    <3>2. sched[main.i] = request(main.i)
      BY <2>1, <2>2, <3>1 DEF QueueInv
    <3> QED
      BY <2>1, <3>1, <3>2, RequestFacts DEF Rt
  <2> QED
    BY <2>1, <2>2, NoRtNoWait DEF MainGoesOn
<1> QED
  BY <1>1, FifoSafety, PTL

==============================================================================
