---------------------------- MODULE ProcessProofs ----------------------------
(***************************************************************************)
(* Proofs about Process, for any number of threads, calls, pages and       *)
(* descriptors.  The pages and the latency device have an inductive        *)
(* invariant each: no step of one touches the state of the other.          *)
(***************************************************************************)
EXTENDS Process, TLAPS

USE ProcessAssumption

------------------------------------------------------------------------------
(* The pages. *)

\* The kernel locks whatever the program maps.
Room == system.ipc_lock \/ memlock.cur = Unlimited

PageTypes ==
  /\ system.resource \in BOOLEAN /\ system.ipc_lock \in BOOLEAN
  /\ memlock \in [cur : 0..Unlimited, max : 0..Unlimited]
  /\ mapped \in 0..MaxPages /\ locked \in 0..mapped
  /\ future \in BOOLEAN /\ refused \in BOOLEAN
  /\ call \in [Callers -> Steps]

\* Where the system grants both calls, a thread that comes to mlockall() has
\* made room, MCL_FUTURE comes with room, and keeps every page locked.
PageInv ==
  /\ PageTypes
  /\ Granted =>
       /\ \A t \in Callers : call[t] = "lock" => Room
       /\ future => Room /\ locked = mapped
       /\ inside \ undone # {} => future
       /\ ~refused

\* t takes a step of request_CPU_latency() or reset_CPU_latency().
LatencyStep(t) ==
  \/ \E c \in Latencies : RequestLatency(t, c)
  \/ RequestOpen(t) \/ RequestOpenFails(t) \/ RequestWrite(t) \/ RequestWriteFails(t)
  \/ Exit(t)
  \/ ResetLatency(t) \/ ResetTest(t) \/ ResetClose(t) \/ ResetForget(t)

LEMMA PageInit == Init => PageInv
  <1> SUFFICES ASSUME Init PROVE PageInv
    OBVIOUS
  <1>1. memlock \in [cur : 0..Unlimited, max : 0..Unlimited]
    BY DEF Init, Unlimited
  <1>2. PageTypes
    <2>1. system.resource \in BOOLEAN /\ system.ipc_lock \in BOOLEAN
      BY DEF Init
    <2>2. mapped \in 0..MaxPages /\ locked \in 0..mapped
      BY DEF Init
    <2>3. future \in BOOLEAN /\ refused \in BOOLEAN
      BY DEF Init
    <2>4. call \in [Callers -> Steps]
      BY DEF Init, Steps
    <2> QED
      BY <1>1, <2>1, <2>2, <2>3, <2>4 DEF PageTypes
  <1>3. /\ \A t \in Callers : call[t] # "lock"
        /\ ~future /\ inside = {} /\ ~refused
    BY DEF Init
  <1> QED
    BY <1>2, <1>3 DEF PageInv

LEMMA PageStep == PageInv /\ [Next]_vars => PageInv'
  <1> SUFFICES ASSUME PageInv, [Next]_vars PROVE PageInv'
    OBVIOUS
  <1> USE DEF PageInv, PageTypes, Granted, Room, Unlimited, Steps, PageSteps, LatencySteps
  \* The calls of a latency function, and those that change the core limit only.
  <1>1. ASSUME UNCHANGED <<system, pageVars>>,
               call' \in [Callers -> Steps],
               \A t \in Callers : call'[t] = "lock" => call[t] = "lock"
        PROVE  PageInv'
    BY <1>1 DEF pageVars
  <1>2. ASSUME NEW t \in Callers, BeginRealtime(t) \/ DisableCoreFile(t) PROVE PageInv'
    BY <1>1, <1>2 DEF BeginRealtime, DisableCoreFile, Enter
  <1>3. ASSUME NEW t \in Callers, BeginUnlimit(t) PROVE PageInv'
    BY <1>3 DEF BeginUnlimit, Step, unlimit_lock_pages, NewLimit, MayUnlimit
  <1>4. ASSUME NEW t \in Callers, BeginLock(t) PROVE PageInv'
    <2>1. /\ call[t] = "lock" /\ call' = [call EXCEPT ![t] = "none"]
          /\ UNCHANGED <<system, memlock, mapped, refused>>
      BY <1>4 DEF BeginLock, Step
    <2>2. CASE MayLock(mapped)
      <3>1. locked' = mapped /\ future' = TRUE
        BY <1>4, <2>2 DEF BeginLock, lock_all_pages, LockFlags
      <3> QED
        BY <2>1, <3>1
    <2>3. CASE ~MayLock(mapped)
      <3>1. UNCHANGED <<locked, future>>
        BY <1>4, <2>3 DEF BeginLock, lock_all_pages
      <3>2. ~Granted
        BY <2>1, <2>3 DEF MayLock
      <3> QED
        BY <2>1, <3>1, <3>2
    <2> QED
      BY <2>2, <2>3
  <1>5. ASSUME NEW t \in Callers, EndRealtime(t) PROVE PageInv'
    BY <1>5 DEF EndRealtime, Enter
  <1>6. ASSUME NEW t \in Callers, EndUnlock(t) PROVE PageInv'
    <2>1. /\ call' = [call EXCEPT ![t] = "none"]
          /\ locked' = 0 /\ future' = FALSE
          /\ UNCHANGED <<system, memlock, mapped, refused>>
      BY <1>6 DEF EndUnlock, Step
    <2>2. inside' \ undone' = {}
      BY <1>6 DEF EndUnlock
    <2>3. PageTypes'
      <3>1. mapped' \in 0..MaxPages /\ locked' \in 0..mapped'
        BY <2>1
      <3>2. future' \in BOOLEAN /\ refused' \in BOOLEAN
        BY <2>1
      <3>3. call' \in [Callers -> Steps]
        BY <2>1
      <3> QED
        BY <2>1, <3>1, <3>2, <3>3
    <2> QED
      BY <2>1, <2>2, <2>3
  <1>7. ASSUME NEW t \in Callers, NEW s \in LatencySteps \cup {"exit", "none"},
               call' = [call EXCEPT ![t] = s], UNCHANGED <<system, pageVars>>
        PROVE  PageInv'
    BY <1>1, <1>7
  <1>8. ASSUME NEW t \in Callers, LatencyStep(t) PROVE PageInv'
    <2>1. UNCHANGED <<system, pageVars>>
      BY <1>8 DEF LatencyStep, RequestLatency, RequestOpen, RequestOpenFails, Assigned,
                  RequestWrite, RequestWriteFails, Exit, ResetLatency, ResetTest,
                  ResetClose, ResetForget
    <2>2. PICK s \in LatencySteps \cup {"exit", "none"} : call' = [call EXCEPT ![t] = s]
      BY <1>8 DEF LatencyStep, RequestLatency, RequestOpen, RequestOpenFails,
                  RequestWrite, RequestWriteFails, Exit, ResetLatency, ResetTest,
                  ResetReturn, ResetNext, ResetClose, ResetForget, Enter, EnterLatency,
                  Step
    <2> QED
      BY <1>7, <2>1, <2>2
  <1>9. CASE MapPage
    BY <1>9 DEF MapPage, MayLock
  <1>10. CASE OpenOther
    BY <1>1, <1>10 DEF OpenOther
  <1>11. CASE Ended \/ UNCHANGED vars
    BY <1>1, <1>11 DEF Ended, vars
  <1> QED
    BY <1>2, <1>3, <1>4, <1>5, <1>6, <1>8, <1>9, <1>10, <1>11 DEF Next, LatencyStep

LEMMA PageInvariance == Spec => []PageInv
  BY PageInit, PageStep, PTL DEF Spec

\* A real-time section is protected from page faults where the system grants what
\* begin_realtime() asks for (process.h:17-24).
THEOREM SectionProtected == Spec => []SectionIsProtected
  <1>1. PageInv => SectionIsProtected
    BY DEF PageInv, SectionIsProtected, Protected
  <1> QED
    BY <1>1, PageInvariance, PTL

\* There, locked pages never keep a thread from starting (process.h:22-23).
THEOREM ThreadsStart == Spec => []ThreadsCanStart
  <1>1. PageInv => ThreadsCanStart
    BY DEF PageInv, ThreadsCanStart
  <1> QED
    BY <1>1, PageInvariance, PTL

------------------------------------------------------------------------------
(* The latency device. *)

LatencyTypes ==
  /\ files \in [Fds -> Kinds]
  /\ g_fd_cpu_dma \in Fds \cup {-1}
  /\ fd \in [Callers -> Fds \cup {-1}]
  /\ c_state \in [Callers -> Latencies]
  /\ call \in [Callers -> Steps]
  /\ promised \in [Callers -> Latencies \cup {NoLatency}]
  /\ shared \subseteq Callers
  /\ failing \subseteq Callers
  /\ leaked \subseteq Fds

\* A thread whose call does not overlap is alone in it.
AloneInv ==
  /\ \A t \in Callers : call[t] \in LatencySteps /\ t \notin shared => Rivals(t) = {}
  /\ ~overlapped => \A t \in Callers : call[t] \in LatencySteps => t \notin shared

\* Such a thread writes to the device it has opened.
WriterInv ==
  \A t \in Callers :
    call[t] = "write" /\ t \notin shared => fd[t] = g_fd_cpu_dma /\ fd[t] \in DmaFds

\* As long as calls do not overlap, the global descriptor is that of the device,
\* except between close() and the assignment that follows it.
GlobalInv ==
  ~overlapped =>
    /\ \A t \in Callers : call[t] = "close" => fd[t] = g_fd_cpu_dma
    /\ (\E t \in Callers : call[t] = "close") => g_fd_cpu_dma # -1
    /\ g_fd_cpu_dma \in DmaFds \cup {-1} \/ \E t \in Callers : call[t] = "forget"

\* The device is open under that descriptor and those that requests overwrote.
LeakedInv ==
  ~overlapped =>
    /\ leaked \subseteq DmaFds /\ g_fd_cpu_dma \notin leaked
    /\ DmaFds \subseteq leaked \cup {g_fd_cpu_dma}
    /\ (\E t \in Callers : call[t] = "forget") => DmaFds = leaked

\* d holds the latency that was promised to t, and no thread is about to write
\* another one to d.
Holds(t, d) ==
  /\ d \in DmaFds
  /\ files[d].latency <= promised[t]
  /\ \A u \in Callers : call[u] = "write" => d \notin Used(u)

PromiseInv ==
  \A t \in Callers : promised[t] # NoLatency => \E d \in Fds : Holds(t, d)

LatencyInv ==
  /\ LatencyTypes
  /\ OwnDescriptorOnly
  /\ ~exited => AloneInv /\ WriterInv /\ GlobalInv /\ LeakedInv /\ PromiseInv

LEMMA KindFacts ==
  /\ Free \in Kinds /\ Other \in Kinds /\ Free # Other
  /\ \A c \in Latencies \cup {NoLatency} :
       Dma(c) \in Kinds /\ Dma(c) \notin {Free, Other} /\ Dma(c).latency = c
  /\ \A k \in Kinds : k.latency \in Nat
  <1>1. Free \in Kinds /\ Other \in Kinds /\ Free # Other
    BY DEF Kinds, Free, Other
  <1>2. \A c \in Latencies \cup {NoLatency} :
          Dma(c) \in Kinds /\ Dma(c) \notin {Free, Other} /\ Dma(c).latency = c
    BY DEF Kinds, Free, Other, Dma
  <1>3. \A k \in Kinds : k.latency \in Nat
    BY DEF Kinds, Free, Other, Dma
  <1> QED
    BY <1>1, <1>2, <1>3

LEMMA LatencyInit == Init => LatencyInv
  <1> SUFFICES ASSUME Init PROVE LatencyInv
    OBVIOUS
  <1>1. LatencyTypes
    BY KindFacts DEF Init, LatencyTypes, Steps
  <1>2. DmaFds = {} /\ \A t \in Callers : call[t] = "none" /\ promised[t] = NoLatency
    BY DEF Init, DmaFds
  <1>3. g_fd_cpu_dma = -1 /\ ~foreign /\ leaked = {}
    BY DEF Init
  <1> QED
    BY <1>1, <1>2, <1>3 DEF LatencyInv, OwnDescriptorOnly, AloneInv, WriterInv, GlobalInv,
                            LeakedInv, PromiseInv, LatencySteps

\* Steps that neither touch the device nor enter or leave a call about it.
LEMMA LatencyFrame ==
  ASSUME LatencyInv, UNCHANGED <<latencyVars, exited>>,
         call' \in [Callers -> Steps],
         \A t \in Callers : {call[t], call'[t]} \cap LatencySteps # {} => call'[t] = call[t]
  PROVE  LatencyInv'
  <1>1. /\ LatencyTypes' /\ OwnDescriptorOnly'
        /\ DmaFds' = DmaFds
    BY DEF LatencyInv, LatencyTypes, OwnDescriptorOnly, latencyVars, DmaFds
  <1> SUFFICES ASSUME ~exited
               PROVE  AloneInv' /\ WriterInv' /\ GlobalInv' /\ LeakedInv' /\ PromiseInv'
    BY <1>1 DEF LatencyInv
  <1>2. \A t \in Callers :
          /\ call'[t] \in LatencySteps <=> call[t] \in LatencySteps
          /\ call'[t] \in LatencySteps => call'[t] = call[t]
          /\ \A s \in LatencySteps : call'[t] = s <=> call[t] = s
    OBVIOUS
  <1>3. \A t \in Callers : Rivals(t)' = Rivals(t) /\ Used(t)' = Used(t)
    BY <1>2 DEF Rivals, Used, latencyVars
  <1>4. {"write", "close", "forget"} \subseteq LatencySteps
    BY DEF LatencySteps
  <1>5. AloneInv' /\ WriterInv'
    BY <1>1, <1>2, <1>3, <1>4 DEF LatencyInv, AloneInv, WriterInv, latencyVars
  <1>6. GlobalInv'
    BY <1>1, <1>2, <1>4 DEF LatencyInv, GlobalInv, latencyVars
  <1>7. LeakedInv'
    BY <1>1, <1>2, <1>4 DEF LatencyInv, LeakedInv, latencyVars
  <1>8. PromiseInv'
    <2>1. \A t \in Callers, d \in Fds : Holds(t, d) => Holds(t, d)'
      BY <1>1, <1>2, <1>3, <1>4 DEF Holds, latencyVars
    <2> QED
      BY <2>1 DEF LatencyInv, PromiseInv, latencyVars
  <1> QED
    BY <1>5, <1>6, <1>7, <1>8

\* A call begins: the ones it overlaps with become shared.
LEMMA EnterKeeps ==
  ASSUME LatencyInv, NEW t \in Callers, NEW s \in {"open", "reset", "exit"},
         EnterLatency(t, s),
         c_state' \in [Callers -> Latencies],
         UNCHANGED <<files, g_fd_cpu_dma, fd, failing, leaked, foreign, promised>>
  PROVE  LatencyInv'
  <1>1. /\ ~exited /\ call[t] = "none" /\ call' = [call EXCEPT ![t] = s]
        /\ shared' = IF Rivals(t) = {} THEN shared \ {t} ELSE shared \cup Rivals(t) \cup {t}
        /\ overlapped' <=> (overlapped \/ Rivals(t) # {})
    BY DEF EnterLatency, Enter
  <1>2. LatencyTypes'
    BY <1>1 DEF LatencyInv, LatencyTypes, Steps, LatencySteps, Rivals
  <1>3. OwnDescriptorOnly'
    BY <1>1 DEF LatencyInv, OwnDescriptorOnly
  <1>4. DmaFds' = DmaFds
    BY DEF DmaFds
  <1>5. \A u \in Callers : /\ u # t => call'[u] = call[u]
                           /\ call'[u] \in {"write", "close", "forget"}
                              <=> call[u] \in {"write", "close", "forget"}
                           /\ call'[u] \in {"write", "close", "forget"} => call'[u] = call[u]
    BY <1>1 DEF LatencyInv, LatencyTypes
  <1>6. AloneInv'
    <2>1. CASE Rivals(t) = {}
      <3>1. \A u \in Callers : u # t => call'[u] \notin LatencySteps
        BY <1>5, <2>1 DEF Rivals
      <3>2. Rivals(t)' = {}
        BY <3>1 DEF Rivals
      <3>3. t \notin shared'
        BY <1>1, <2>1
      <3> QED
        BY <3>1, <3>2, <3>3 DEF AloneInv
    <2>2. CASE Rivals(t) # {}
      <3>1. \A u \in Callers : call'[u] \in LatencySteps => u \in shared'
        BY <1>1, <1>5, <2>2 DEF Rivals
      <3>2. overlapped'
        BY <1>1, <2>2
      <3> QED
        BY <3>1, <3>2 DEF AloneInv
    <2> QED
      BY <2>1, <2>2
  <1>7. WriterInv'
    <2> SUFFICES ASSUME NEW u \in Callers, call'[u] = "write", u \notin shared'
                 PROVE  fd[u] = g_fd_cpu_dma /\ fd[u] \in DmaFds
      BY <1>4 DEF WriterInv
    <2>1. u # t /\ call[u] = "write"
      BY <1>1, <1>5
    <2>2. u \notin shared
      BY <1>1, <2>1
    <2> QED
      BY <1>1, <2>1, <2>2 DEF LatencyInv, WriterInv
  <1>8. GlobalInv' /\ LeakedInv'
    BY <1>1, <1>4, <1>5 DEF LatencyInv, GlobalInv, LeakedInv
  <1>9. PromiseInv'
    <2>1. \A u \in Callers, d \in Fds : Holds(u, d) => Holds(u, d)'
      BY <1>4, <1>5 DEF Holds, Used
    <2> QED
      BY <1>1, <2>1 DEF LatencyInv, PromiseInv
  <1> QED
    BY <1>2, <1>3, <1>6, <1>7, <1>8, <1>9 DEF LatencyInv

\* A call goes on: it stays as alone as it was.
LEMMA StepFacts ==
  ASSUME LatencyInv, NEW t \in Callers, NEW s \in LatencySteps,
         NEW s2 \in LatencySteps \cup {"exit", "none"}, Step(t, s, s2),
         UNCHANGED <<shared, overlapped>>
  PROVE  /\ ~exited /\ call[t] = s /\ call'[t] = s2
         /\ \A u \in Callers \ {t} : call'[u] = call[u]
         /\ call' \in [Callers -> Steps]
         /\ t \notin shared => \A u \in Callers \ {t} : call[u] \notin LatencySteps
         /\ ~overlapped => t \notin shared
         /\ AloneInv'
  <1>1. /\ ~exited /\ call[t] = s /\ call'[t] = s2
        /\ \A u \in Callers \ {t} : call'[u] = call[u]
        /\ call' \in [Callers -> Steps]
    BY DEF LatencyInv, LatencyTypes, Step, Steps
  <1>2. AloneInv
    BY <1>1 DEF LatencyInv
  <1>3. /\ t \notin shared => \A u \in Callers \ {t} : call[u] \notin LatencySteps
        /\ ~overlapped => t \notin shared
    BY <1>1, <1>2 DEF AloneInv, Rivals
  <1>4. AloneInv'
    BY <1>1, <1>2 DEF AloneInv, Rivals
  <1> QED
    BY <1>1, <1>3, <1>4

\* A failed open() leaves -1 in g_fd_cpu_dma, and the old descriptor is lost too.
LEMMA OpenFailsKeeps ==
  ASSUME LatencyInv, NEW t \in Callers, RequestOpenFails(t)
  PROVE  LatencyInv'
  <1>1. /\ Step(t, "open", "exit")
        /\ g_fd_cpu_dma' = -1
        /\ fd' = [fd EXCEPT ![t] = -1]
        /\ leaked' = leaked \cup ({g_fd_cpu_dma} \ {-1})
        /\ UNCHANGED <<files, c_state, failing, shared, overlapped, foreign, promised>>
    BY DEF RequestOpenFails, Assigned
  <1>2. {"open", "write", "close", "forget"} \subseteq LatencySteps
    BY DEF LatencySteps
  <1>3. /\ ~exited /\ call[t] = "open" /\ call'[t] = "exit"
        /\ \A u \in Callers \ {t} : call'[u] = call[u]
        /\ call' \in [Callers -> Steps]
        /\ t \notin shared => \A u \in Callers \ {t} : call[u] \notin LatencySteps
        /\ ~overlapped => t \notin shared
        /\ AloneInv'
    BY <1>1, <1>2, StepFacts
  <1>4. DmaFds' = DmaFds
    BY <1>1 DEF DmaFds
  <1>5. LatencyTypes' /\ OwnDescriptorOnly'
    BY <1>1, <1>3 DEF LatencyInv, LatencyTypes, OwnDescriptorOnly
  <1>6. WriterInv'
    <2> SUFFICES ASSUME NEW u \in Callers, call'[u] = "write", u \notin shared
                 PROVE  FALSE
      BY <1>1 DEF WriterInv
    <2> QED
      BY <1>2, <1>3 DEF LatencyInv, AloneInv, Rivals
  <1>7. GlobalInv'
    BY <1>1, <1>2, <1>3 DEF GlobalInv
  <1>8. LeakedInv'
    <2> SUFFICES ASSUME ~overlapped PROVE LeakedInv'
      BY <1>1 DEF LeakedInv
    <2>1. \A u \in Callers : call[u] # "forget" /\ call'[u] # "forget"
      BY <1>2, <1>3
    <2>2. g_fd_cpu_dma \in DmaFds \cup {-1} /\ -1 \notin Fds
      BY <1>3, <2>1 DEF LatencyInv, GlobalInv, Fds
    <2>3. leaked \subseteq Fds
      BY DEF LatencyInv, LatencyTypes
    <2> QED
      BY <1>1, <1>3, <1>4, <2>1, <2>2, <2>3 DEF LatencyInv, LeakedInv
  <1>9. PromiseInv'
    <2>1. \A u \in Callers, d \in Fds : Holds(u, d) => Holds(u, d)'
      BY <1>1, <1>3, <1>4 DEF Holds, Used, Fds, LatencyInv, LatencyTypes
    <2> QED
      BY <1>1, <1>3, <2>1 DEF LatencyInv, PromiseInv
  <1> QED
    BY <1>3, <1>5, <1>6, <1>7, <1>8, <1>9 DEF LatencyInv

LEMMA OpenKeeps ==
  ASSUME LatencyInv, NEW t \in Callers, RequestOpen(t)
  PROVE  LatencyInv'
  <1>1. Step(t, "open", "write")
        /\ UNCHANGED <<exited, c_state, failing, shared, overlapped, foreign, promised>>
    BY DEF RequestOpen, Assigned
  <1>2. {"open", "write", "close", "forget"} \subseteq LatencySteps
    BY DEF LatencySteps
  <1>3. /\ ~exited /\ call[t] = "open" /\ call'[t] = "write"
        /\ \A u \in Callers \ {t} : call'[u] = call[u]
        /\ call' \in [Callers -> Steps]
        /\ t \notin shared => \A u \in Callers \ {t} : call[u] \notin LatencySteps
        /\ ~overlapped => t \notin shared
        /\ AloneInv'
    BY <1>1, <1>2, StepFacts
  <1>4. ASSUME NEW d \in Fds, d \in FreeFds, files' = Opened(d), g_fd_cpu_dma' = d,
               fd' = [fd EXCEPT ![t] = d],
               leaked' = leaked \cup ({g_fd_cpu_dma} \ {-1})
        PROVE  LatencyInv'
    <2>1. /\ files' = [files EXCEPT ![d] = Dma(NoLatency)]
          /\ files[d] = Free
      BY <1>4 DEF Opened, FreeFds
    <2>2. DmaFds' = DmaFds \cup {d} /\ d \notin DmaFds
      BY <2>1, KindFacts DEF LatencyInv, LatencyTypes, DmaFds
    <2>3. LatencyTypes' /\ OwnDescriptorOnly'
      BY <1>1, <1>3, <1>4, <2>1, KindFacts DEF LatencyInv, LatencyTypes, OwnDescriptorOnly
    <2>4. fd'[t] = d /\ \A u \in Callers \ {t} : fd'[u] = fd[u]
      BY <1>4 DEF LatencyInv, LatencyTypes
    <2>5. WriterInv'
      <3> SUFFICES ASSUME NEW u \in Callers, call'[u] = "write", u \notin shared
                   PROVE  fd'[u] = d /\ fd'[u] \in DmaFds'
        BY <1>1, <1>4 DEF WriterInv
      <3>1. u = t
        BY <1>2, <1>3 DEF LatencyInv, AloneInv, Rivals
      <3> QED
        BY <3>1, <2>2, <2>4
    <2>6. GlobalInv'
      BY <1>1, <1>2, <1>3, <1>4, <2>2 DEF GlobalInv
    <2>7. LeakedInv'
      <3> SUFFICES ASSUME ~overlapped PROVE LeakedInv'
        BY <1>1 DEF LeakedInv
      <3>1. \A u \in Callers : call[u] # "forget" /\ call'[u] # "forget"
        BY <1>2, <1>3
      <3>2. g_fd_cpu_dma \in DmaFds \cup {-1} /\ -1 \notin DmaFds
        BY <1>3, <3>1 DEF LatencyInv, GlobalInv, DmaFds, Fds
      <3>3. /\ leaked \subseteq DmaFds
            /\ DmaFds \subseteq leaked \cup {g_fd_cpu_dma}
        BY <1>3 DEF LatencyInv, LeakedInv
      <3> QED
        BY <1>4, <2>2, <3>1, <3>2, <3>3 DEF LeakedInv
    <2>8. PromiseInv'
      <3> SUFFICES ASSUME NEW u \in Callers, promised[u] # NoLatency
                   PROVE  \E e \in Fds : Holds(u, e)'
        BY <1>1 DEF PromiseInv
      <3>1. PICK e \in Fds : Holds(u, e)
        BY <1>3 DEF LatencyInv, PromiseInv
      <3>2. e # d /\ files'[e] = files[e] /\ e \in DmaFds'
        BY <2>1, <2>2, <3>1 DEF Holds, LatencyInv, LatencyTypes
      <3>3. ASSUME NEW w \in Callers, call'[w] = "write" PROVE e \notin Used(w)'
        BY <1>3, <1>4, <2>4, <3>1, <3>2, <3>3 DEF Used, Holds
      <3>4. Holds(u, e)'
        BY <1>1, <3>1, <3>2, <3>3 DEF Holds
      <3> QED
        BY <3>4
    <2> QED
      BY <1>3, <2>3, <2>5, <2>6, <2>7, <2>8 DEF LatencyInv
  <1> QED
    BY <1>4 DEF RequestOpen, LowestFree, Assigned

LEMMA WriteFailsKeeps ==
  ASSUME LatencyInv, NEW t \in Callers, RequestWriteFails(t)
  PROVE  LatencyInv'
  <1>1. /\ Step(t, "write", "reset")
        /\ failing' = failing \cup {t}
        /\ fd' = [fd EXCEPT ![t] = -1]
        /\ UNCHANGED <<files, g_fd_cpu_dma, c_state, shared, overlapped, leaked, foreign,
                       promised, exited>>
    BY DEF RequestWriteFails, FdIsDead
  <1>2. {"write", "reset", "close", "forget"} \subseteq LatencySteps
    BY DEF LatencySteps
  <1>3. /\ ~exited /\ call[t] = "write" /\ call'[t] = "reset"
        /\ \A u \in Callers \ {t} : call'[u] = call[u]
        /\ call' \in [Callers -> Steps]
        /\ AloneInv'
    BY <1>1, <1>2, StepFacts
  <1>4. /\ DmaFds' = DmaFds
        /\ \A u \in Callers \ {t} : fd'[u] = fd[u]
    BY <1>1 DEF DmaFds, LatencyInv, LatencyTypes
  <1>5. LatencyTypes' /\ OwnDescriptorOnly'
    BY <1>1, <1>3 DEF LatencyInv, LatencyTypes, OwnDescriptorOnly
  <1>6. WriterInv'
    BY <1>1, <1>3, <1>4 DEF LatencyInv, WriterInv
  <1>7. GlobalInv' /\ LeakedInv'
    BY <1>1, <1>3, <1>4 DEF LatencyInv, GlobalInv, LeakedInv
  <1>8. PromiseInv'
    <2>1. \A u \in Callers, d \in Fds : Holds(u, d) => Holds(u, d)'
      BY <1>1, <1>3, <1>4 DEF Holds, Used
    <2> QED
      BY <1>1, <1>3, <2>1 DEF LatencyInv, PromiseInv
  <1> QED
    BY <1>3, <1>5, <1>6, <1>7, <1>8 DEF LatencyInv

LEMMA WriteKeeps ==
  ASSUME LatencyInv, NEW t \in Callers, RequestWrite(t)
  PROVE  LatencyInv'
  <1>1. /\ Step(t, "write", "none")
        /\ fd' = [fd EXCEPT ![t] = -1]
        /\ promised' = [promised EXCEPT ![t] =
                          IF t \in shared THEN NoLatency ELSE c_state[t]]
        /\ UNCHANGED <<exited, g_fd_cpu_dma, c_state, failing, shared, overlapped, leaked>>
    BY DEF RequestWrite, FdIsDead
  <1>2. {"open", "write", "close", "forget"} \subseteq LatencySteps
    BY DEF LatencySteps
  <1>3. /\ ~exited /\ call[t] = "write" /\ call'[t] = "none"
        /\ \A u \in Callers \ {t} : call'[u] = call[u]
        /\ call' \in [Callers -> Steps]
        /\ t \notin shared => \A u \in Callers \ {t} : call[u] \notin LatencySteps
        /\ ~overlapped => t \notin shared
        /\ AloneInv'
    BY <1>1, <1>2, StepFacts
  <1>4. \A u \in Callers \ {t} : fd'[u] = fd[u]
    BY <1>1 DEF LatencyInv, LatencyTypes
  <1>5. ASSUME NEW d \in Used(t), d # -1, d \notin FreeFds,
               files' = IF files[d] = Other THEN files
                        ELSE [files EXCEPT ![d] = Dma(c_state[t])],
               foreign' = (foreign \/ files[d] = Other)
        PROVE  LatencyInv'
    <2>1. d \in Fds
      BY <1>5 DEF Used, LatencyInv, LatencyTypes
    <2>2. c_state[t] \in Latencies /\ files[d] \in Kinds
      BY <2>1 DEF LatencyInv, LatencyTypes
    <2>3. DmaFds' = DmaFds
      BY <1>5, <2>1, <2>2, KindFacts DEF LatencyInv, LatencyTypes, DmaFds, FreeFds
    <2>4. t \notin shared => d = g_fd_cpu_dma /\ d = fd[t] /\ d \in DmaFds
      BY <1>3, <1>5 DEF Used, LatencyInv, WriterInv
    <2>5. LatencyTypes'
      BY <1>1, <1>3, <1>5, <2>1, <2>2, KindFacts DEF LatencyInv, LatencyTypes
    <2>6. OwnDescriptorOnly'
      BY <1>1, <1>3, <1>5, <2>4 DEF LatencyInv, OwnDescriptorOnly, DmaFds
    <2>7. WriterInv'
      BY <1>1, <1>3, <1>4, <2>3 DEF LatencyInv, WriterInv
    <2>8. GlobalInv' /\ LeakedInv'
      BY <1>1, <1>2, <1>3, <1>4, <2>3 DEF LatencyInv, GlobalInv, LeakedInv
    <2>9. PromiseInv'
      <3> SUFFICES ASSUME NEW u \in Callers, promised'[u] # NoLatency
                   PROVE  \E e \in Fds : Holds(u, e)'
        BY DEF PromiseInv
      <3>1. CASE u = t
        <4>1. t \notin shared /\ promised'[t] = c_state[t]
          BY <1>1, <3>1 DEF LatencyInv, LatencyTypes
        <4>2. files'[d] = Dma(c_state[t]) /\ d \in DmaFds'
          BY <1>5, <2>1, <2>3, <2>4, <4>1 DEF DmaFds, LatencyInv, LatencyTypes
        <4>3. files'[d].latency = c_state[t] /\ c_state[t] <= c_state[t]
          BY <2>2, <4>2, KindFacts
        <4>4. \A w \in Callers : call'[w] # "write"
          BY <1>2, <1>3, <4>1
        <4> QED
          BY <2>1, <3>1, <4>1, <4>2, <4>3, <4>4 DEF Holds
      <3>2. CASE u # t
        <4>1. promised'[u] = promised[u]
          BY <1>1, <3>2 DEF LatencyInv, LatencyTypes
        <4>2. PICK e \in Fds : Holds(u, e)
          BY <1>3, <4>1 DEF LatencyInv, PromiseInv
        <4>3. e # d
          BY <1>3, <1>5, <4>2 DEF Holds
        <4>4. files'[e] = files[e]
          BY <1>5, <4>3 DEF LatencyInv, LatencyTypes
        <4>5. Holds(u, e)'
          BY <1>1, <1>3, <1>4, <2>3, <4>1, <4>2, <4>4 DEF Holds, Used
        <4> QED
          BY <4>5
      <3> QED
        BY <3>1, <3>2
    <2> QED
      BY <1>3, <2>5, <2>6, <2>7, <2>8, <2>9 DEF LatencyInv
  <1> QED
    BY <1>5 DEF RequestWrite

LEMMA TestKeeps ==
  ASSUME LatencyInv, NEW t \in Callers, ResetTest(t)
  PROVE  LatencyInv'
  <1>1. /\ Step(t, "reset", ResetNext(t))
        /\ ResetNext(t) = "close" => g_fd_cpu_dma # -1
        /\ ResetNext(t) \in {"exit", "none", "close"}
        /\ fd' = [fd EXCEPT ![t] = g_fd_cpu_dma]
        /\ UNCHANGED <<files, g_fd_cpu_dma, c_state, failing, shared, overlapped, leaked,
                       foreign, promised, exited>>
    BY DEF ResetTest, ResetNext, ResetReturn
  <1>2. /\ {"reset", "write", "close", "forget"} \subseteq LatencySteps
        /\ ResetNext(t) \in LatencySteps \cup {"exit", "none"}
    BY <1>1 DEF LatencySteps
  <1>3. /\ ~exited /\ call[t] = "reset"
        /\ \A u \in Callers \ {t} : call'[u] = call[u]
        /\ call' \in [Callers -> Steps]
        /\ t \notin shared => \A u \in Callers \ {t} : call[u] \notin LatencySteps
        /\ ~overlapped => t \notin shared
        /\ AloneInv'
    BY <1>1, <1>2, StepFacts
  <1>4. call'[t] = ResetNext(t)
    BY <1>1, <1>2, StepFacts
  <1>5. /\ DmaFds' = DmaFds
        /\ fd'[t] = g_fd_cpu_dma /\ \A u \in Callers \ {t} : fd'[u] = fd[u]
    BY <1>1 DEF DmaFds, LatencyInv, LatencyTypes
  <1>6. LatencyTypes' /\ OwnDescriptorOnly'
    BY <1>1, <1>3 DEF LatencyInv, LatencyTypes, OwnDescriptorOnly
  <1>7. WriterInv'
    BY <1>1, <1>3, <1>4, <1>5 DEF LatencyInv, WriterInv
  <1>8. GlobalInv' /\ LeakedInv'
    BY <1>1, <1>2, <1>3, <1>4, <1>5 DEF LatencyInv, GlobalInv, LeakedInv
  <1>9. PromiseInv'
    <2>1. \A u \in Callers, d \in Fds : Holds(u, d) => Holds(u, d)'
      BY <1>1, <1>3, <1>4, <1>5 DEF Holds, Used
    <2> QED
      BY <1>1, <1>3, <2>1 DEF LatencyInv, PromiseInv
  <1> QED
    BY <1>3, <1>6, <1>7, <1>8, <1>9 DEF LatencyInv

LEMMA CloseKeeps ==
  ASSUME LatencyInv, NEW t \in Callers, ResetClose(t)
  PROVE  LatencyInv'
  <1>1. /\ Step(t, "close", "forget")
        /\ promised' = [u \in Callers |-> NoLatency]
        /\ fd' = [fd EXCEPT ![t] = -1]
        /\ UNCHANGED <<g_fd_cpu_dma, c_state, failing, shared, overlapped, leaked, exited>>
    BY DEF ResetClose, FdIsDead
  <1>2. {"write", "close", "forget"} \subseteq LatencySteps
    BY DEF LatencySteps
  <1>3. /\ ~exited /\ call[t] = "close"
        /\ \A u \in Callers \ {t} : call'[u] = call[u]
        /\ call' \in [Callers -> Steps]
        /\ t \notin shared => \A u \in Callers \ {t} : call[u] \notin LatencySteps
        /\ ~overlapped => t \notin shared
        /\ AloneInv'
    BY <1>1, <1>2, StepFacts
  <1>4. call'[t] = "forget"
    BY <1>1, <1>2, StepFacts
  <1>5. PICK d \in Used(t) :
          /\ files' = IF d = -1 THEN files ELSE [files EXCEPT ![d] = Free]
          /\ foreign' = (foreign \/ (d # -1 /\ files[d] = Other))
    BY DEF ResetClose
  <1>6. d \in Fds \cup {-1}
    BY <1>5 DEF Used, LatencyInv, LatencyTypes
  <1>7. LatencyTypes'
    BY <1>1, <1>3, <1>5, <1>6, KindFacts DEF LatencyInv, LatencyTypes
  <1>8. DmaFds' = DmaFds \ {d}
    BY <1>5, <1>6 DEF DmaFds, LatencyInv, LatencyTypes, Fds
  <1>9. ~overlapped => d = g_fd_cpu_dma /\ d \in DmaFds
    <2> SUFFICES ASSUME ~overlapped PROVE d = g_fd_cpu_dma /\ d \in DmaFds
      OBVIOUS
    <2>1. fd[t] = g_fd_cpu_dma /\ g_fd_cpu_dma # -1
      BY <1>3 DEF LatencyInv, GlobalInv
    <2>2. \A u \in Callers : call[u] # "forget"
      BY <1>2, <1>3
    <2> QED
      BY <1>3, <1>5, <2>1, <2>2 DEF Used, LatencyInv, GlobalInv
  <1>10. OwnDescriptorOnly'
    BY <1>1, <1>5, <1>9 DEF LatencyInv, OwnDescriptorOnly, DmaFds
  <1>11. WriterInv'
    <2> SUFFICES ASSUME NEW u \in Callers, call'[u] = "write", u \notin shared
                 PROVE  FALSE
      BY <1>1 DEF WriterInv
    <2> QED
      BY <1>2, <1>3, <1>4 DEF LatencyInv, AloneInv, Rivals
  <1>12. GlobalInv'
    BY <1>1, <1>2, <1>3, <1>4 DEF GlobalInv
  <1>13. LeakedInv'
    BY <1>1, <1>3, <1>8, <1>9 DEF LatencyInv, LeakedInv
  <1>14. PromiseInv'
    BY <1>1 DEF PromiseInv
  <1> QED
    BY <1>3, <1>7, <1>10, <1>11, <1>12, <1>13, <1>14 DEF LatencyInv

LEMMA ForgetKeeps ==
  ASSUME LatencyInv, NEW t \in Callers, ResetForget(t)
  PROVE  LatencyInv'
  <1>1. /\ Step(t, "forget", ResetReturn(t))
        /\ ResetReturn(t) \in {"exit", "none"}
        /\ g_fd_cpu_dma' = -1
        /\ UNCHANGED <<files, fd, c_state, failing, shared, overlapped, leaked,
                       foreign, promised, exited>>
    BY DEF ResetForget, Forgotten, ResetReturn
  <1>2. {"write", "close", "forget"} \subseteq LatencySteps
    BY DEF LatencySteps
  <1>3. /\ ~exited /\ call[t] = "forget"
        /\ \A u \in Callers \ {t} : call'[u] = call[u]
        /\ call' \in [Callers -> Steps]
        /\ t \notin shared => \A u \in Callers \ {t} : call[u] \notin LatencySteps
        /\ ~overlapped => t \notin shared
        /\ AloneInv'
    BY <1>1, <1>2, StepFacts
  <1>4. call'[t] \in {"exit", "none"}
    BY <1>1, <1>2, StepFacts
  <1>5. DmaFds' = DmaFds
    BY <1>1 DEF DmaFds
  <1>6. LatencyTypes' /\ OwnDescriptorOnly'
    BY <1>1, <1>3 DEF LatencyInv, LatencyTypes, OwnDescriptorOnly
  <1>7. WriterInv'
    <2> SUFFICES ASSUME NEW u \in Callers, call'[u] = "write", u \notin shared
                 PROVE  FALSE
      BY <1>1 DEF WriterInv
    <2> QED
      BY <1>2, <1>3, <1>4 DEF LatencyInv, AloneInv, Rivals
  <1>8. GlobalInv'
    BY <1>1, <1>2, <1>3, <1>4 DEF GlobalInv
  <1>9. LeakedInv'
    BY <1>1, <1>3, <1>5 DEF LatencyInv, LatencyTypes, LeakedInv, Fds
  <1>10. PromiseInv'
    <2>1. \A u \in Callers, d \in Fds : Holds(u, d) => Holds(u, d)'
      BY <1>1, <1>3, <1>4, <1>5 DEF Holds, Used, Fds
    <2> QED
      BY <1>1, <1>3, <2>1 DEF LatencyInv, PromiseInv
  <1> QED
    BY <1>3, <1>6, <1>7, <1>8, <1>9, <1>10 DEF LatencyInv

LEMMA OtherKeeps ==
  ASSUME LatencyInv, OpenOther
  PROVE  LatencyInv'
  <1>1. /\ ~exited
        /\ UNCHANGED <<call, exited, g_fd_cpu_dma, fd, c_state, failing, shared, overlapped,
                       leaked, foreign, promised>>
    BY DEF OpenOther
  <1>2. PICK d \in Fds : d \in FreeFds /\ files' = [files EXCEPT ![d] = Other]
    BY DEF OpenOther, LowestFree
  <1>3. LatencyTypes' /\ OwnDescriptorOnly'
    BY <1>1, <1>2, KindFacts DEF LatencyInv, LatencyTypes, OwnDescriptorOnly
  <1>4. DmaFds' = DmaFds /\ \A e \in DmaFds : files'[e] = files[e]
    BY <1>2 DEF DmaFds, FreeFds, LatencyInv, LatencyTypes
  <1>5. AloneInv' /\ WriterInv'
    BY <1>1, <1>4 DEF LatencyInv, AloneInv, WriterInv, Rivals
  <1>6. GlobalInv' /\ LeakedInv'
    BY <1>1, <1>4 DEF LatencyInv, GlobalInv, LeakedInv
  <1>7. PromiseInv'
    BY <1>1, <1>4 DEF LatencyInv, PromiseInv, Holds, Used
  <1> QED
    BY <1>3, <1>5, <1>6, <1>7 DEF LatencyInv

LEMMA LatencyNext == LatencyInv /\ [Next]_vars => LatencyInv'
  <1> SUFFICES ASSUME LatencyInv, [Next]_vars PROVE LatencyInv'
    OBVIOUS
  <1>1. ASSUME NEW t \in Callers,
               \/ BeginRealtime(t) \/ BeginUnlimit(t) \/ BeginLock(t)
               \/ EndRealtime(t) \/ EndUnlock(t) \/ DisableCoreFile(t)
        PROVE  LatencyInv'
    <2>1. UNCHANGED <<latencyVars, exited>>
      BY <1>1 DEF BeginRealtime, BeginUnlimit, BeginLock, EndRealtime, EndUnlock,
                  DisableCoreFile
    <2>2. /\ call[t] \in PageSteps \cup {"none"}
          /\ \E s \in PageSteps \cup {"none"} : call' = [call EXCEPT ![t] = s]
      BY <1>1 DEF BeginRealtime, BeginUnlimit, BeginLock, EndRealtime, EndUnlock,
                  DisableCoreFile, Enter, Step, PageSteps
    <2>3. (PageSteps \cup {"none"}) \cap LatencySteps = {}
      BY DEF PageSteps, LatencySteps
    <2>4. /\ call' \in [Callers -> Steps]
          /\ \A u \in Callers : {call[u], call'[u]} \cap LatencySteps # {}
                                => call'[u] = call[u]
      BY <2>2, <2>3 DEF Steps, LatencyInv, LatencyTypes
    <2> QED
      BY <2>1, <2>4, LatencyFrame
  <1>2. ASSUME NEW t \in Callers, NEW c \in Latencies, RequestLatency(t, c)
        PROVE  LatencyInv'
    <2>1. /\ EnterLatency(t, "open") \/ EnterLatency(t, "exit")
          /\ c_state' \in [Callers -> Latencies]
          /\ UNCHANGED <<files, g_fd_cpu_dma, fd, failing, leaked, foreign, promised>>
      BY <1>2 DEF RequestLatency, LatencyInv, LatencyTypes
    <2> QED
      BY <2>1, EnterKeeps
  <1>3. ASSUME NEW t \in Callers, ResetLatency(t) PROVE LatencyInv'
    <2>1. /\ EnterLatency(t, "reset")
          /\ c_state' \in [Callers -> Latencies]
          /\ UNCHANGED <<files, g_fd_cpu_dma, fd, failing, leaked, foreign, promised>>
      BY <1>3 DEF ResetLatency, LatencyInv, LatencyTypes
    <2> QED
      BY <2>1, EnterKeeps
  <1>4. ASSUME NEW t \in Callers,
               \/ RequestOpen(t) \/ RequestOpenFails(t)
               \/ RequestWrite(t) \/ RequestWriteFails(t)
               \/ ResetTest(t) \/ ResetClose(t) \/ ResetForget(t)
        PROVE  LatencyInv'
    BY <1>4, OpenKeeps, OpenFailsKeeps, WriteKeeps, WriteFailsKeeps, TestKeeps,
       CloseKeeps, ForgetKeeps
  <1>5. CASE OpenOther
    BY <1>5, OtherKeeps
  <1>6. ASSUME NEW t \in Callers, Exit(t) PROVE LatencyInv'
    <2>1. exited' /\ UNCHANGED latencyVars /\ call' \in [Callers -> Steps]
      BY <1>6 DEF Exit, Step, Steps, LatencyInv, LatencyTypes
    <2> QED
      BY <2>1 DEF latencyVars, LatencyInv, LatencyTypes, OwnDescriptorOnly
  <1>7. CASE MapPage \/ Ended \/ UNCHANGED vars
    <2>1. UNCHANGED <<latencyVars, exited, call>>
      BY <1>7 DEF MapPage, Ended, vars
    <2> QED
      BY <2>1, LatencyFrame DEF LatencyInv, LatencyTypes
  <1> QED
    BY <1>1, <1>2, <1>3, <1>4, <1>5, <1>6, <1>7 DEF Next

LEMMA LatencyInvariance == Spec => []LatencyInv
  BY LatencyInit, LatencyNext, PTL DEF Spec

\* A latency that was requested while no other latency call was in progress stays
\* in force until the device is closed (process.cc:84-112).
THEOREM LatencyKept == Spec => []LatencyHolds
  <1>1. LatencyInv => LatencyHolds
    BY DEF LatencyInv, LatencyHolds, PromiseInv, Holds, InForce
  <1> QED
    BY <1>1, LatencyInvariance, PTL

\* Calls that do not overlap write and close the device only, whether or not their
\* system calls succeed.
THEOREM NoForeignFile == Spec => []OwnDescriptorOnly
  <1>1. LatencyInv => OwnDescriptorOnly
    BY DEF LatencyInv
  <1> QED
    BY <1>1, LatencyInvariance, PTL

\* Calls that do not overlap leave nothing open but the last descriptor and those
\* that were overwritten.
THEOREM NoLeak == Spec => []NothingLeaks
  <1>1. LatencyInv => NothingLeaks
    <2> SUFFICES ASSUME LatencyInv, ~exited, ~overlapped,
                        \A t \in Callers : call[t] \notin LatencySteps
                 PROVE  DmaFds = leaked \cup ({g_fd_cpu_dma} \ {-1})
      BY DEF NothingLeaks
    <2>1. /\ leaked \subseteq DmaFds /\ DmaFds \subseteq leaked \cup {g_fd_cpu_dma}
          /\ g_fd_cpu_dma \in DmaFds \cup {-1}
      BY DEF LatencyInv, GlobalInv, LeakedInv, LatencySteps
    <2>2. -1 \notin DmaFds
      BY DEF DmaFds, Fds
    <2> QED
      BY <2>1, <2>2
  <1> QED
    BY <1>1, LatencyInvariance, PTL

==============================================================================
