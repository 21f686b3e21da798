------------------------------- MODULE PolyTask -------------------------------
(***************************************************************************)
(* poly_task<Thread> (include/preempt/task.h): one task with a vector of   *)
(* member threads.                                                         *)
(*                                                                         *)
(* The client threads call spawn() and join(), and one of them destroys    *)
(* the task.  The class has a mutex, but spawn() releases it before it     *)
(* uses the vector: `std::lock_guard<decltype(lock_)> {lock_};` is a       *)
(* temporary that is destroyed at the end of its statement, and join()     *)
(* takes no lock.  So the calls of several clients interleave freely, and  *)
(* the vector is modelled at the level of the loads and stores of          *)
(* emplace_back(): read the size, construct the element, write the size,   *)
(* and, when the storage is full, move everything to new storage and free  *)
(* the old one.  A use of freed storage is undefined: it corrupts the      *)
(* process.                                                                *)
(***************************************************************************)
EXTENDS Naturals, Sequences, FiniteSets

CONSTANTS
  Clients,   \* threads that call the task's functions
  Threads,   \* threads of execution that spawn() can create
  None,      \* no thread
  MaxCalls   \* bound: calls of join() in a behaviour

ASSUME PolyTaskAssumption ==
  /\ None \notin Threads
  /\ MaxCalls \in Nat

VARIABLES
  slots,     \* the storage of threads_: slots[i] is the thread in cell i
  size,      \* threads_.size()
  storage,   \* the number of the storage, counted by reallocation
  lock_,     \* the client that holds lock_, or None
  state,     \* state[t]: "unborn", "running" or "exited"
  owner,     \* history: owner[t] is the client whose spawn() created t
  collected, \* the threads that were joined
  call,      \* call[c]: the call that client c is inside of
  answer,    \* answer[c]: how c's last call ended, and the Thread& it returned
  calls,     \* how often join() was called
  fate       \* "running", or how the process ended

polyVars ==
  <<slots, size, storage, lock_, state, owner, collected, call, answer, calls, fate>>

\* A call in progress: spawn()'s temporary Thread and the size and storage it
\* read; or join()'s iterator, its end, and the storage they point into.
Calls == [pc : {"idle", "lock", "unlock", "create", "load", "store", "back", "join"},
          temp : Threads \cup {None}, at : Nat, end : Nat, storage : Nat,
          before : SUBSET Threads]

Idle == [pc |-> "idle", temp |-> None, at |-> 0, end |-> 0, storage |-> 0,
         before |-> {}]

\* What a call gave to its client: spawn() returned a reference to element ref
\* of a storage; join() returned, or threw std::system_error; before are the
\* threads whose spawn() had returned when join() was called.
NoResult == [how |-> "none", ref |-> 0, storage |-> 0, mine |-> None, before |-> {}]

PolyInit ==
  /\ slots = <<>>
  /\ size = 0
  /\ storage = 0
  /\ lock_ = None
  /\ state = [t \in Threads |-> "unborn"]
  /\ owner = [t \in Threads |-> None]
  /\ collected = {}
  /\ call = [c \in Clients |-> Idle]
  /\ answer = [c \in Clients |-> NoResult]
  /\ calls = 0
  /\ fate = "running"

At(c, pc) == fate = "running" /\ call[c].pc = pc

Goto(c, pc) == call' = [call EXCEPT ![c].pc = pc]

------------------------------------------------------------------------------
(* spawn()                                                                 *)

CallSpawn(c) ==
  /\ At(c, "idle")
  /\ Goto(c, "lock")
  /\ UNCHANGED <<slots, size, storage, lock_, state, owner, collected, answer,
                 calls, fate>>

Lock(c) ==
  /\ At(c, "lock")
  /\ lock_ = None
  /\ lock_' = c
  /\ Goto(c, "unlock")
  /\ UNCHANGED <<slots, size, storage, state, owner, collected, answer, calls,
                 fate>>

\* The lock_guard is destroyed.
Unlock(c) ==
  /\ At(c, "unlock")
  /\ lock_' = None
  /\ Goto(c, "create")
  /\ UNCHANGED <<slots, size, storage, state, owner, collected, answer, calls,
                 fate>>

\* Thread {f, args...}
CreateMember(c, t) ==
  /\ At(c, "create")
  /\ state[t] = "unborn"
  /\ state' = [state EXCEPT ![t] = "running"]
  /\ owner' = [owner EXCEPT ![t] = c]
  /\ call' = [call EXCEPT ![c].pc = "load", ![c].temp = t]
  /\ UNCHANGED <<slots, size, storage, lock_, collected, answer, calls, fate>>

\* The constructor throws std::system_error; nothing was added.
CreateMemberFails_Retry(c) == At(c, "create") /\ UNCHANGED polyVars
CreateMemberFails(c) ==
  /\ At(c, "create")
  /\ call' = [call EXCEPT ![c] = Idle]
  /\ answer' = [answer EXCEPT ![c] = [NoResult EXCEPT !.how = "threw"]]
  /\ UNCHANGED <<slots, size, storage, lock_, state, owner, collected, calls,
                 fate>>

\* emplace_back() reads the end of the vector.
ReadEnd(c) ==
  /\ At(c, "load")
  /\ call' = [call EXCEPT ![c].pc = "store", ![c].at = size,
                          ![c].storage = storage]
  /\ UNCHANGED <<slots, size, storage, lock_, state, owner, collected, answer,
                 calls, fate>>

\* emplace_back() found the storage full and has to grow it.
Full(c) == call[c].at = Len(slots)

\* The storage after emplace_back(): twice as large as before if it was full,
\* with the old elements moved over, and the temporary behind the elements.
Cells_NotMoved(c) ==
  [i \in 1..(IF Full(c) THEN 2 * Len(slots) + 1 ELSE Len(slots)) |->
     IF i = call[c].at + 1 THEN call[c].temp
     ELSE IF ~Full(c) THEN slots[i] ELSE None]
Cells(c) ==
  [i \in 1..(IF ~Full(c) THEN Len(slots) ELSE IF slots = <<>> THEN 1 ELSE 2 * Len(slots)) |->
     IF i = call[c].at + 1 THEN call[c].temp
     ELSE IF i <= Len(slots) THEN slots[i] ELSE None]

Emplace(c) ==
  /\ At(c, "store")
  /\ \/ /\ call[c].storage # storage
        /\ fate' = "corrupted"
        /\ UNCHANGED <<slots, size, storage, call>>
     \/ /\ call[c].storage = storage
        /\ slots' = Cells(c)
        /\ size' = call[c].at + 1
        /\ storage' = IF Full(c) THEN storage + 1 ELSE storage
        /\ Goto(c, "back")
        /\ UNCHANGED fate
  /\ UNCHANGED <<lock_, state, owner, collected, answer, calls>>

\* return threads_.back();
BackRef_Front == 1
BackRef == size

Back(c) ==
  /\ At(c, "back")
  /\ answer' = [answer EXCEPT ![c] = [how |-> "spawned", ref |-> BackRef,
                                      storage |-> storage, mine |-> call[c].temp,
                                      before |-> {}]]
  /\ call' = [call EXCEPT ![c] = Idle]
  /\ UNCHANGED <<slots, size, storage, lock_, state, owner, collected, calls,
                 fate>>

------------------------------------------------------------------------------
(* join() and the destructor                                               *)

\* The threads whose spawn() has returned.
Members == {t \in Threads : state[t] # "unborn" /\ \A c \in Clients : call[c].temp # t}

CallJoin(c) ==
  /\ At(c, "idle")
  /\ calls < MaxCalls
  /\ calls' = calls + 1
  /\ call' = [call EXCEPT ![c] = [Idle EXCEPT !.pc = "join", !.at = 1,
                                              !.end = size,
                                              !.storage = storage,
                                              !.before = Members]]
  /\ UNCHANGED <<slots, size, storage, lock_, state, owner, collected, answer,
                 fate>>

JoinEnds(c, how) ==
  /\ call' = [call EXCEPT ![c] = Idle]
  /\ answer' = [answer EXCEPT ![c] = [NoResult EXCEPT !.how = how,
                                                      !.before = call[c].before]]

\* One round of `for (auto& t : threads_) t.join();`
JoinNext_Skips(c) == call[c].at + 2
JoinNext(c) == call[c].at + 1

JoinStep(c) ==
  /\ At(c, "join")
  /\ \/ /\ call[c].at > call[c].end
        /\ JoinEnds(c, "returned")
        /\ UNCHANGED <<slots, collected, fate>>
     \/ /\ call[c].at <= call[c].end
        /\ call[c].storage # storage
        /\ fate' = "corrupted"
        /\ UNCHANGED <<slots, collected, call, answer>>
     \/ /\ call[c].at <= call[c].end
        /\ call[c].storage = storage
        /\ slots[call[c].at] = None
        /\ JoinEnds(c, "threw")
        /\ UNCHANGED <<slots, collected, fate>>
     \/ /\ call[c].at <= call[c].end
        /\ call[c].storage = storage
        /\ slots[call[c].at] # None
        /\ state[slots[call[c].at]] = "exited"
        /\ collected' = collected \cup {slots[call[c].at]}
        /\ slots' = [slots EXCEPT ![call[c].at] = None]
        /\ call' = [call EXCEPT ![c].at = JoinNext(c)]
        /\ UNCHANGED <<answer, fate>>
  /\ UNCHANGED <<size, storage, lock_, state, owner, calls>>

\* joinable()
joinable == \E i \in 1..size : slots[i] # None

\* The client that owns the task destroys it: the vector destroys its elements,
\* and one that is still joinable terminates the process.
DestroyTerminates_Never == FALSE
DestroyTerminates == joinable

DestroyTask ==
  /\ \A c \in Clients : At(c, "idle")
  /\ \/ DestroyTerminates /\ fate' = "terminated"
     \/ ~DestroyTerminates /\ fate' = "exited"
  /\ UNCHANGED <<slots, size, storage, lock_, state, owner, collected, call,
                 answer, calls>>

------------------------------------------------------------------------------

ThreadExit(t) ==
  /\ fate = "running"
  /\ state[t] = "running"
  /\ state' = [state EXCEPT ![t] = "exited"]
  /\ UNCHANGED <<slots, size, storage, lock_, owner, collected, call, answer,
                 calls, fate>>

Ended == fate # "running" /\ UNCHANGED polyVars

SpawnStep(c) ==
  \/ Lock(c) \/ Unlock(c) \/ CreateMemberFails(c) \/ ReadEnd(c) \/ Emplace(c) \/ Back(c)
  \/ \E t \in Threads : CreateMember(c, t)

PolyNext ==
  \/ \E c \in Clients : CallSpawn(c) \/ SpawnStep(c) \/ CallJoin(c) \/ JoinStep(c)
  \/ \E t \in Threads : ThreadExit(t)
  \/ DestroyTask
  \/ Ended

PolySpec == PolyInit /\ [][PolyNext]_polyVars

------------------------------------------------------------------------------
(* Properties.                                                             *)

PolyTypeOK ==
  /\ slots \in Seq(Threads \cup {None})
  /\ size \in Nat /\ storage \in Nat /\ calls \in Nat
  /\ lock_ \in Clients \cup {None}
  /\ state \in [Threads -> {"unborn", "running", "exited"}]
  /\ owner \in [Threads -> Clients \cup {None}]
  /\ collected \subseteq Threads
  /\ call \in [Clients -> Calls]
  /\ answer \in [Clients -> [how : {"none", "spawned", "returned", "threw"},
                             ref : Nat, storage : Nat, mine : Threads \cup {None},
                             before : SUBSET Threads]]
  /\ fate \in {"running", "exited", "terminated", "corrupted"}

\* The threads that elements of the vector represent.
Held == {slots[i] : i \in 1..size} \ {None}

\* Every thread that was spawned and not joined is in exactly one element of the
\* vector or is the temporary of a spawn() that has not returned: "Push a new
\* member thread" (task.h:85) loses and duplicates none, also when the vector grows.
NoMemberLost ==
  fate = "running" =>
    /\ Held = {t \in Threads :
                 /\ state[t] # "unborn" /\ t \notin collected
                 /\ \A c \in Clients : call[c].temp = t => call[c].pc = "back"}
    /\ Cardinality(Held) = Cardinality({i \in 1..size : slots[i] # None})

\* Once join() has returned, every thread whose spawn() had returned before it
\* was called is joined, although the vector is shared with spawn():
\* "Join all spawned threads" (task.h:91).
JoinCollectsAll ==
  fate = "running" =>
    \A c \in Clients :
      answer[c].how = "returned" => answer[c].before \subseteq collected

\* task.h:91, of every join(): "Join all spawned threads."
JoinJoinsAll ==
  fate = "running" =>
    \A c \in Clients :
      answer[c].how \in {"returned", "threw"} => answer[c].before \subseteq collected

\* spawn() returns the element of the thread it created, so that a call such as
\* spawn(f).change_scheduling(policy, priority) reaches that thread
\* (tests/task_01_monopoly.cc:74).
RefIsOwnThread ==
  fate = "running" =>
    \A c \in Clients :
      answer[c].how = "spawned" /\ answer[c].storage = storage /\ answer[c].ref > 0 =>
        slots[answer[c].ref] \in {answer[c].mine, None}

\* The task is destroyed without termination only when all of its threads were
\* joined, so none of them outlives the task.
CleanDestruction ==
  fate = "exited" =>
    \A t \in Threads : state[t] # "unborn" => t \in collected /\ state[t] = "exited"

\* spawn() and join() return or throw, or the process ends.
CallsReturn ==
  \A c \in Clients :
    call[c].pc # "idle" ~> (call[c].pc = "idle" \/ fate # "running")

==============================================================================
