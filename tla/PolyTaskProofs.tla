---------------------------- MODULE PolyTaskProofs ----------------------------
(***************************************************************************)
(* The properties of PolyTask for any number of clients and threads.       *)
(*                                                                         *)
(* They hold when the calls of different clients do not overlap            *)
(* (Serialized), which the code leaves to its callers: lock_ is released   *)
(* before the vector is used, and the runs show what overlapping calls do. *)
(* The invariant relates the elements of the vector to the threads they    *)
(* should represent (HeldInv), and what a call has read of the vector to   *)
(* what the vector is (CallInv).                                           *)
(***************************************************************************)
EXTENDS PolyTask, TLAPS, FiniteSetTheorems, Integers

Pcs == {"idle", "lock", "unlock", "create", "load", "store", "back", "join"}

Results == [how : {"none", "spawned", "returned", "threw"}, ref : Nat, storage : Nat,
            mine : Threads \cup {None}, before : SUBSET Threads]

\* c's call becomes the record of these fields.
Moves(c, pc, temp, at, end, st, before) ==
  call' = [call EXCEPT ![c] = [pc |-> pc, temp |-> temp, at |-> at, end |-> end,
                               storage |-> st, before |-> before]]

LEMMA GotoMoves ==
  ASSUME call \in [Clients -> Calls], NEW c \in Clients, NEW pc \in Pcs, Goto(c, pc)
  PROVE  Moves(c, pc, call[c].temp, call[c].at, call[c].end, call[c].storage,
               call[c].before)
<1> DEFINE r == [pc |-> pc, temp |-> call[c].temp, at |-> call[c].at, end |-> call[c].end,
                 storage |-> call[c].storage, before |-> call[c].before]
<1>1. call[c] \in Calls
  OBVIOUS
<1>2. [call[c] EXCEPT !.pc = pc] = r
  BY <1>1 DEF Calls
<1>3. call' = [call EXCEPT ![c] = [call[c] EXCEPT !.pc = pc]]
  BY Zenon DEF Goto
<1> QED
  BY <1>2, <1>3, Zenon DEF Moves

LEMMA IdleMoves ==
  ASSUME NEW c \in Clients, call' = [call EXCEPT ![c] = Idle]
  PROVE  Moves(c, "idle", None, 0, 0, 0, {})
  BY Zenon DEF Moves, Idle

LEMMA CreateMoves ==
  ASSUME call \in [Clients -> Calls], NEW c \in Clients, NEW t \in Threads, CreateMember(c, t)
  PROVE  Moves(c, "load", t, call[c].at, call[c].end, call[c].storage, call[c].before)
<1> DEFINE r == [pc |-> "load", temp |-> t, at |-> call[c].at, end |-> call[c].end,
                 storage |-> call[c].storage, before |-> call[c].before]
           h == [call[c] EXCEPT !.pc = "load"]
<1>1. call[c] \in Calls
  OBVIOUS
<1>2. /\ h \in Calls
      /\ h.pc = "load" /\ h.at = call[c].at /\ h.end = call[c].end
      /\ h.storage = call[c].storage /\ h.before = call[c].before
  BY <1>1 DEF Calls
<1>3. call' = [[call EXCEPT ![c] = h] EXCEPT ![c].temp = t]
  BY Zenon DEF CreateMember
<1> HIDE DEF h
<1>4. call' = [call EXCEPT ![c] = [h EXCEPT !.temp = t]]
  BY <1>3
<1>5. [h EXCEPT !.temp = t] = r
  BY <1>2 DEF Calls
<1> QED
  BY <1>4, <1>5, Zenon DEF Moves

LEMMA LoadMoves ==
  ASSUME call \in [Clients -> Calls], NEW c \in Clients, ReadEnd(c)
  PROVE  Moves(c, "store", call[c].temp, size, call[c].end, storage, call[c].before)
<1> DEFINE r == [pc |-> "store", temp |-> call[c].temp, at |-> size, end |-> call[c].end,
                 storage |-> storage, before |-> call[c].before]
           h == [call[c] EXCEPT !.pc = "store"]
           g == [h EXCEPT !.at = size]
<1>1. call[c] \in Calls
  OBVIOUS
<1>2. /\ h = [pc |-> "store", temp |-> call[c].temp, at |-> call[c].at,
              end |-> call[c].end, storage |-> call[c].storage, before |-> call[c].before]
  BY <1>1 DEF Calls
<1>3. call' = [call EXCEPT ![c] = [g EXCEPT !.storage = storage]]
  BY Zenon DEF ReadEnd
<1> HIDE DEF h
<1>4. g = [pc |-> "store", temp |-> call[c].temp, at |-> size,
           end |-> call[c].end, storage |-> call[c].storage, before |-> call[c].before]
  BY <1>2
<1> HIDE DEF g
<1>5. [g EXCEPT !.storage = storage] = r
  BY <1>4
<1> QED
  BY <1>3, <1>5, Zenon DEF Moves

LEMMA JoinMoves ==
  ASSUME NEW c \in Clients, CallJoin(c)
  PROVE  Moves(c, "join", None, 1, size, storage, Members)
<1> DEFINE h == [Idle EXCEPT !.pc = "join"]
           g == [h EXCEPT !.at = 1]
           f == [g EXCEPT !.end = size]
           e == [f EXCEPT !.storage = storage]
           d == [e EXCEPT !.before = Members]
<1>0. call' = [call EXCEPT ![c] = d]
  BY Zenon DEF CallJoin
<1>1. h = [pc |-> "join", temp |-> None, at |-> 0, end |-> 0, storage |-> 0, before |-> {}]
  BY DEF Idle
<1> HIDE DEF h
<1>2. g = [pc |-> "join", temp |-> None, at |-> 1, end |-> 0, storage |-> 0, before |-> {}]
  BY <1>1
<1> HIDE DEF g
<1>3. f = [pc |-> "join", temp |-> None, at |-> 1, end |-> size, storage |-> 0, before |-> {}]
  BY <1>2
<1> HIDE DEF f
<1>4. e = [pc |-> "join", temp |-> None, at |-> 1, end |-> size, storage |-> storage,
           before |-> {}]
  BY <1>3
<1> HIDE DEF e
<1>5. d = [pc |-> "join", temp |-> None, at |-> 1, end |-> size, storage |-> storage,
           before |-> Members]
  BY <1>4
<1> QED
  BY <1>0, <1>5, Zenon DEF Moves

LEMMA NextRoundMoves ==
  ASSUME call \in [Clients -> Calls], NEW c \in Clients,
         call' = [call EXCEPT ![c].at = JoinNext(c)]
  PROVE  Moves(c, call[c].pc, call[c].temp, call[c].at + 1, call[c].end, call[c].storage,
               call[c].before)
<1>1. call[c] \in Calls
  OBVIOUS
<1>2. [call[c] EXCEPT !.at = JoinNext(c)] =
        [pc |-> call[c].pc, temp |-> call[c].temp, at |-> call[c].at + 1,
         end |-> call[c].end, storage |-> call[c].storage, before |-> call[c].before]
  BY <1>1 DEF Calls, JoinNext
<1> QED
  BY <1>2, Zenon DEF Moves

\* What a moved call looks like, and that the other calls stay.
LEMMA MovesTo ==
  ASSUME call \in [Clients -> Calls], NEW c \in Clients,
         NEW pc \in Pcs, NEW temp \in Threads \cup {None}, NEW at \in Nat,
         NEW end \in Nat, NEW st \in Nat, NEW before \in SUBSET Threads,
         Moves(c, pc, temp, at, end, st, before)
  PROVE  /\ call' \in [Clients -> Calls]
         /\ call'[c].pc = pc /\ call'[c].temp = temp /\ call'[c].at = at
         /\ call'[c].end = end /\ call'[c].storage = st /\ call'[c].before = before
         /\ \A d \in Clients : d # c => call'[d] = call[d]
<1> DEFINE r == [pc |-> pc, temp |-> temp, at |-> at, end |-> end, storage |-> st,
                 before |-> before]
<1>1. r \in Calls
  BY DEF Calls, Pcs
<1>2. call' = [call EXCEPT ![c] = r]
  BY Zenon DEF Moves
<1>3. /\ r.pc = pc /\ r.temp = temp /\ r.at = at /\ r.end = end /\ r.storage = st
      /\ r.before = before
  OBVIOUS
<1> HIDE DEF r
<1> QED
  BY <1>1, <1>2, <1>3

LEMMA CallFields ==
  ASSUME call \in [Clients -> Calls], NEW c \in Clients
  PROVE  /\ call[c] \in Calls
         /\ call[c].pc \in Pcs /\ call[c].temp \in Threads \cup {None}
         /\ call[c].at \in Nat /\ call[c].end \in Nat /\ call[c].storage \in Nat
         /\ call[c].before \in SUBSET Threads
  BY DEF Calls, Pcs

LEMMA DoneResult ==
  ASSUME NEW how, NEW before
  PROVE  [NoResult EXCEPT !.how = how, !.before = before] =
           [how |-> how, ref |-> 0, storage |-> 0, mine |-> None, before |-> before]
<1> DEFINE h == [NoResult EXCEPT !.how = how]
<1>1. h = [how |-> how, ref |-> 0, storage |-> 0, mine |-> None, before |-> {}]
  BY DEF NoResult
<1>2. [NoResult EXCEPT !.how = how, !.before = before] = [h EXCEPT !.before = before]
  OBVIOUS
<1> HIDE DEF h
<1> QED
  BY <1>1, <1>2

\* A join() that is over.
LEMMA DoneMoves ==
  ASSUME NEW c \in Clients, NEW how \in {"returned", "threw"}, JoinEnds(c, how)
  PROVE  /\ Moves(c, "idle", None, 0, 0, 0, {})
         /\ answer' = [answer EXCEPT ![c] = [how |-> how, ref |-> 0, storage |-> 0,
                                             mine |-> None, before |-> call[c].before]]
<1>1. call' = [call EXCEPT ![c] = Idle]
  BY Zenon DEF JoinEnds
<1>2. answer' = [answer EXCEPT ![c] = [NoResult EXCEPT !.how = how,
                                                       !.before = call[c].before]]
  BY Zenon DEF JoinEnds
<1> QED
  BY <1>1, <1>2, IdleMoves, DoneResult, Zenon

------------------------------------------------------------------------------

\* The bounds that keep every access inside the storage it means, however the
\* calls of the clients interleave.
BoundsInv ==
  /\ size <= Len(slots)
  /\ \A c \in Clients :
       /\ call[c].storage <= storage
       /\ call[c].pc = "store" /\ call[c].storage = storage => call[c].at <= Len(slots)
       /\ call[c].pc = "join" =>
            /\ call[c].at >= 1
            /\ call[c].storage = storage => call[c].end <= Len(slots)

\* What emplace_back() leaves in the storage it found, or in the new one.
LEMMA CellsGrow ==
  ASSUME slots \in Seq(Threads \cup {None}), call \in [Clients -> Calls], NEW c \in Clients,
         call[c].at <= Len(slots)
  PROVE  /\ Cells(c) \in Seq(Threads \cup {None})
         /\ Len(Cells(c)) >= Len(slots) /\ Len(Cells(c)) >= call[c].at + 1
         /\ ~Full(c) => Len(Cells(c)) = Len(slots)
         /\ Cells(c)[call[c].at + 1] = call[c].temp
         /\ \A i \in 1..Len(slots) : i # call[c].at + 1 => Cells(c)[i] = slots[i]
<1> DEFINE n == IF ~Full(c) THEN Len(slots) ELSE IF slots = <<>> THEN 1 ELSE 2 * Len(slots)
<1>1. call[c].at \in Nat /\ call[c].temp \in Threads \cup {None}
  BY CallFields
<1>2. n \in Nat /\ n >= Len(slots) /\ n >= call[c].at + 1 /\ (~Full(c) => n = Len(slots))
  BY <1>1 DEF Full
<1>3. Cells(c) = [i \in 1..n |-> IF i = call[c].at + 1 THEN call[c].temp
                                 ELSE IF i <= Len(slots) THEN slots[i] ELSE None]
  BY Zenon DEF Cells
<1> HIDE DEF n
<1>4. \A i \in 1..Len(slots) : slots[i] \in Threads \cup {None}
  OBVIOUS
<1>5. Cells(c) \in Seq(Threads \cup {None}) /\ Len(Cells(c)) = n
  BY <1>1, <1>2, <1>3, <1>4
<1> QED
  BY <1>1, <1>2, <1>3, <1>5


\* PolyTypeOK, with the sets of records named.
LEMMA Typed ==
  PolyTypeOK <=>
    /\ slots \in Seq(Threads \cup {None})
    /\ size \in Nat /\ storage \in Nat /\ calls \in Nat
    /\ lock_ \in Clients \cup {None}
    /\ state \in [Threads -> {"unborn", "running", "exited"}]
    /\ owner \in [Threads -> Clients \cup {None}]
    /\ collected \subseteq Threads
    /\ call \in [Clients -> Calls]
    /\ answer \in [Clients -> Results]
    /\ fate \in {"running", "exited", "terminated", "corrupted"}
  BY Zenon DEF PolyTypeOK, Results

LEMMA InitTyped == PolyInit => PolyTypeOK /\ BoundsInv
<1> SUFFICES ASSUME PolyInit PROVE PolyTypeOK /\ BoundsInv
  OBVIOUS
<1>1. Idle \in Calls /\ NoResult \in Results
  BY DEF Idle, Calls, NoResult, Results
<1>2. call \in [Clients -> Calls] /\ answer \in [Clients -> Results]
  BY <1>1 DEF PolyInit
<1>3. PolyTypeOK
  BY <1>2, Typed DEF PolyInit
<1>4. BoundsInv
  BY DEF PolyInit, BoundsInv, Idle
<1> QED
  BY <1>3, <1>4

\* Every step keeps the types and the bounds.
LEMMA NextTyped == PolyTypeOK /\ BoundsInv /\ [PolyNext]_polyVars => PolyTypeOK' /\ BoundsInv'
<1> SUFFICES ASSUME PolyTypeOK, BoundsInv, [PolyNext]_polyVars PROVE PolyTypeOK' /\ BoundsInv'
  OBVIOUS
<1> DEFINE Types ==
      /\ slots' \in Seq(Threads \cup {None})
      /\ size' \in Nat /\ storage' \in Nat /\ calls' \in Nat
      /\ lock_' \in Clients \cup {None}
      /\ state' \in [Threads -> {"unborn", "running", "exited"}]
      /\ owner' \in [Threads -> Clients \cup {None}]
      /\ collected' \subseteq Threads
      /\ call' \in [Clients -> Calls]
      /\ answer' \in [Clients -> Results]
      /\ fate' \in {"running", "exited", "terminated", "corrupted"}
<1>0. /\ slots \in Seq(Threads \cup {None})
      /\ size \in Nat /\ storage \in Nat /\ calls \in Nat
      /\ lock_ \in Clients \cup {None}
      /\ state \in [Threads -> {"unborn", "running", "exited"}]
      /\ owner \in [Threads -> Clients \cup {None}]
      /\ collected \subseteq Threads
      /\ call \in [Clients -> Calls]
      /\ answer \in [Clients -> Results]
      /\ fate \in {"running", "exited", "terminated", "corrupted"}
  BY Typed
<1>t. Types => PolyTypeOK'
  BY Zenon DEF PolyTypeOK, Results
<1> HIDE DEF Types
<1>c. call \in [Clients -> Calls] /\ size \in Nat /\ storage \in Nat
  BY <1>0
<1>f. ASSUME NEW c \in Clients
      PROVE  /\ call[c].pc \in Pcs /\ call[c].temp \in Threads \cup {None}
             /\ call[c].at \in Nat /\ call[c].end \in Nat /\ call[c].storage \in Nat
             /\ call[c].before \in SUBSET Threads
  BY <1>0, CallFields
<1>g. ASSUME NEW c \in Clients, NEW pc \in {"lock", "unlock", "create", "back"}, Goto(c, pc)
      PROVE  /\ call' \in [Clients -> Calls]
             /\ call'[c].pc = pc /\ call'[c].storage = call[c].storage
             /\ \A d \in Clients : d # c => call'[d] = call[d]
  <2>1. pc \in Pcs
    BY DEF Pcs
  <2>2. Moves(c, pc, call[c].temp, call[c].at, call[c].end, call[c].storage, call[c].before)
    BY <1>0, <1>g, <2>1, GotoMoves
  <2>f. /\ call[c].pc \in Pcs /\ call[c].temp \in Threads \cup {None}
        /\ call[c].at \in Nat /\ call[c].end \in Nat /\ call[c].storage \in Nat
        /\ call[c].before \in SUBSET Threads
    BY <1>f
  <2>3. Moves(c, pc, call[c].temp, call[c].at, call[c].end, call[c].storage, call[c].before)
         => call' \in [Clients -> Calls]
    BY <1>c, <2>f, <2>1, MovesTo
  <2>4. call' \in [Clients -> Calls]
    BY <2>2, <2>3
  <2> QED
    BY <1>c, <2>f, <2>1, <2>2, <2>4, MovesTo DEF Moves
<1>i. ASSUME NEW c \in Clients, Moves(c, "idle", None, 0, 0, 0, {})
      PROVE  /\ call' \in [Clients -> Calls]
             /\ call'[c].pc = "idle" /\ call'[c].storage = 0
             /\ \A d \in Clients : d # c => call'[d] = call[d]
  <2>1. "idle" \in Pcs /\ 0 \in Nat /\ None \in Threads \cup {None} /\ {} \in SUBSET Threads
    BY DEF Pcs
  <2> QED
    BY <1>c, <1>i, <2>1, MovesTo, ZenonT(30) DEF Moves
<1>d. ASSUME NEW c \in Clients, NEW how \in {"returned", "threw"},
             answer' = [answer EXCEPT ![c] = [how |-> how, ref |-> 0, storage |-> 0,
                                              mine |-> None, before |-> call[c].before]]
      PROVE  answer' \in [Clients -> Results]
  BY <1>0, <1>d, <1>f DEF Results
<1>1. ASSUME NEW c \in Clients, CallSpawn(c) PROVE Types /\ BoundsInv'
  BY <1>0, <1>1, <1>g DEF CallSpawn, Types, BoundsInv
<1>2. ASSUME NEW c \in Clients, Lock(c) PROVE Types /\ BoundsInv'
  BY <1>0, <1>2, <1>g DEF Lock, Types, BoundsInv
<1>3. ASSUME NEW c \in Clients, Unlock(c) PROVE Types /\ BoundsInv'
  BY <1>0, <1>3, <1>g DEF Unlock, Types, BoundsInv
<1>4. ASSUME NEW c \in Clients, CreateMemberFails(c) PROVE Types /\ BoundsInv'
  <2>1. /\ call' \in [Clients -> Calls]
        /\ call'[c].pc = "idle" /\ call'[c].storage = 0
        /\ \A d \in Clients : d # c => call'[d] = call[d]
    BY <1>4, <1>i, IdleMoves DEF CreateMemberFails
  <2>2. [NoResult EXCEPT !.how = "threw"] \in Results
    BY DEF NoResult, Results
  <2>3. answer' \in [Clients -> Results]
    BY <1>0, <1>4, <2>2 DEF CreateMemberFails
  <2> QED
    BY <1>0, <1>4, <2>1, <2>3 DEF CreateMemberFails, Types, BoundsInv
<1>5. ASSUME NEW c \in Clients, NEW t \in Threads, CreateMember(c, t) PROVE Types /\ BoundsInv'
  <2>1. /\ call' \in [Clients -> Calls]
        /\ call'[c].pc = "load" /\ call'[c].storage = call[c].storage
        /\ \A d \in Clients : d # c => call'[d] = call[d]
    <3>1. Moves(c, "load", t, call[c].at, call[c].end, call[c].storage, call[c].before)
      BY <1>0, <1>5, CreateMoves
    <3>2. "load" \in Pcs
      BY DEF Pcs
    <3>f. /\ call[c].pc \in Pcs /\ call[c].temp \in Threads \cup {None}
          /\ call[c].at \in Nat /\ call[c].end \in Nat /\ call[c].storage \in Nat
          /\ call[c].before \in SUBSET Threads
      BY <1>f
    <3> QED
      BY <1>c, <3>f, <3>1, <3>2, MovesTo
  <2> QED
    BY <1>0, <1>5, <2>1 DEF CreateMember, Types, BoundsInv
<1>6. ASSUME NEW c \in Clients, ReadEnd(c) PROVE Types /\ BoundsInv'
  <2>1. /\ call' \in [Clients -> Calls]
        /\ call'[c].pc = "store" /\ call'[c].storage = storage /\ call'[c].at = size
        /\ \A d \in Clients : d # c => call'[d] = call[d]
    <3>1. Moves(c, "store", call[c].temp, size, call[c].end, storage, call[c].before)
      BY <1>0, <1>6, LoadMoves
    <3>2. "store" \in Pcs
      BY DEF Pcs
    <3>f. /\ call[c].pc \in Pcs /\ call[c].temp \in Threads \cup {None}
          /\ call[c].at \in Nat /\ call[c].end \in Nat /\ call[c].storage \in Nat
          /\ call[c].before \in SUBSET Threads
      BY <1>f
    <3>3. Moves(c, "store", call[c].temp, size, call[c].end, storage, call[c].before)
           => call' \in [Clients -> Calls]
      BY <1>c, <3>f, <3>2, MovesTo
    <3>4. call' \in [Clients -> Calls]
      BY <3>1, <3>3
    <3> QED
      BY <1>c, <3>f, <3>1, <3>2, <3>4, MovesTo DEF Moves
  <2> QED
    BY <1>0, <1>6, <2>1 DEF ReadEnd, Types, BoundsInv
<1>7. ASSUME NEW c \in Clients, Emplace(c) PROVE Types /\ BoundsInv'
  <2>1. CASE call[c].storage # storage
    BY <1>0, <1>7, <2>1 DEF Emplace, Types, BoundsInv
  <2>2. CASE call[c].storage = storage
    <3>1. /\ call' \in [Clients -> Calls]
          /\ call'[c].pc = "back" /\ call'[c].storage = call[c].storage
          /\ \A d \in Clients : d # c => call'[d] = call[d]
      BY <1>7, <1>g, <2>2 DEF Emplace
    <3>2. call[c].at <= Len(slots)
      BY <1>7, <2>2 DEF Emplace, At, BoundsInv
    <3>3. /\ slots' \in Seq(Threads \cup {None})
          /\ Len(slots') >= Len(slots) /\ Len(slots') >= call[c].at + 1
      BY <1>0, <1>7, <2>2, <3>2, CellsGrow DEF Emplace
    <3>4. /\ size' = call[c].at + 1 /\ size' \in Nat /\ storage' \in Nat
          /\ storage' \in {storage, storage + 1}
      BY <1>0, <1>7, <1>f, <2>2 DEF Emplace
    <3>5. Types
      BY <1>0, <1>7, <2>2, <3>1, <3>3, <3>4 DEF Emplace, Types
    <3>6. Len(slots) \in Nat /\ Len(slots') \in Nat
      BY <1>0, <3>3
    <3>7. BoundsInv'
      BY <1>0, <1>f, <3>1, <3>3, <3>4, <3>6 DEF BoundsInv
    <3> QED
      BY <3>5, <3>7
  <2> QED
    BY <2>1, <2>2
<1>8. ASSUME NEW c \in Clients, Back(c) PROVE Types /\ BoundsInv'
  <2>1. /\ call' \in [Clients -> Calls]
        /\ call'[c].pc = "idle" /\ call'[c].storage = 0
        /\ \A d \in Clients : d # c => call'[d] = call[d]
    BY <1>8, <1>i, IdleMoves DEF Back
  <2>2. answer' \in [Clients -> Results]
    BY <1>0, <1>8, <1>f DEF Back, BackRef, Results
  <2> QED
    BY <1>0, <1>8, <2>1, <2>2 DEF Back, Types, BoundsInv
<1>9. ASSUME NEW c \in Clients, CallJoin(c) PROVE Types /\ BoundsInv'
  <2>1. /\ call' \in [Clients -> Calls]
        /\ call'[c].pc = "join" /\ call'[c].storage = storage
        /\ call'[c].at = 1 /\ call'[c].end = size
        /\ \A d \in Clients : d # c => call'[d] = call[d]
    <3>1. Moves(c, "join", None, 1, size, storage, Members)
      BY <1>9, JoinMoves
    <3>2. /\ "join" \in Pcs /\ 1 \in Nat
          /\ None \in Threads \cup {None} /\ Members \in SUBSET Threads
      BY DEF Pcs, Members
    <3> QED
      BY <1>c, <3>1, <3>2, MovesTo, ZenonT(30) DEF Moves
  <2> QED
    BY <1>0, <1>9, <2>1 DEF CallJoin, Types, BoundsInv
<1>10. ASSUME NEW c \in Clients, JoinStep(c) PROVE Types /\ BoundsInv'
  <2>1. ASSUME NEW how \in {"returned", "threw"}, JoinEnds(c, how),
               UNCHANGED <<slots, collected, fate>>
        PROVE  Types /\ BoundsInv'
    <3>1. /\ call' \in [Clients -> Calls]
          /\ call'[c].pc = "idle" /\ call'[c].storage = 0
          /\ \A d \in Clients : d # c => call'[d] = call[d]
      BY <1>i, <2>1, DoneMoves
    <3>2. answer' \in [Clients -> Results]
      BY <1>d, <2>1, DoneMoves
    <3> QED
      BY <1>0, <1>10, <2>1, <3>1, <3>2 DEF JoinStep, Types, BoundsInv
  <2>2. CASE fate' = "corrupted" /\ UNCHANGED <<slots, collected, call, answer>>
    BY <1>0, <1>10, <2>2 DEF JoinStep, Types, BoundsInv
  <2>3. CASE /\ call[c].at <= call[c].end
             /\ call[c].storage = storage
             /\ collected' = collected \cup {slots[call[c].at]}
             /\ slots[call[c].at] # None
             /\ slots' = [slots EXCEPT ![call[c].at] = None]
             /\ call' = [call EXCEPT ![c].at = JoinNext(c)]
             /\ UNCHANGED <<answer, fate>>
    <3>1. /\ call' \in [Clients -> Calls]
          /\ call'[c].pc = call[c].pc /\ call'[c].storage = call[c].storage
          /\ call'[c].at = call[c].at + 1 /\ call'[c].end = call[c].end
          /\ \A d \in Clients : d # c => call'[d] = call[d]
      <4>1. Moves(c, call[c].pc, call[c].temp, call[c].at + 1, call[c].end,
                  call[c].storage, call[c].before)
        BY <1>0, <2>3, NextRoundMoves
      <4>2. call[c].at + 1 \in Nat
        BY <1>f
      <4>f. /\ call[c].pc \in Pcs /\ call[c].temp \in Threads \cup {None}
            /\ call[c].at \in Nat /\ call[c].end \in Nat /\ call[c].storage \in Nat
            /\ call[c].before \in SUBSET Threads
        BY <1>f
      <4>3. Moves(c, call[c].pc, call[c].temp, call[c].at + 1, call[c].end,
                  call[c].storage, call[c].before)
             => call' \in [Clients -> Calls]
        BY <1>c, <4>f, <4>2, MovesTo
      <4>4. call' \in [Clients -> Calls]
        BY <4>1, <4>3
      <4> QED
        BY <1>c, <4>f, <4>1, <4>2, <4>4, MovesTo DEF Moves
    <3>2. call[c].at \in 1..Len(slots)
      BY <1>0, <1>f, <1>10, <2>3 DEF JoinStep, At, BoundsInv
    <3>3. slots[call[c].at] \in Threads
      BY <1>0, <2>3, <3>2
    <3>4. slots' \in Seq(Threads \cup {None}) /\ Len(slots') = Len(slots)
      BY <1>0, <2>3, <3>2
    <3>5. collected' \subseteq Threads
      BY <1>0, <2>3, <3>3
    <3>6. UNCHANGED <<size, storage, lock_, state, owner, calls>>
      BY <1>10 DEF JoinStep
    <3>7. Types
      BY <1>0, <2>3, <3>1, <3>4, <3>5, <3>6 DEF Types
    <3>8. call[c].at \in Nat /\ call[c].at >= 1 /\ call[c].pc = "join"
      BY <1>f, <1>10 DEF JoinStep, At, BoundsInv
    <3>9. size' <= Len(slots')
      BY <3>4, <3>6 DEF BoundsInv
    <3>10. \A d \in Clients : d # c =>
             /\ call'[d] = call[d]
             /\ call[d].storage <= storage
             /\ call[d].pc = "store" /\ call[d].storage = storage => call[d].at <= Len(slots')
             /\ call[d].pc = "join" => call[d].at >= 1
             /\ call[d].pc = "join" /\ call[d].storage = storage => call[d].end <= Len(slots')
      BY <3>1, <3>4 DEF BoundsInv
    <3>11. /\ call'[c].pc = "join" /\ call'[c].storage <= storage /\ call'[c].at >= 1
           /\ call'[c].storage = storage => call'[c].end <= Len(slots')
      BY <1>c, <3>1, <3>4, <3>8 DEF BoundsInv
    <3>12. BoundsInv'
      BY <3>6, <3>9, <3>10, <3>11 DEF BoundsInv
    <3> QED
      BY <3>7, <3>12
  <2> QED
    BY <1>10, <2>1, <2>2, <2>3 DEF JoinStep
<1>11. ASSUME DestroyTask PROVE Types /\ BoundsInv'
  BY <1>0, <1>11 DEF DestroyTask, Types, BoundsInv
<1>12. ASSUME NEW t \in Threads, ThreadExit(t) PROVE Types /\ BoundsInv'
  BY <1>0, <1>12 DEF ThreadExit, Types, BoundsInv
<1>13. ASSUME UNCHANGED polyVars PROVE Types /\ BoundsInv'
  BY <1>0, <1>13 DEF polyVars, Types, BoundsInv
<1> QED
  BY <1>t, <1>1, <1>2, <1>3, <1>4, <1>5, <1>6, <1>7, <1>8, <1>9, <1>10, <1>11, <1>12, <1>13
     DEF PolyNext, SpawnStep, Ended

\* Every variable keeps its type, and every access of spawn() and join() that
\* finds the storage it had read stays inside of it, however the calls of the
\* clients interleave (task.h:85-95).
THEOREM PolyTypeCorrect == PolySpec => [](PolyTypeOK /\ BoundsInv)
<1>1. PolyTypeOK /\ BoundsInv /\ [PolyNext]_polyVars => (PolyTypeOK /\ BoundsInv)'
  BY NextTyped
<1> QED
  BY <1>1, InitTyped, PTL DEF PolySpec

------------------------------------------------------------------------------
(* One call at a time. *)

\* The calls of different clients do not overlap: what a caller has to see to,
\* because lock_ does not.  A single client does so by itself.
Serialized == \A c, d \in Clients : c # d => call[c].pc = "idle" \/ call[d].pc = "idle"

\* No two elements represent the same thread.
CellsInv == \A i, j \in 1..size : slots[i] = slots[j] /\ slots[i] # None => i = j

\* The threads that the elements should represent.
Kept(t) ==
  /\ state[t] # "unborn" /\ t \notin collected
  /\ \A c \in Clients : call[c].temp = t => call[c].pc = "back"

HeldInv == \A t \in Threads : (\E i \in 1..size : slots[i] = t) <=> Kept(t)

\* spawn() has a temporary that nobody joined, and what a call has read of the
\* vector is still so; the elements that join() has passed represent no thread.
CallInv ==
  \A c \in Clients :
    /\ call[c].pc \in {"load", "store", "back"} =>
         /\ call[c].temp \in Threads /\ call[c].temp \notin collected
         /\ state[call[c].temp] # "unborn"
    /\ call[c].pc \notin {"load", "store", "back"} => call[c].temp = None
    /\ call[c].pc = "store" => call[c].at = size /\ call[c].storage = storage
    /\ call[c].pc = "back" => size \in 1..Len(slots) /\ slots[size] = call[c].temp
    /\ call[c].pc = "join" =>
         /\ call[c].storage = storage /\ call[c].end = size
         /\ call[c].at \in 1..size + 1
         /\ \A i \in 1..call[c].at - 1 : slots[i] = None
         /\ \A t \in call[c].before : state[t] # "unborn"

\* What a returned call told its client stays true.
ResultInv ==
  \A c \in Clients :
    /\ answer[c].how = "returned" => answer[c].before \subseteq collected
    /\ answer[c].how = "spawned" =>
         /\ answer[c].storage <= storage
         /\ answer[c].storage = storage =>
              /\ answer[c].ref \in 1..size
              /\ slots[answer[c].ref] \in {answer[c].mine, None}

JoinedInv == \A t \in collected : state[t] = "exited"

\* No call uses storage that was freed.
StorageIsLive == fate # "corrupted"

SerialInv ==
  CellsInv /\ HeldInv /\ CallInv /\ ResultInv /\ JoinedInv /\ StorageIsLive /\ CleanDestruction

LEMMA InitSerial == PolyInit => SerialInv
  BY PolyTaskAssumption
  DEF PolyInit, Idle, NoResult, SerialInv, CellsInv, HeldInv, Kept, CallInv, ResultInv, JoinedInv,
      StorageIsLive, CleanDestruction

\* A step of c before its thread exists, which leaves the vector alone.
LEMMA QuietStep ==
  ASSUME SerialInv, NEW c \in Clients,
         UNCHANGED <<slots, size, storage, state, collected, fate>>,
         call[c].pc \in {"idle", "lock", "unlock", "create"},
         call'[c].pc \in {"idle", "lock", "unlock", "create"}, call'[c].temp = None,
         \A d \in Clients : d # c => call'[d] = call[d],
         \A d \in Clients : answer'[d] = answer[d] \/ answer'[d].how = "threw"
  PROVE  SerialInv'
<1>1. call[c].temp = None
  BY DEF SerialInv, CallInv
<1>2. \A t \in Threads : Kept(t)' <=> Kept(t)
  BY <1>1, PolyTaskAssumption DEF Kept
<1>3. CellsInv' /\ HeldInv' /\ JoinedInv' /\ StorageIsLive' /\ CleanDestruction'
  BY <1>2 DEF SerialInv, CellsInv, HeldInv, JoinedInv, StorageIsLive, CleanDestruction
<1>4. CallInv'
  BY DEF SerialInv, CallInv
<1>5. ResultInv'
  BY DEF SerialInv, ResultInv
<1> QED
  BY <1>3, <1>4, <1>5 DEF SerialInv

\* The steps of spawn() up to the temporary thread, and a failure.
LEMMA PrepareStep ==
  ASSUME PolyTypeOK, SerialInv, NEW c \in Clients,
         CallSpawn(c) \/ Lock(c) \/ Unlock(c) \/ CreateMemberFails(c)
  PROVE  SerialInv'
<1>0. call \in [Clients -> Calls] /\ answer \in [Clients -> Results]
  BY Typed
<1>f. /\ call[c].pc \in Pcs /\ call[c].temp \in Threads \cup {None}
      /\ call[c].at \in Nat /\ call[c].end \in Nat /\ call[c].storage \in Nat
      /\ call[c].before \in SUBSET Threads
  BY <1>0, CallFields
<1>1. ASSUME NEW pc \in {"lock", "unlock", "create"}, Goto(c, pc),
             call[c].pc \in {"idle", "lock", "unlock"},
             UNCHANGED <<slots, size, storage, state, collected, answer, fate>>
      PROVE  SerialInv'
  <2>1. pc \in Pcs
    BY DEF Pcs
  <2>2. Moves(c, pc, call[c].temp, call[c].at, call[c].end, call[c].storage, call[c].before)
    BY <1>0, <1>1, <2>1, GotoMoves
  <2>3. /\ call'[c].pc = pc /\ call'[c].temp = call[c].temp
        /\ \A d \in Clients : d # c => call'[d] = call[d]
    BY <1>0, <1>f, <2>1, <2>2, MovesTo
  <2>4. call[c].temp = None
    BY <1>1 DEF SerialInv, CallInv
  <2> QED
    BY <1>1, <2>3, <2>4, QuietStep
<1>2. CASE CreateMemberFails(c)
  <2>1. Moves(c, "idle", None, 0, 0, 0, {})
    BY <1>2, IdleMoves DEF CreateMemberFails
  <2>2. "idle" \in Pcs /\ 0 \in Nat /\ None \in Threads \cup {None} /\ {} \in SUBSET Threads
    BY DEF Pcs
  <2>3. /\ call'[c].pc = "idle" /\ call'[c].temp = None
        /\ \A d \in Clients : d # c => call'[d] = call[d]
    BY <1>0, <2>1, <2>2, MovesTo
  <2>4. [NoResult EXCEPT !.how = "threw"].how = "threw"
    BY DEF NoResult
  <2>5. \A d \in Clients : answer'[d] = answer[d] \/ answer'[d].how = "threw"
    BY <1>0, <1>2, <2>4 DEF CreateMemberFails
  <2>6. /\ UNCHANGED <<slots, size, storage, state, collected, fate>>
        /\ call[c].pc = "create"
    BY <1>2 DEF CreateMemberFails, At
  <2> QED
    BY <2>3, <2>5, <2>6, QuietStep
<1> QED
  BY <1>1, <1>2 DEF CallSpawn, Lock, Unlock, At

LEMMA CreateStep ==
  ASSUME PolyTypeOK, SerialInv, Serialized, NEW c \in Clients, NEW t \in Threads, CreateMember(c, t)
  PROVE  SerialInv'
<1>0. call \in [Clients -> Calls] /\ collected \subseteq Threads
      /\ state \in [Threads -> {"unborn", "running", "exited"}]
  BY Typed
<1>f. /\ call[c].pc \in Pcs /\ call[c].temp \in Threads \cup {None}
      /\ call[c].at \in Nat /\ call[c].end \in Nat /\ call[c].storage \in Nat
      /\ call[c].before \in SUBSET Threads
  BY <1>0, CallFields
<1>1. /\ call'[c].pc = "load" /\ call'[c].temp = t
      /\ \A d \in Clients : d # c => call'[d] = call[d]
  <2>1. "load" \in Pcs /\ t \in Threads \cup {None}
    BY DEF Pcs
  <2> QED
    BY <1>0, <1>f, <2>1, MovesTo, CreateMoves
<1>2. /\ UNCHANGED <<slots, size, storage, collected, answer, fate>>
      /\ state[t] = "unborn" /\ state' = [state EXCEPT ![t] = "running"]
      /\ call[c].pc = "create" /\ fate = "running"
  BY DEF CreateMember, At
<1>3. \A d \in Clients : d # c => call[d].pc = "idle" /\ call[d].temp = None
  BY <1>2 DEF Serialized, SerialInv, CallInv
<1>4. call[c].temp = None /\ t \notin collected
  BY <1>2 DEF SerialInv, CallInv, JoinedInv
<1>5. \A u \in Threads : Kept(u)' <=> Kept(u)
  BY <1>0, <1>1, <1>2, <1>3, <1>4, PolyTaskAssumption DEF Kept
<1>6. CellsInv' /\ HeldInv' /\ ResultInv' /\ StorageIsLive' /\ CleanDestruction'
  BY <1>2, <1>5 DEF SerialInv, CellsInv, HeldInv, ResultInv, StorageIsLive, CleanDestruction
<1>7. JoinedInv'
  BY <1>0, <1>2, <1>4 DEF SerialInv, JoinedInv
<1>8. CallInv'
  BY <1>0, <1>1, <1>2, <1>3, <1>4 DEF CallInv
<1> QED
  BY <1>6, <1>7, <1>8 DEF SerialInv

LEMMA LoadStep ==
  ASSUME PolyTypeOK, BoundsInv, SerialInv, NEW c \in Clients, ReadEnd(c)
  PROVE  SerialInv'
<1>0. call \in [Clients -> Calls] /\ size \in Nat /\ storage \in Nat
  BY Typed
<1>f. /\ call[c].pc \in Pcs /\ call[c].temp \in Threads \cup {None}
      /\ call[c].at \in Nat /\ call[c].end \in Nat /\ call[c].storage \in Nat
      /\ call[c].before \in SUBSET Threads
  BY <1>0, CallFields
<1>1. /\ call'[c].pc = "store" /\ call'[c].temp = call[c].temp
      /\ call'[c].at = size /\ call'[c].storage = storage
      /\ \A d \in Clients : d # c => call'[d] = call[d]
  <2>1. "store" \in Pcs
    BY DEF Pcs
  <2>2. Moves(c, "store", call[c].temp, size, call[c].end, storage, call[c].before)
    BY <1>0, LoadMoves
  <2> QED
    BY <1>0, <1>f, <2>1, <2>2, MovesTo DEF Moves
<1>2. /\ UNCHANGED <<slots, size, storage, state, collected, answer, fate>>
      /\ call[c].pc = "load"
  BY DEF ReadEnd, At
<1>3. \A u \in Threads : Kept(u)' <=> Kept(u)
  BY <1>1, <1>2 DEF Kept
<1>4. CellsInv' /\ HeldInv' /\ ResultInv' /\ JoinedInv' /\ StorageIsLive' /\ CleanDestruction'
  BY <1>2, <1>3
  DEF SerialInv, CellsInv, HeldInv, ResultInv, JoinedInv, StorageIsLive, CleanDestruction
<1>5. CallInv'
  BY <1>1, <1>2 DEF SerialInv, CallInv
<1> QED
  BY <1>4, <1>5 DEF SerialInv

\* The temporary becomes the last element, and nothing else changes its place.
LEMMA StoreStep ==
  ASSUME PolyTypeOK, BoundsInv, SerialInv, Serialized, NEW c \in Clients, Emplace(c)
  PROVE  SerialInv'
<1>0. /\ call \in [Clients -> Calls] /\ size \in Nat /\ storage \in Nat
      /\ slots \in Seq(Threads \cup {None}) /\ answer \in [Clients -> Results]
      /\ Len(slots) \in Nat
  BY Typed
<1>f. /\ call[c].pc \in Pcs /\ call[c].temp \in Threads \cup {None}
      /\ call[c].at \in Nat /\ call[c].end \in Nat /\ call[c].storage \in Nat
      /\ call[c].before \in SUBSET Threads
  BY <1>0, CallFields
<1>1. /\ call[c].pc = "store" /\ call[c].at = size
      /\ call[c].storage = storage /\ size <= Len(slots)
  BY DEF Emplace, At, SerialInv, CallInv, BoundsInv
<1>2. /\ slots' = Cells(c) /\ size' = size + 1 /\ Goto(c, "back")
      /\ storage' \in {storage, storage + 1}
      /\ UNCHANGED <<state, collected, answer, fate>>
  BY <1>1 DEF Emplace
<1>3. /\ call'[c].pc = "back" /\ call'[c].temp = call[c].temp
      /\ \A d \in Clients : d # c => call'[d] = call[d]
  <2>1. "back" \in Pcs
    BY DEF Pcs
  <2>2. Moves(c, "back", call[c].temp, call[c].at, call[c].end, call[c].storage,
              call[c].before)
    BY <1>0, <1>2, <2>1, GotoMoves
  <2> QED
    BY <1>0, <1>f, <2>1, <2>2, MovesTo DEF Moves
<1>4. \A d \in Clients : d # c => call[d].pc = "idle" /\ call[d].temp = None
  BY <1>1 DEF Serialized, SerialInv, CallInv
<1>5. /\ call[c].temp \in Threads /\ state[call[c].temp] # "unborn"
      /\ call[c].temp \notin collected
  BY <1>1 DEF SerialInv, CallInv
<1>6. /\ slots' \in Seq(Threads \cup {None}) /\ Len(slots') \in Nat
      /\ Len(slots') >= size + 1 /\ slots'[size + 1] = call[c].temp
      /\ \A i \in 1..size : slots'[i] = slots[i]
  <2>1. /\ Cells(c) \in Seq(Threads \cup {None})
        /\ Len(Cells(c)) >= call[c].at + 1 /\ Cells(c)[call[c].at + 1] = call[c].temp
        /\ \A i \in 1..Len(slots) : i # call[c].at + 1 => Cells(c)[i] = slots[i]
    BY <1>0, <1>1, CellsGrow
  <2>2. \A i \in 1..size : i \in 1..Len(slots) /\ i # size + 1
    BY <1>0, <1>1
  <2> QED
    BY <1>0, <1>1, <1>2, <2>1, <2>2, SMTT(30)
<1>7. \A i \in 1..size : slots[i] # call[c].temp
  <2>1. ~Kept(call[c].temp)
    BY <1>1 DEF Kept
  <2> QED
    BY <1>5, <2>1 DEF SerialInv, HeldInv
<1>8. CellsInv'
  BY <1>0, <1>2, <1>6, <1>7 DEF SerialInv, CellsInv
<1>9. HeldInv'
  <2>1. \A u \in Threads : Kept(u)' <=> Kept(u) \/ u = call[c].temp
    BY <1>1, <1>2, <1>3, <1>4, <1>5, PolyTaskAssumption DEF Kept
  <2>2. \A u : (\E i \in 1..size' : slots'[i] = u) <=>
                 (\E i \in 1..size : slots[i] = u) \/ u = call[c].temp
    BY <1>0, <1>2, <1>6
  <2> QED
    BY <2>1, <2>2 DEF SerialInv, HeldInv
<1>10. CallInv'
  BY <1>0, <1>2, <1>3, <1>4, <1>5, <1>6 DEF CallInv
<1>11. ResultInv'
  <2> SUFFICES ASSUME NEW d \in Clients, answer[d].how = "spawned"
               PROVE  /\ answer[d].storage <= storage'
                      /\ answer[d].storage = storage' =>
                           /\ answer[d].ref \in 1..size'
                           /\ slots'[answer[d].ref] \in {answer[d].mine, None}
    BY <1>2 DEF SerialInv, ResultInv
  <2>1. answer[d].storage \in Nat
    BY <1>0 DEF Results
  <2>2. answer[d].storage <= storage
    BY DEF SerialInv, ResultInv
  <2>3. CASE answer[d].storage # storage'
    BY <1>0, <1>2, <2>1, <2>2, <2>3
  <2>4. CASE answer[d].storage = storage'
    <3>1. answer[d].storage = storage
      BY <1>0, <1>2, <2>1, <2>2, <2>4
    <3>2. answer[d].ref \in 1..size /\ slots[answer[d].ref] \in {answer[d].mine, None}
      BY <3>1 DEF SerialInv, ResultInv
    <3> QED
      BY <1>0, <1>2, <1>6, <2>1, <2>4, <3>2
  <2> QED
    BY <2>3, <2>4
<1>12. JoinedInv' /\ StorageIsLive' /\ CleanDestruction'
  BY <1>2 DEF SerialInv, JoinedInv, StorageIsLive, CleanDestruction
<1> QED
  BY <1>8, <1>9, <1>10, <1>11, <1>12 DEF SerialInv

LEMMA BackStep ==
  ASSUME PolyTypeOK, BoundsInv, SerialInv, NEW c \in Clients, Back(c)
  PROVE  SerialInv'
<1>0. call \in [Clients -> Calls] /\ answer \in [Clients -> Results]
  BY Typed
<1>1. /\ UNCHANGED <<slots, size, storage, state, collected, fate>>
      /\ call[c].pc = "back"
  BY DEF Back, At
<1>2. /\ call'[c].pc = "idle" /\ call'[c].temp = None
      /\ \A d \in Clients : d # c => call'[d] = call[d]
  <2>1. Moves(c, "idle", None, 0, 0, 0, {})
    BY IdleMoves DEF Back
  <2>2. "idle" \in Pcs /\ 0 \in Nat /\ None \in Threads \cup {None} /\ {} \in SUBSET Threads
    BY DEF Pcs
  <2> QED
    BY <1>0, <2>1, <2>2, MovesTo
<1>3. \A u \in Threads : Kept(u)' <=> Kept(u)
  BY <1>1, <1>2, PolyTaskAssumption DEF Kept
<1>4. CellsInv' /\ HeldInv' /\ JoinedInv' /\ StorageIsLive' /\ CleanDestruction'
  BY <1>1, <1>3 DEF SerialInv, CellsInv, HeldInv, JoinedInv, StorageIsLive, CleanDestruction
<1>5. CallInv'
  BY <1>1, <1>2 DEF SerialInv, CallInv
<1>6. ResultInv'
  <2>1. size \in 1..Len(slots) /\ slots[size] = call[c].temp /\ storage \in Nat
    BY <1>1, Typed DEF SerialInv, CallInv
  <2>2. answer' = [answer EXCEPT ![c] = [how |-> "spawned", ref |-> size, storage |-> storage,
                                         mine |-> call[c].temp, before |-> {}]]
    BY DEF Back, BackRef
  <2> QED
    BY <1>0, <1>1, <2>1, <2>2, Typed DEF SerialInv, ResultInv
<1> QED
  BY <1>4, <1>5, <1>6 DEF SerialInv

LEMMA CallJoinStep ==
  ASSUME PolyTypeOK, BoundsInv, SerialInv, NEW c \in Clients, CallJoin(c)
  PROVE  SerialInv'
<1>0. call \in [Clients -> Calls] /\ size \in Nat /\ storage \in Nat
  BY Typed
<1>1. /\ UNCHANGED <<slots, size, storage, state, collected, answer, fate>>
      /\ call[c].pc = "idle" /\ call[c].temp = None
  BY DEF CallJoin, At, SerialInv, CallInv
<1>2. /\ call'[c].pc = "join" /\ call'[c].temp = None /\ call'[c].storage = storage
      /\ call'[c].at = 1 /\ call'[c].end = size /\ call'[c].before = Members
      /\ \A d \in Clients : d # c => call'[d] = call[d]
  <2>1. /\ "join" \in Pcs /\ 1 \in Nat
        /\ None \in Threads \cup {None} /\ Members \in SUBSET Threads
    BY DEF Pcs, Members
  <2>2. Moves(c, "join", None, 1, size, storage, Members)
    BY JoinMoves
  <2> QED
    BY <1>0, <2>1, <2>2, MovesTo DEF Moves
<1>3. \A u \in Threads : Kept(u)' <=> Kept(u)
  BY <1>1, <1>2, PolyTaskAssumption DEF Kept
<1>4. CellsInv' /\ HeldInv' /\ ResultInv' /\ JoinedInv' /\ StorageIsLive' /\ CleanDestruction'
  BY <1>1, <1>3
  DEF SerialInv, CellsInv, HeldInv, ResultInv, JoinedInv, StorageIsLive, CleanDestruction
<1>5. CallInv'
  <2>1. \A t \in Members : state[t] # "unborn"
    BY DEF Members
  <2> QED
    BY <1>0, <1>1, <1>2, <2>1 DEF SerialInv, CallInv
<1> QED
  BY <1>4, <1>5 DEF SerialInv

\* A join() that is through has passed every element, so nobody is left.
LEMMA JoinStepSerial ==
  ASSUME PolyTypeOK, BoundsInv, SerialInv, Serialized, NEW c \in Clients, JoinStep(c)
  PROVE  SerialInv'
<1>0. /\ call \in [Clients -> Calls] /\ size \in Nat /\ storage \in Nat
      /\ slots \in Seq(Threads \cup {None}) /\ answer \in [Clients -> Results]
      /\ Len(slots) \in Nat /\ collected \subseteq Threads
  BY Typed
<1>f. /\ call[c].pc \in Pcs /\ call[c].temp \in Threads \cup {None}
      /\ call[c].at \in Nat /\ call[c].end \in Nat /\ call[c].storage \in Nat
      /\ call[c].before \in SUBSET Threads
  BY <1>0, CallFields
<1>1. /\ call[c].pc = "join" /\ call[c].temp = None
      /\ call[c].storage = storage /\ call[c].end = size
      /\ call[c].at \in 1..size + 1
      /\ \A i \in 1..call[c].at - 1 : slots[i] = None
      /\ \A t \in call[c].before : state[t] # "unborn"
      /\ size <= Len(slots)
      /\ UNCHANGED <<size, storage, state>>
  BY DEF JoinStep, At, SerialInv, CallInv, BoundsInv
<1>2. \A d \in Clients : d # c => call[d].pc = "idle" /\ call[d].temp = None
  BY <1>1 DEF Serialized, SerialInv, CallInv
<1>3. ASSUME NEW how \in {"returned", "threw"}, JoinEnds(c, how),
             how = "returned" => call[c].before \subseteq collected,
             UNCHANGED <<slots, collected, fate>>
      PROVE  SerialInv'
  <2>1. /\ call'[c].pc = "idle" /\ call'[c].temp = None
        /\ \A d \in Clients : d # c => call'[d] = call[d]
    <3>1. Moves(c, "idle", None, 0, 0, 0, {})
      BY <1>3, DoneMoves
    <3>2. "idle" \in Pcs /\ 0 \in Nat /\ None \in Threads \cup {None} /\ {} \in SUBSET Threads
      BY DEF Pcs
    <3> QED
      BY <1>0, <3>1, <3>2, MovesTo DEF Moves
  <2>2. \A u \in Threads : Kept(u)' <=> Kept(u)
    BY <1>1, <1>3, <2>1, PolyTaskAssumption DEF Kept
  <2>3. CellsInv' /\ HeldInv' /\ JoinedInv' /\ StorageIsLive' /\ CleanDestruction'
    BY <1>1, <1>3, <2>2
    DEF SerialInv, CellsInv, HeldInv, JoinedInv, StorageIsLive, CleanDestruction
  <2>4. CallInv'
    BY <1>1, <1>2, <2>1 DEF CallInv
  <2>5. answer' = [answer EXCEPT ![c] = [how |-> how, ref |-> 0, storage |-> 0,
                                         mine |-> None, before |-> call[c].before]]
    BY <1>3, DoneMoves
  <2>6. ResultInv'
    BY <1>0, <1>1, <1>3, <2>5 DEF SerialInv, ResultInv
  <2> QED
    BY <2>3, <2>4, <2>6 DEF SerialInv
<1>4. CASE /\ call[c].at > call[c].end /\ JoinEnds(c, "returned")
           /\ UNCHANGED <<slots, collected, fate>>
  <2>1. \A i \in 1..size : slots[i] = None
    BY <1>0, <1>1, <1>4
  <2>2. \A t \in Threads : ~Kept(t)
    BY <2>1, PolyTaskAssumption DEF SerialInv, HeldInv
  <2>3. \A t \in call[c].before : t \in collected
    BY <1>1, <1>2, <1>f, <2>2, PolyTaskAssumption DEF Kept
  <2> QED
    BY <1>3, <1>4, <2>3
<1>5. CASE JoinEnds(c, "threw") /\ UNCHANGED <<slots, collected, fate>>
  BY <1>3, <1>5
<1>6. CASE /\ call[c].at <= call[c].end
           /\ slots[call[c].at] # None
           /\ state[slots[call[c].at]] = "exited"
           /\ collected' = collected \cup {slots[call[c].at]}
           /\ slots' = [slots EXCEPT ![call[c].at] = None]
           /\ call' = [call EXCEPT ![c].at = JoinNext(c)]
           /\ UNCHANGED <<answer, fate>>
  <2>1. PICK n \in Nat : n = call[c].at
    BY <1>f
  <2>2. n \in 1..size /\ n \in 1..Len(slots)
    BY <1>0, <1>1, <1>6, <2>1
  <2>3. PICK t \in Threads : t = slots[n]
    BY <1>0, <1>6, <2>1, <2>2
  <2>4. /\ collected' = collected \cup {t} /\ state[t] = "exited"
        /\ \A i \in 1..size : slots'[i] = IF i = n THEN None ELSE slots[i]
        /\ Len(slots') = Len(slots)
    BY <1>0, <1>1, <1>6, <2>1, <2>2, <2>3
  <2>5. /\ call'[c].pc = "join" /\ call'[c].temp = None /\ call'[c].at = n + 1
        /\ call'[c].end = size /\ call'[c].storage = storage
        /\ call'[c].before = call[c].before
        /\ \A d \in Clients : d # c => call'[d] = call[d]
    <3>1. Moves(c, call[c].pc, call[c].temp, n + 1, call[c].end, call[c].storage,
                call[c].before)
      BY <1>0, <1>6, <2>1, NextRoundMoves
    <3>2. n + 1 \in Nat
      OBVIOUS
    <3> QED
      BY <1>0, <1>1, <1>f, <3>1, <3>2, MovesTo DEF Moves
  <2>6. \A u \in Threads : Kept(u)' <=> Kept(u) /\ u # t
    BY <1>1, <1>2, <2>4, <2>5, PolyTaskAssumption DEF Kept
  <2>7. \A u \in Threads : (\E i \in 1..size' : slots'[i] = u) <=>
                             (\E i \in 1..size : slots[i] = u) /\ u # t
    <3> SUFFICES ASSUME NEW u \in Threads
                 PROVE  (\E i \in 1..size : slots'[i] = u) <=>
                          (\E i \in 1..size : slots[i] = u) /\ u # t
      BY <1>1
    <3>1. u # None /\ t # None
      BY PolyTaskAssumption
    <3>2. \A i \in 1..size : slots[i] = t => i = n
      BY <2>2, <2>3, <3>1 DEF SerialInv, CellsInv
    <3> QED
      BY <2>2, <2>3, <2>4, <3>1, <3>2
  <2>8. HeldInv'
    BY <2>6, <2>7 DEF SerialInv, HeldInv
  <2>9. CellsInv'
    BY <1>1, <2>4 DEF SerialInv, CellsInv
  <2>10. JoinedInv' /\ StorageIsLive' /\ CleanDestruction'
    BY <1>1, <1>6, <2>4 DEF SerialInv, JoinedInv, StorageIsLive, CleanDestruction
  <2>11. CallInv'
    <3>1. \A i \in 1..(n + 1) - 1 : slots'[i] = None
      BY <1>0, <1>1, <2>1, <2>2, <2>4
    <3> QED
      BY <1>0, <1>1, <1>2, <2>2, <2>5, <3>1 DEF CallInv
  <2>12. ResultInv'
    BY <1>1, <1>6, <2>4 DEF SerialInv, ResultInv
  <2> QED
    BY <2>8, <2>9, <2>10, <2>11, <2>12 DEF SerialInv
<1> QED
  BY <1>1, <1>4, <1>5, <1>6 DEF JoinStep

LEMMA DestroyStep ==
  ASSUME PolyTypeOK, SerialInv, DestroyTask
  PROVE  SerialInv'
<1>1. /\ UNCHANGED <<slots, size, storage, state, collected, call, answer>>
      /\ \A c \in Clients : call[c].pc = "idle"
      /\ fate' \in {"terminated", "exited"}
      /\ fate' = "exited" => \A i \in 1..size : slots[i] = None
  BY DEF DestroyTask, At, DestroyTerminates, joinable
<1>2. CellsInv' /\ HeldInv' /\ CallInv' /\ ResultInv' /\ JoinedInv' /\ StorageIsLive'
  BY <1>1 DEF SerialInv, CellsInv, HeldInv, Kept, CallInv, ResultInv, JoinedInv, StorageIsLive
<1>3. CleanDestruction'
  <2> SUFFICES ASSUME fate' = "exited", NEW t \in Threads, state[t] # "unborn"
               PROVE  t \in collected /\ state[t] = "exited"
    BY <1>1 DEF CleanDestruction
  <2>1. ~Kept(t)
    BY <1>1, PolyTaskAssumption DEF SerialInv, HeldInv
  <2>2. \A c \in Clients : call[c].temp = None
    BY <1>1 DEF SerialInv, CallInv
  <2> QED
    BY <2>1, <2>2, PolyTaskAssumption DEF Kept, SerialInv, JoinedInv
<1> QED
  BY <1>2, <1>3 DEF SerialInv

LEMMA ThreadExitStep ==
  ASSUME PolyTypeOK, SerialInv, NEW t \in Threads, ThreadExit(t)
  PROVE  SerialInv'
<1>0. state \in [Threads -> {"unborn", "running", "exited"}] /\ collected \subseteq Threads
      /\ call \in [Clients -> Calls]
  BY Typed
<1>1. /\ UNCHANGED <<slots, size, storage, collected, call, answer, fate>>
      /\ state[t] = "running" /\ state' = [state EXCEPT ![t] = "exited"]
      /\ fate = "running"
  BY DEF ThreadExit
<1>2. \A u \in Threads : state'[u] # "unborn" <=> state[u] # "unborn"
  BY <1>0, <1>1
<1>3. \A u \in Threads : Kept(u)' <=> Kept(u)
  BY <1>1, <1>2 DEF Kept
<1>4. CellsInv' /\ HeldInv' /\ ResultInv' /\ StorageIsLive' /\ CleanDestruction'
  BY <1>1, <1>3 DEF SerialInv, CellsInv, HeldInv, ResultInv, StorageIsLive, CleanDestruction
<1>5. JoinedInv'
  BY <1>0, <1>1 DEF SerialInv, JoinedInv
<1>6. CallInv'
  <2>1. \A c \in Clients : call[c].before \subseteq Threads
    BY <1>0, CallFields
  <2> QED
    BY <1>1, <1>2, <2>1 DEF SerialInv, CallInv
<1> QED
  BY <1>4, <1>5, <1>6 DEF SerialInv

LEMMA NextSerial ==
  PolyTypeOK /\ BoundsInv /\ SerialInv /\ Serialized /\ [PolyNext]_polyVars => SerialInv'
<1> SUFFICES ASSUME PolyTypeOK, BoundsInv, SerialInv, Serialized, [PolyNext]_polyVars
             PROVE  SerialInv'
  OBVIOUS
<1>1. CASE UNCHANGED polyVars
  BY <1>1
  DEF polyVars, SerialInv, CellsInv, HeldInv, Kept, CallInv, ResultInv, JoinedInv, StorageIsLive,
      CleanDestruction
<1> QED
  BY <1>1, PrepareStep, CreateStep, LoadStep, StoreStep, BackStep, CallJoinStep,
     JoinStepSerial, DestroyStep, ThreadExitStep
  DEF PolyNext, SpawnStep, Ended

LEMMA SerialSafety == PolySpec /\ []Serialized => [](PolyTypeOK /\ SerialInv)
  BY InitSerial, NextSerial, PolyTypeCorrect, PTL DEF PolySpec

------------------------------------------------------------------------------

\* The elements that represent a thread, and the threads, correspond.
LEMMA HeldCount ==
  ASSUME PolyTypeOK, BoundsInv, CellsInv
  PROVE  Cardinality(Held) = Cardinality({i \in 1..size : slots[i] # None})
<1> DEFINE Taken == {i \in 1..size : slots[i] # None}
           f == [i \in Taken |-> slots[i]]
<1>1. size \in Int /\ 1 \in Int /\ size \in Nat
  BY Typed
<1>2. IsFiniteSet(1..size)
  BY <1>1, FS_Interval
<1>3. IsFiniteSet(Taken)
  BY <1>2, FS_Subset
<1>4. f \in [Taken -> Held]
  BY DEF Held
<1>5. \A i, j \in Taken : f[i] = f[j] => i = j
  BY DEF CellsInv
<1>6. \A t \in Held : \E i \in Taken : f[i] = t
  BY DEF Held
<1>7. f \in Bijection(Taken, Held)
  BY <1>4, <1>5, <1>6 DEF Bijection, Injection, Surjection, IsInjective
<1>8. ExistsBijection(Taken, Held)
  BY <1>7, Zenon DEF ExistsBijection
<1> QED
  BY <1>3, <1>8, FS_Bijection, Zenon

\* spawn() and join() lose and duplicate no member thread, also when the vector
\* grows, as long as the calls of different clients do not overlap: every thread
\* that was spawned and not joined is in exactly one element (task.h:85).
THEOREM MembersAreKept == PolySpec /\ []Serialized => []NoMemberLost
<1>1. PolyTypeOK /\ BoundsInv /\ SerialInv => NoMemberLost
  <2> SUFFICES ASSUME PolyTypeOK, BoundsInv, SerialInv PROVE NoMemberLost
    OBVIOUS
  <2>1. Cardinality(Held) = Cardinality({i \in 1..size : slots[i] # None})
    BY HeldCount DEF SerialInv
  <2>2. \A i \in 1..size : slots[i] \in Threads \cup {None}
    BY Typed DEF BoundsInv
  <2>3. Held = {t \in Threads : Kept(t)}
    BY <2>2, PolyTaskAssumption DEF Held, SerialInv, HeldInv
  <2> QED
    BY <2>1, <2>3 DEF NoMemberLost, Kept
<1> QED
  BY <1>1, SerialSafety, PolyTypeCorrect, PTL

\* A join() that returns has collected every thread that was spawned before it was
\* called, when calls do not overlap (task.h:91).
THEOREM JoinIsComplete == PolySpec /\ []Serialized => []JoinCollectsAll
<1>1. SerialInv => JoinCollectsAll
  BY DEF SerialInv, ResultInv, JoinCollectsAll
<1> QED
  BY <1>1, SerialSafety, PTL

\* The reference that spawn() returned is to its own thread until a reallocation
\* invalidates it, when calls do not overlap (task.h:85-88).
THEOREM ReferenceIsOwn == PolySpec /\ []Serialized => []RefIsOwnThread
<1>1. SerialInv => RefIsOwnThread
  BY DEF SerialInv, ResultInv, RefIsOwnThread
<1> QED
  BY <1>1, SerialSafety, PTL

\* The destructor ends quietly only when all threads were joined and have ended,
\* when calls do not overlap.
THEOREM DestructionIsClean == PolySpec /\ []Serialized => []CleanDestruction
<1>1. SerialInv => CleanDestruction
  BY DEF SerialInv
<1> QED
  BY <1>1, SerialSafety, PTL

\* No call touches storage that another has freed, when calls do not overlap.
THEOREM NoUseAfterFree == PolySpec /\ []Serialized => []StorageIsLive
<1>1. SerialInv => StorageIsLive
  BY DEF SerialInv
<1> QED
  BY <1>1, SerialSafety, PTL

\* A single client cannot overlap with itself, so all of it holds for every
\* behaviour: what the run `base` checks for three threads.
THEOREM OneClientIsSafe ==
  ASSUME \A c, d \in Clients : c = d
  PROVE  PolySpec => [](/\ NoMemberLost /\ JoinCollectsAll
                        /\ RefIsOwnThread /\ CleanDestruction /\ StorageIsLive)
<1>1. Serialized
  BY DEF Serialized
<1>2. PolySpec => []Serialized
  BY <1>1, PTL
<1> QED
  BY <1>2, MembersAreKept, JoinIsComplete, ReferenceIsOwn, DestructionIsClean,
     NoUseAfterFree, PTL

==============================================================================
