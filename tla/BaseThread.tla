------------------------------ MODULE BaseThread ------------------------------
(***************************************************************************)
(* Objects of base::thread (include/base/threading.h), their copies, and   *)
(* the handles of POSIX threads, which are used again.                     *)
(*                                                                         *)
(* An object is a pthread_t and a flag; copying it copies both, it has no  *)
(* destructor, and join() joins what `id` says without a look at           *)
(* `joinable`.  A handle that names no thread that may still be joined is  *)
(* undefined behaviour for pthread_join(), unless a later thread was given *)
(* the same handle: then that one is joined.  No thread joins itself here. *)
(***************************************************************************)
EXTENDS Naturals

CONSTANTS
  Owners,     \* threads of the program that use the objects
  Variables,  \* its variables of type base::thread
  Handles,    \* values of pthread_t
  NoHandle,   \* the value of `handle id {}`
  MaxStarts   \* bound: threads that are created

ASSUME BaseThreadAssumption == NoHandle \notin Handles /\ MaxStarts \in Nat

VARIABLES
  var,      \* var[o]: the object's id and joinable; history: the thread it stands for
  named,    \* named[h]: the thread that handle h names, 0 for none; kernel
  exited,     \* the threads that have exited
  starts,   \* threads are numbered from 1 in the order of their creation
  joining,  \* joining[c]: the object whose join() c is inside of, id and thread
  verdict,  \* what happened in the joins so far: "ok", "undefined" or "stranger"
  misuse    \* history: "copied", "unchecked" and "shared", what the program has done

btVars == <<var, named, exited, starts, joining, verdict, misuse>>

\* thread::thread(), and any constructor with a null function
Default == [id |-> NoHandle, joinable |-> FALSE, stands |-> 0]

NotJoining == [o |-> "none", id |-> NoHandle, stands |-> 0]

BaseThreadInit ==
  /\ var = [o \in Variables |-> Default]
  /\ named = [h \in Handles |-> 0]
  /\ exited = {} /\ starts = 0
  /\ joining = [c \in Owners |-> NotJoining]
  /\ verdict = "ok" /\ misuse = {}

\* What a caller is about to do to object o, while no join() of it is in progress.
Free(c, o) == joining[c] = NotJoining /\ \A d \in Owners : joining[d].o # o

\* o = thread {...}: an attribute is refused or pthread_create() fails, and no thread
\* is created; the error is in last_error.
CreateFails(c, o) ==
  /\ Free(c, o)
  /\ var' = [var EXCEPT ![o] = Default]
  /\ UNCHANGED <<named, exited, starts, joining, verdict, misuse>>

CreateThread(c, o, h) ==
  /\ Free(c, o)
  /\ named[h] = 0 /\ starts < MaxStarts
  /\ starts' = starts + 1
  /\ named' = [named EXCEPT ![h] = starts + 1]
  /\ var' = [var EXCEPT ![o] = [id |-> h, joinable |-> TRUE, stands |-> starts + 1]]
  /\ UNCHANGED <<exited, joining, verdict, misuse>>

\* A program may test the object first: explicit operator bool().
operator_bool(o) == var[o].joinable

Copy(c, o, p) ==
  /\ Free(c, o) /\ Free(c, p) /\ o # p
  /\ var' = [var EXCEPT ![o] = var[p]]
  /\ misuse' = IF operator_bool(p) THEN misuse \cup {"copied"} ELSE misuse
  /\ UNCHANGED <<named, exited, starts, joining, verdict>>

JoinCall(c, o) ==
  /\ joining[c] = NotJoining
  /\ joining' = [joining EXCEPT ![c] = [o |-> o, id |-> var[o].id, stands |-> var[o].stands]]
  /\ misuse' = misuse
       \cup (IF operator_bool(o) THEN {} ELSE {"unchecked"})
       \cup (IF \E d \in Owners : joining[d].o = o THEN {"shared"} ELSE {})
  /\ UNCHANGED <<var, named, exited, starts, verdict>>

\* The thread that pthread_join() joins, 0 for none.
Target(c) == IF joining[c].id = NoHandle THEN 0 ELSE named[joining[c].id]

\* joinable = false; last_error.clear();
Joinable_Kept(o) == var[o].joinable
Joinable(o) == FALSE

JoinDone(c) ==
  /\ joining[c] # NotJoining
  /\ Target(c) \in exited
  /\ named' = [named EXCEPT ![joining[c].id] = 0]
  /\ var' = [var EXCEPT ![joining[c].o].joinable = Joinable(joining[c].o)]
  /\ verdict' = IF verdict = "ok" /\ Target(c) # joining[c].stands THEN "stranger" ELSE verdict
  /\ joining' = [joining EXCEPT ![c] = NotJoining]
  /\ UNCHANGED <<exited, starts, misuse>>

\* The failure branch of join() leaves joinable as it is: no thread has the handle,
\* which may also be answered by ESRCH or crash the process, or another pthread_join()
\* waits for it already.
JoinUndefined(c) ==
  /\ joining[c] # NotJoining
  /\ \/ Target(c) = 0
     \/ \E d \in Owners \ {c} : joining[d] # NotJoining /\ joining[d].id = joining[c].id
  /\ verdict' = "undefined"
  /\ joining' = [joining EXCEPT ![c] = NotJoining]
  /\ UNCHANGED <<var, named, exited, starts, misuse>>

Exit(n) ==
  /\ n \in 1..starts /\ n \notin exited
  /\ exited' = exited \cup {n}
  /\ UNCHANGED <<var, named, starts, joining, verdict, misuse>>

BaseThreadNext ==
  \/ \E c \in Owners, o \in Variables :
       \/ CreateFails(c, o) \/ JoinCall(c, o)
       \/ \E h \in Handles : CreateThread(c, o, h)
       \/ \E p \in Variables : Copy(c, o, p)
  \/ \E c \in Owners : JoinDone(c) \/ JoinUndefined(c)
  \/ \E n \in 1..MaxStarts : Exit(n)

BaseThreadSpec == BaseThreadInit /\ [][BaseThreadNext]_btVars

------------------------------------------------------------------------------
(* Properties. *)

BaseThreadTypeOK ==
  /\ var \in [Variables -> [id : Handles \cup {NoHandle}, joinable : BOOLEAN, stands : Nat]]
  /\ named \in [Handles -> Nat] /\ exited \subseteq Nat /\ starts \in Nat
  /\ joining \in [Owners -> [o : Variables \cup {"none"}, id : Handles \cup {NoHandle},
                             stands : Nat]]
  /\ verdict \in {"ok", "undefined", "stranger"}
  /\ misuse \subseteq {"copied", "unchecked", "shared"}

\* A program that tests an object before it joins it, makes no copies of one that is
\* joinable and lets one thread at a time join it never joins a thread twice, nor
\* one that was given the same pthread_t later, although handles are used again and
\* join() itself does not look at `joinable` (threading.h:158).
CheckedJoinIsDefined ==
  misuse = {} =>
    /\ verdict = "ok"
    /\ \A o \in Variables :
         operator_bool(o) => var[o].id \in Handles /\ named[var[o].id] = var[o].stands

==============================================================================
