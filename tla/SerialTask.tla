------------------------------ MODULE SerialTask ------------------------------
(***************************************************************************)
(* What mono_task promises (include/preempt/task.h:57): "Join a possible   *)
(* running member thread, then start a new one."  A task runs its jobs one *)
(* after the other; the next one begins only after the last one has        *)
(* finished and was collected, until the process goes down.                *)
(***************************************************************************)
EXTENDS Naturals

CONSTANT Tasks

VARIABLES
  job,    \* job[k]: "none", "active" or "finished"
  begun,  \* begun[k]: how many jobs of k were begun
  down    \* the process has ended

vars == <<job, begun, down>>

Init ==
  /\ job = [k \in Tasks |-> "none"]
  /\ begun = [k \in Tasks |-> 0]
  /\ down = FALSE

Begin(k) ==
  /\ ~down
  /\ job[k] = "none"
  /\ job' = [job EXCEPT ![k] = "active"]
  /\ begun' = [begun EXCEPT ![k] = @ + 1]
  /\ UNCHANGED down

Finish(k) ==
  /\ ~down
  /\ job[k] = "active"
  /\ job' = [job EXCEPT ![k] = "finished"]
  /\ UNCHANGED <<begun, down>>

Collect(k) ==
  /\ ~down
  /\ job[k] = "finished"
  /\ job' = [job EXCEPT ![k] = "none"]
  /\ UNCHANGED <<begun, down>>

Down ==
  /\ ~down
  /\ down' = TRUE
  /\ UNCHANGED <<job, begun>>

Next == Down \/ \E k \in Tasks : Begin(k) \/ Finish(k) \/ Collect(k)

Spec == Init /\ [][Next]_vars

==============================================================================
