-------------------------------- MODULE MCBase --------------------------------
(***************************************************************************)
(* The components of include/base/, the test programs over base::thread    *)
(* and poly_task share no state, so TLC takes them one by one in a single  *)
(* run: `part` names the one that makes the steps of a behaviour.          *)
(***************************************************************************)
EXTENDS BubbleSort, Strings, Numeric, Chrono, Logging, Exits, BaseThread, MCFifoOrder, PolyTask

VARIABLE part

vars ==
  <<part, sortVars, stringVars, numericVars, chronoVars, logVars, exitVars, btVars, fifoVars,
    polyVars>>

Parts == {"algorithm", "string", "numeric", "chrono", "trace", "verify", "threading", "fifo",
          "poly"}

\* The program of FifoOrder is chosen only where it runs.
MCInit ==
  /\ part \in Parts
  /\ SortInit /\ StringsInit /\ NumericInit /\ ChronoInit /\ LoggingInit
  /\ ExitsInit /\ BaseThreadInit /\ FifoInit /\ PolyInit
  /\ part # "fifo" => program = CHOOSE p \in Programs : TRUE

\* The other components stand still.
Others(p) ==
  /\ part = p
  /\ UNCHANGED part
  /\ p # "algorithm" => UNCHANGED sortVars
  /\ p # "string" => UNCHANGED stringVars
  /\ p # "numeric" => UNCHANGED numericVars
  /\ p # "chrono" => UNCHANGED chronoVars
  /\ p # "trace" => UNCHANGED logVars
  /\ p # "verify" => UNCHANGED exitVars
  /\ p # "threading" => UNCHANGED btVars
  /\ p # "fifo" => UNCHANGED fifoVars
  /\ p # "poly" => UNCHANGED polyVars

MCNext ==
  \/ Others("algorithm") /\ SortNext
  \/ Others("string") /\ StringsNext
  \/ Others("numeric") /\ NumericNext
  \/ Others("chrono") /\ ChronoNext
  \/ Others("trace") /\ LoggingNext
  \/ Others("verify") /\ ExitsNext
  \/ Others("threading") /\ BaseThreadNext
  \/ Others("fifo") /\ FifoNext
  \/ Others("poly") /\ PolyNext

\* A logging thread goes on when it can; a thread that stays on a core goes on; calls of
\* a task go on as long as they can, and thread functions return.
MCSpec ==
  /\ MCInit /\ [][MCNext]_vars
  /\ \A t \in Loggers : WF_vars(Others("trace") /\ LogStep(t))
  /\ WF_vars(Others("fifo") /\ MainStep)
  /\ WF_vars(Others("fifo") /\ \E id \in Ids : ThreadStep(id))
  /\ \A c \in Clients : WF_vars(Others("poly") /\ (SpawnStep(c) \/ JoinStep(c)))
  /\ \A t \in Threads : WF_vars(Others("poly") /\ ThreadExit(t))

\* A test program ends (Terminates of FifoOrder), if it is what runs.
TestsEnd == part = "fifo" => Terminates

==============================================================================
