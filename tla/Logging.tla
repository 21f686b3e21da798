------------------------------- MODULE Logging --------------------------------
(***************************************************************************)
(* trace() and BASE_LOG_CERR / BASE_LOG_COUT (include/base/trace.h).       *)
(*                                                                         *)
(* trace() locks a mutex of its own, BASE_LOG locks g_logging_mutex; both  *)
(* go through the C library's only struct tm: ctime() is asctime() of      *)
(* localtime(), with a text buffer of its own, and put_time() prints what  *)
(* localtime() returned.  The arguments of BASE_LOG are evaluated while it *)
(* prints, with the mutex locked; they may call functions that use trace() *)
(* or BASE_LOG themselves.                                                 *)
(***************************************************************************)
EXTENDS Naturals, Sequences

CONSTANTS
  Loggers,    \* threads of the program
  Nobody,     \* no thread
  MaxLines,   \* bound: calls in a behaviour
  MaxSeconds  \* bound: seconds that pass

ASSUME LoggingAssumption ==
  Nobody \notin Loggers /\ MaxLines \in Nat /\ MaxSeconds \in Nat

VARIABLES
  clock,            \* the time, in seconds
  tm, text,         \* the static buffers of localtime() and asctime(): a time
  lock,             \* the thread that holds the static mutex of trace()
  g_logging_mutex,  \* the thread that holds that one
  step,             \* step[t]: the next step of the call that t is inside of
  stamp,            \* stamp[t]: `now` of trace(), and `ttm` of BASE_LOG
  inArgs,           \* the threads whose call was made by an argument of a BASE_LOG
  lines,            \* history: facility, time and printed time of every line
  logCalls          \* the number of calls

logVars == <<clock, tm, text, lock, g_logging_mutex, step, stamp, inArgs, lines,
             logCalls>>

LoggingInit ==
  /\ clock = 0 /\ tm = 0 /\ text = 0
  /\ lock = Nobody /\ g_logging_mutex = Nobody
  /\ step = [t \in Loggers |-> "idle"]
  /\ stamp = [t \in Loggers |-> [now |-> 0, ttm |-> 0]]
  /\ inArgs = {} /\ lines = <<>> /\ logCalls = 0

Go(t, from, to) == step[t] = from /\ step' = [step EXCEPT ![t] = to]

------------------------------------------------------------------------------
(* trace() *)

\* A call of trace(), or of TRACE_IF_TRUE or TRACE_IF_FALSE that finds its reason.
CallTrace(t) ==
  /\ logCalls < MaxLines
  /\ Go(t, "idle", "lock")
  /\ logCalls' = logCalls + 1
  /\ UNCHANGED <<clock, tm, text, lock, g_logging_mutex, stamp, inArgs, lines>>

TraceFree_OneMutex == lock = Nobody /\ g_logging_mutex = Nobody
TraceFree == lock = Nobody

TraceLock(t) ==
  /\ TraceFree
  /\ Go(t, "lock", "time")
  /\ lock' = t
  /\ UNCHANGED <<clock, tm, text, g_logging_mutex, stamp, inArgs, lines, logCalls>>

TraceTime(t) ==
  /\ Go(t, "time", "ctime")
  /\ stamp' = [stamp EXCEPT ![t].now = clock]
  /\ UNCHANGED <<clock, tm, text, lock, g_logging_mutex, inArgs, lines, logCalls>>

\* ctime(), first half
TraceLocaltime(t) ==
  /\ Go(t, "ctime", "asctime")
  /\ tm' = stamp[t].now
  /\ UNCHANGED <<clock, text, lock, g_logging_mutex, stamp, inArgs, lines, logCalls>>

TraceAsctime(t) ==
  /\ Go(t, "asctime", "stamp")
  /\ text' = tm
  /\ UNCHANGED <<clock, tm, lock, g_logging_mutex, stamp, inArgs, lines, logCalls>>

TraceStamp(t) ==
  /\ Go(t, "stamp", "message")
  /\ lines' = Append(lines, [by |-> "trace", own |-> stamp[t].now, shown |-> text])
  /\ UNCHANGED <<clock, tm, text, lock, g_logging_mutex, stamp, inArgs, logCalls>>

\* vfprintf(), and the guard is destroyed.
TraceMessage(t) ==
  /\ Go(t, "message", IF t \in inArgs THEN "args" ELSE "idle")
  /\ lock' = Nobody
  /\ inArgs' = inArgs \ {t}
  /\ UNCHANGED <<clock, tm, text, g_logging_mutex, stamp, lines, logCalls>>

------------------------------------------------------------------------------
(* BASE_LOG_IMPL; the parameter `stream` is not used. *)

\* The time is taken before the mutex is locked.
CallLog(t) ==
  /\ logCalls < MaxLines
  /\ Go(t, "idle", "log")
  /\ stamp' = [stamp EXCEPT ![t].ttm = clock]
  /\ logCalls' = logCalls + 1
  /\ UNCHANGED <<clock, tm, text, lock, g_logging_mutex, inArgs, lines>>

\* What the lock_guard leaves g_logging_mutex as.
Guard_Temporary(t) == Nobody
Guard(t) == t

LogLock(t) ==
  /\ g_logging_mutex = Nobody
  /\ Go(t, "log", "localtime")
  /\ g_logging_mutex' = Guard(t)
  /\ UNCHANGED <<clock, tm, text, lock, stamp, inArgs, lines, logCalls>>

LogLocaltime(t) ==
  /\ Go(t, "localtime", "put_time")
  /\ tm' = stamp[t].ttm
  /\ UNCHANGED <<clock, text, lock, g_logging_mutex, stamp, inArgs, lines, logCalls>>

LogStamp(t) ==
  /\ Go(t, "put_time", "args")
  /\ lines' = Append(lines, [by |-> "log", own |-> stamp[t].ttm, shown |-> tm])
  /\ UNCHANGED <<clock, tm, text, lock, g_logging_mutex, stamp, inArgs, logCalls>>

\* << streamargs: an argument calls trace() ...
ArgsTrace(t) ==
  /\ logCalls < MaxLines
  /\ Go(t, "args", "lock")
  /\ inArgs' = inArgs \cup {t}
  /\ logCalls' = logCalls + 1
  /\ UNCHANGED <<clock, tm, text, lock, g_logging_mutex, stamp, lines>>

\* ... or uses BASE_LOG, which waits for the mutex that the thread has locked.
ArgsLog(t) ==
  /\ logCalls < MaxLines
  /\ Go(t, "args", "log")
  /\ stamp' = [stamp EXCEPT ![t].ttm = clock]
  /\ inArgs' = inArgs \cup {t}
  /\ logCalls' = logCalls + 1
  /\ UNCHANGED <<clock, tm, text, lock, g_logging_mutex, lines>>

\* The arguments are printed.
LogArgs(t) ==
  /\ Go(t, "args", "endl")
  /\ UNCHANGED <<clock, tm, text, lock, g_logging_mutex, stamp, inArgs, lines, logCalls>>

LogEnd(t) ==
  /\ Go(t, "endl", "idle")
  /\ g_logging_mutex' = Nobody
  /\ UNCHANGED <<clock, tm, text, lock, stamp, inArgs, lines, logCalls>>

------------------------------------------------------------------------------

Second ==
  /\ clock < MaxSeconds
  /\ clock' = clock + 1
  /\ UNCHANGED <<tm, text, lock, g_logging_mutex, step, stamp, inArgs, lines, logCalls>>

LogStep(t) ==
  \/ TraceLock(t) \/ TraceTime(t) \/ TraceLocaltime(t) \/ TraceAsctime(t)
  \/ TraceStamp(t) \/ TraceMessage(t)
  \/ LogLock(t) \/ LogLocaltime(t) \/ LogStamp(t)
  \/ ArgsTrace(t) \/ ArgsLog(t) \/ LogArgs(t) \/ LogEnd(t)

LoggingNext ==
  \/ \E t \in Loggers : CallTrace(t) \/ CallLog(t) \/ LogStep(t)
  \/ Second

LoggingSpec ==
  /\ LoggingInit /\ [][LoggingNext]_logVars
  /\ \A t \in Loggers : WF_logVars(LogStep(t))

------------------------------------------------------------------------------
(* Properties. *)

LoggingTypeOK ==
  /\ clock \in Nat /\ tm \in Nat /\ text \in Nat /\ logCalls \in Nat
  /\ {lock, g_logging_mutex} \subseteq Loggers \cup {Nobody}
  /\ step \in [Loggers -> {"idle", "lock", "time", "ctime", "asctime", "stamp", "message",
                           "log", "localtime", "put_time", "args", "endl"}]
  /\ stamp \in [Loggers -> [now : Nat, ttm : Nat]]
  /\ inArgs \subseteq Loggers
  /\ lines \in Seq([by : {"trace", "log"}, own : Nat, shown : Nat])

\* The facilities that the program has used.
Used == {lines[k].by : k \in DOMAIN lines} \cup
        (IF lock = Nobody THEN {} ELSE {"trace"}) \cup
        (IF g_logging_mutex = Nobody THEN {} ELSE {"log"})

\* A line is begun and not complete.
Writing(t) == step[t] \in {"message", "put_time", "args", "endl"} \/ t \in inArgs

\* A program that uses only one of the two facilities gets lines that are whole and
\* bear their own time, though the buffers are static and shared by all threads;
\* and the lines of trace() are in the order of their times ("mutex-protection",
\* trace.h:47).
LinesAreWhole ==
  Used \in {{"trace"}, {"log"}} =>
    /\ \A k \in DOMAIN lines : lines[k].shown = lines[k].own
    /\ \A s, t \in Loggers : Writing(s) /\ Writing(t) => s = t
    /\ Used = {"trace"} =>
         \A k, l \in DOMAIN lines : k <= l => lines[k].own <= lines[l].own

\* A BASE_LOG inside of a BASE_LOG: t waits for itself.
LocksTwice(t) == step[t] = "log" /\ t \in inArgs

\* Every trace() returns, also one inside of a BASE_LOG, and every BASE_LOG that was
\* granted its mutex and does not use BASE_LOG in its arguments: the two mutexes are
\* locked in one order only.  Once a thread has locked g_logging_mutex twice, it and
\* all who come to that mutex wait for ever, and nobody else does.
LogReturns ==
  \A t \in Loggers :
    step[t] # "idle" ~>
      \/ step[t] = "idle"
      \/ step[t] = "log" /\ \E u \in Loggers : LocksTwice(u)

==============================================================================
