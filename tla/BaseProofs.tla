------------------------------- MODULE BaseProofs -------------------------------
(***************************************************************************)
(* Theorems about five components of include/base/: NothingHidden of Exits *)
(* and LinesAreWhole of Logging for any number of threads, SortReturns of  *)
(* BubbleSort, SplitFindsTokens and NoCharacterLost of Strings for         *)
(* arguments of any length, CheckedJoinIsDefined of BaseThread for any     *)
(* number of objects, threads and handles.                                 *)
(***************************************************************************)
EXTENDS Exits, Logging, BubbleSort, Strings, BaseThread, TLAPS, FiniteSetTheorems, FunctionTheorems

(* Exits *)

\* A failed VERIFY has been reported, and has cleared the flag or is about to.
FailedInv ==
  /\ failed \subseteq reported
  /\ \A t \in failed : ~g_verify_flag \/ doing[t] = "verify_error"
  /\ \A t \in Everyone : doing[t] = "verify_error" => t \in failed
  /\ ~g_verify_flag => failed # {}

\* A thread that has flushed stdout prints no more.
FlushedInv == \A t \in Everyone : doing[t] = "breakpoint" => t \notin buffer

ExitsInv == ExitsTypeOK /\ FailedInv /\ FlushedInv /\ NothingHidden

LEMMA InitExits == ExitsInit => ExitsInv
  BY DEF ExitsInit, ExitsInv, ExitsTypeOK, FailedInv, FlushedInv, NothingHidden, Everyone

\* Every step keeps the types.
LEMMA TypeStep == ExitsTypeOK /\ [ExitsNext]_exitVars => ExitsTypeOK'
<1> SUFFICES ASSUME ExitsTypeOK, [ExitsNext]_exitVars PROVE ExitsTypeOK'
  OBVIOUS
<1> USE DEF ExitsTypeOK, Does, Everyone, End, Message, global_verify_flag
<1>1. ASSUME NEW t \in Everyone, Work(t) PROVE ExitsTypeOK'
  BY <1>1 DEF Work
<1>2. ASSUME NEW t \in Everyone, Verify(t) PROVE ExitsTypeOK'
  BY <1>2 DEF Verify
<1>3. ASSUME NEW t \in Everyone, VerifyError(t) PROVE ExitsTypeOK'
  BY <1>3 DEF VerifyError
<1>4. ASSUME NEW t \in Everyone, NEW descr \in BOOLEAN, QuickExit(t, descr)
      PROVE ExitsTypeOK'
  BY <1>4 DEF QuickExit
<1>5. ASSUME NEW t \in Everyone, NEW descr \in BOOLEAN, QuickExitGoesOn(t, descr)
      PROVE ExitsTypeOK'
  BY <1>5 DEF QuickExitGoesOn
<1>6. ASSUME NEW t \in Everyone, QuickExitAt(t) PROVE ExitsTypeOK'
  BY <1>6 DEF QuickExitAt
<1>7. ASSUME NEW t \in Everyone, Flush(t) PROVE ExitsTypeOK'
  BY <1>7 DEF Flush, Flushed
<1>8. ASSUME NEW t \in Everyone, NEW ndebug \in BOOLEAN, Quit(t, ndebug)
      PROVE ExitsTypeOK'
  BY <1>8 DEF Quit
<1>9. ASSUME NEW t \in Everyone, NEW descr \in BOOLEAN, Terminate(t, descr)
      PROVE ExitsTypeOK'
  BY <1>9 DEF Terminate
<1>10. ASSUME NEW t \in Everyone, TerminateAt(t) PROVE ExitsTypeOK'
  BY <1>10 DEF TerminateAt
<1>11. ASSUME NEW t \in Everyone, WorkerReturns(t) PROVE ExitsTypeOK'
  BY <1>11 DEF WorkerReturns
<1>12. CASE MainReturns
  BY <1>12 DEF MainReturns
<1>13. CASE UNCHANGED exitVars
  BY <1>13 DEF exitVars
<1> QED
  BY <1>1, <1>2, <1>3, <1>4, <1>5, <1>6, <1>7, <1>8, <1>9, <1>10, <1>11, <1>12, <1>13
     DEF ExitsNext

\* Every step keeps the rest of the invariant.  A step that neither fails nor clears
\* the flag leaves FailedInv alone if it takes nobody out of verify_error().
LEMMA NextExits == ExitsInv /\ [ExitsNext]_exitVars => ExitsInv'
<1> SUFFICES ASSUME ExitsInv, [ExitsNext]_exitVars PROVE ExitsInv'
  OBVIOUS
<1>0. ExitsTypeOK'
  BY TypeStep DEF ExitsInv
<1> DEFINE Rest == FailedInv /\ FlushedInv /\ NothingHidden
<1> SUFFICES Rest'
  BY <1>0 DEF ExitsInv
<1> USE DEF ExitsInv, ExitsTypeOK, FailedInv, FlushedInv, NothingHidden, Does, End, Message,
            global_verify_flag
<1>1. ASSUME NEW t \in Everyone, Work(t) PROVE Rest'
  BY <1>1 DEF Work
<1>2. ASSUME NEW t \in Everyone, Verify(t) PROVE Rest'
  BY <1>2 DEF Verify
<1>3. ASSUME NEW t \in Everyone, VerifyError(t) PROVE Rest'
  BY <1>3 DEF VerifyError
<1>4. ASSUME NEW t \in Everyone, NEW descr \in BOOLEAN, QuickExit(t, descr) PROVE Rest'
  BY <1>4 DEF QuickExit
<1>5. ASSUME NEW t \in Everyone, NEW descr \in BOOLEAN, QuickExitGoesOn(t, descr)
      PROVE Rest'
  BY <1>5 DEF QuickExitGoesOn
<1>6. ASSUME NEW t \in Everyone, QuickExitAt(t) PROVE Rest'
  BY <1>6 DEF QuickExitAt
<1>7. ASSUME NEW t \in Everyone, Flush(t) PROVE Rest'
  BY <1>7 DEF Flush, Flushed
<1>8. ASSUME NEW t \in Everyone, NEW ndebug \in BOOLEAN, Quit(t, ndebug) PROVE Rest'
  BY <1>8 DEF Quit
<1>9. ASSUME NEW t \in Everyone, NEW descr \in BOOLEAN, Terminate(t, descr) PROVE Rest'
  BY <1>9 DEF Terminate
<1>10. ASSUME NEW t \in Everyone, TerminateAt(t) PROVE Rest'
  BY <1>10 DEF TerminateAt
<1>11. ASSUME NEW t \in Everyone, WorkerReturns(t) PROVE Rest'
  BY <1>11 DEF WorkerReturns
<1>12. CASE MainReturns
  <2>1. \A t \in Everyone : doing[t] # "verify_error"
    BY <1>12 DEF MainReturns, Joined, Everyone
  <2>2. g_verify_flag => failed = {}
    BY <2>1
  <2> QED
    BY <1>12, <2>2 DEF MainReturns, Everyone
<1>13. CASE UNCHANGED exitVars
  BY <1>13 DEF exitVars
<1> QED
  BY <1>1, <1>2, <1>3, <1>4, <1>5, <1>6, <1>7, <1>8, <1>9, <1>10, <1>11, <1>12, <1>13
     DEF ExitsNext

\* Every variable of Exits keeps its type.
THEOREM ExitsTypeCorrect == ExitsSpec => []ExitsTypeOK
<1>1. ExitsInit => ExitsTypeOK
  BY InitExits DEF ExitsInv
<1> QED
  BY <1>1, TypeStep, PTL DEF ExitsSpec

\* No failure is hidden, whichever of the threads fail or end the process, and however
\* many there are (verify.h, base.cc).
THEOREM NoFailureHidden == ExitsSpec => []NothingHidden
<1>1. ExitsInv => NothingHidden
  BY DEF ExitsInv
<1> QED
  BY <1>1, InitExits, NextExits, PTL DEF ExitsSpec

------------------------------------------------------------------------------
(* Logging *)

\* Each facility has been used, or is in use.
UsedTrace == lock # Nobody \/ \E k \in DOMAIN lines : lines[k].by = "trace"
UsedLog == g_logging_mutex # Nobody \/ \E k \in DOMAIN lines : lines[k].by = "log"

\* The steps at which each mutex is held.
Tracing == {"time", "ctime", "asctime", "stamp", "message"}
LoggingSteps == {"localtime", "put_time", "args", "endl"}

\* A thread inside of a facility, and no other, holds its mutex; a call made by an
\* argument of a BASE_LOG is at its lock or inside of trace().
MutexInv ==
  \A t \in Loggers :
    /\ step[t] \in Tracing <=> lock = t
    /\ step[t] \in LoggingSteps \/ t \in inArgs <=> g_logging_mutex = t
    /\ t \in inArgs => step[t] \in Tracing \cup {"lock", "log"}

\* A thread that has printed its time leaves a line of its facility behind.
UsedInv ==
  \A t \in Loggers :
    /\ step[t] = "message" => \E k \in DOMAIN lines : lines[k].by = "trace"
    /\ step[t] \in {"args", "endl"} \/ t \in inArgs =>
         \E k \in DOMAIN lines : lines[k].by = "log"

\* While only trace() is used, the buffers hold the time of the thread with the lock,
\* and that is the latest of all lines.
TraceInv ==
  ~UsedLog =>
    /\ \A t \in Loggers :
         /\ stamp[t].now <= clock
         /\ step[t] = "asctime" => tm = stamp[t].now
         /\ step[t] = "stamp" => text = stamp[t].now
         /\ step[t] \in {"ctime", "asctime", "stamp"} =>
              \A k \in DOMAIN lines : lines[k].own <= stamp[t].now
    /\ \A k \in DOMAIN lines : lines[k].shown = lines[k].own /\ lines[k].own <= clock
    /\ \A k, l \in DOMAIN lines : k <= l => lines[k].own <= lines[l].own

\* While only BASE_LOG is used, struct tm holds the time of the thread with the mutex.
LogInv ==
  ~UsedTrace =>
    /\ \A t \in Loggers : step[t] = "put_time" => tm = stamp[t].ttm
    /\ \A k \in DOMAIN lines : lines[k].shown = lines[k].own

LoggingInv == LoggingTypeOK /\ MutexInv /\ UsedInv /\ TraceInv /\ LogInv

\* A line more.
LEMMA Appended ==
  ASSUME NEW S, NEW s \in Seq(S), NEW e \in S
  PROVE  /\ Append(s, e) \in Seq(S)
         /\ DOMAIN Append(s, e) = DOMAIN s \cup {Len(s) + 1}
         /\ Append(s, e)[Len(s) + 1] = e
         /\ \A k \in DOMAIN s : Append(s, e)[k] = s[k] /\ k \in Nat /\ k < Len(s) + 1
  OBVIOUS

LEMMA InitLogging == LoggingInit => LoggingInv
<1> SUFFICES ASSUME LoggingInit PROVE LoggingInv
  OBVIOUS
<1> USE LoggingAssumption DEF LoggingInit
<1>1. LoggingTypeOK
  BY DEF LoggingTypeOK
<1>2. DOMAIN lines = {}
  OBVIOUS
<1>3. MutexInv /\ UsedInv
  BY DEF MutexInv, UsedInv, Tracing, LoggingSteps
<1>4. TraceInv /\ LogInv
  BY <1>2 DEF TraceInv, LogInv
<1> QED
  BY <1>1, <1>3, <1>4 DEF LoggingInv

\* Every step keeps the types.
LEMMA LoggingTypeStep == LoggingTypeOK /\ [LoggingNext]_logVars => LoggingTypeOK'
<1> SUFFICES ASSUME LoggingTypeOK, [LoggingNext]_logVars PROVE LoggingTypeOK'
  OBVIOUS
<1> DEFINE Line == [by : {"trace", "log"}, own : Nat, shown : Nat]
<1> USE LoggingAssumption DEF LoggingTypeOK, Go
<1>1. ASSUME NEW t \in Loggers, CallTrace(t) PROVE LoggingTypeOK'
  BY <1>1 DEF CallTrace
<1>2. ASSUME NEW t \in Loggers, CallLog(t) PROVE LoggingTypeOK'
  <2>1. stamp' \in [Loggers -> [now : Nat, ttm : Nat]]
    BY <1>2 DEF CallLog
  <2>2. step' \in [Loggers -> {"idle", "lock", "time", "ctime", "asctime", "stamp",
                              "message", "log", "localtime", "put_time", "args", "endl"}]
    BY <1>2 DEF CallLog
  <2>3. logCalls' \in Nat
    BY <1>2 DEF CallLog
  <2> QED
    BY <1>2, <2>1, <2>2, <2>3, Zenon DEF CallLog
<1>3. ASSUME NEW t \in Loggers, TraceLock(t) PROVE LoggingTypeOK'
  BY <1>3 DEF TraceLock
<1>4. ASSUME NEW t \in Loggers, TraceTime(t) PROVE LoggingTypeOK'
  BY <1>4 DEF TraceTime
<1>5. ASSUME NEW t \in Loggers, TraceLocaltime(t) PROVE LoggingTypeOK'
  BY <1>5 DEF TraceLocaltime
<1>6. ASSUME NEW t \in Loggers, TraceAsctime(t) PROVE LoggingTypeOK'
  BY <1>6 DEF TraceAsctime
<1>7. ASSUME NEW t \in Loggers, TraceStamp(t) PROVE LoggingTypeOK'
  <2>1. [by |-> "trace", own |-> stamp[t].now, shown |-> text] \in Line
    OBVIOUS
  <2>2. lines' \in Seq(Line)
    BY <1>7, <2>1, Appended DEF TraceStamp
  <2> QED
    BY <1>7, <2>2 DEF TraceStamp
<1>8. ASSUME NEW t \in Loggers, TraceMessage(t) PROVE LoggingTypeOK'
  BY <1>8 DEF TraceMessage
<1>9. ASSUME NEW t \in Loggers, LogLock(t) PROVE LoggingTypeOK'
  BY <1>9 DEF LogLock, Guard
<1>10. ASSUME NEW t \in Loggers, LogLocaltime(t) PROVE LoggingTypeOK'
  BY <1>10 DEF LogLocaltime
<1>11. ASSUME NEW t \in Loggers, LogStamp(t) PROVE LoggingTypeOK'
  <2>1. [by |-> "log", own |-> stamp[t].ttm, shown |-> tm] \in Line
    OBVIOUS
  <2>2. lines' \in Seq(Line)
    BY <1>11, <2>1, Appended DEF LogStamp
  <2> QED
    BY <1>11, <2>2 DEF LogStamp
<1>12. ASSUME NEW t \in Loggers, LogArgs(t) PROVE LoggingTypeOK'
  BY <1>12 DEF LogArgs
<1>13. ASSUME NEW t \in Loggers, ArgsTrace(t) PROVE LoggingTypeOK'
  BY <1>13 DEF ArgsTrace
<1>14. ASSUME NEW t \in Loggers, ArgsLog(t) PROVE LoggingTypeOK'
  <2>1. stamp' \in [Loggers -> [now : Nat, ttm : Nat]]
    BY <1>14 DEF ArgsLog
  <2>2. step' \in [Loggers -> {"idle", "lock", "time", "ctime", "asctime", "stamp",
                              "message", "log", "localtime", "put_time", "args", "endl"}]
    BY <1>14 DEF ArgsLog
  <2>3. inArgs' \subseteq Loggers /\ logCalls' \in Nat
    BY <1>14 DEF ArgsLog
  <2> QED
    BY <1>14, <2>1, <2>2, <2>3, Zenon DEF ArgsLog
<1>15. ASSUME NEW t \in Loggers, LogEnd(t) PROVE LoggingTypeOK'
  BY <1>15 DEF LogEnd
<1>16. CASE Second
  BY <1>16 DEF Second
<1>17. CASE UNCHANGED logVars
  BY <1>17 DEF logVars
<1> QED
  BY <1>1, <1>2, <1>3, <1>4, <1>5, <1>6, <1>7, <1>8, <1>9, <1>10, <1>11, <1>12, <1>13,
     <1>14, <1>15, <1>16, <1>17 DEF LoggingNext, LogStep

\* Every step keeps the mutexes.
LEMMA MutexStep ==
  LoggingTypeOK /\ MutexInv /\ [LoggingNext]_logVars => MutexInv'
<1> SUFFICES ASSUME LoggingTypeOK, MutexInv, [LoggingNext]_logVars PROVE MutexInv'
  OBVIOUS
<1> USE LoggingAssumption DEF LoggingTypeOK, MutexInv, Go, Tracing, LoggingSteps
<1>1. ASSUME NEW t \in Loggers, CallTrace(t) PROVE MutexInv'
  BY <1>1 DEF CallTrace
<1>2. ASSUME NEW t \in Loggers, CallLog(t) PROVE MutexInv'
  BY <1>2 DEF CallLog
<1>3. ASSUME NEW t \in Loggers, TraceLock(t) PROVE MutexInv'
  BY <1>3 DEF TraceLock, TraceFree
<1>4. ASSUME NEW t \in Loggers, TraceTime(t) PROVE MutexInv'
  BY <1>4 DEF TraceTime
<1>5. ASSUME NEW t \in Loggers, TraceLocaltime(t) PROVE MutexInv'
  BY <1>5 DEF TraceLocaltime
<1>6. ASSUME NEW t \in Loggers, TraceAsctime(t) PROVE MutexInv'
  BY <1>6 DEF TraceAsctime
<1>7. ASSUME NEW t \in Loggers, TraceStamp(t) PROVE MutexInv'
  BY <1>7 DEF TraceStamp
<1>8. ASSUME NEW t \in Loggers, TraceMessage(t) PROVE MutexInv'
  BY <1>8 DEF TraceMessage
<1>9. ASSUME NEW t \in Loggers, LogLock(t) PROVE MutexInv'
  BY <1>9 DEF LogLock, Guard
<1>10. ASSUME NEW t \in Loggers, LogLocaltime(t) PROVE MutexInv'
  BY <1>10 DEF LogLocaltime
<1>11. ASSUME NEW t \in Loggers, LogStamp(t) PROVE MutexInv'
  BY <1>11 DEF LogStamp
<1>12. ASSUME NEW t \in Loggers, LogArgs(t) PROVE MutexInv'
  BY <1>12 DEF LogArgs
<1>13. ASSUME NEW t \in Loggers, ArgsTrace(t) PROVE MutexInv'
  BY <1>13 DEF ArgsTrace
<1>14. ASSUME NEW t \in Loggers, ArgsLog(t) PROVE MutexInv'
  BY <1>14 DEF ArgsLog
<1>15. ASSUME NEW t \in Loggers, LogEnd(t) PROVE MutexInv'
  BY <1>15 DEF LogEnd
<1>16. CASE Second
  BY <1>16 DEF Second
<1>17. CASE UNCHANGED logVars
  BY <1>17 DEF logVars
<1> QED
  BY <1>1, <1>2, <1>3, <1>4, <1>5, <1>6, <1>7, <1>8, <1>9, <1>10, <1>11, <1>12, <1>13,
     <1>14, <1>15, <1>16, <1>17 DEF LoggingNext, LogStep

\* Lines are never taken back, and a mutex is released only after a line: a facility
\* once used stays used.
LEMMA UsedStep ==
  ASSUME LoggingTypeOK, MutexInv, UsedInv, [LoggingNext]_logVars
  PROVE  UsedInv' /\ (UsedTrace => UsedTrace') /\ (UsedLog => UsedLog')
<1> DEFINE By(f) == \E k \in DOMAIN lines : lines[k].by = f
           Goal == /\ UsedInv' /\ (UsedTrace => UsedTrace') /\ (UsedLog => UsedLog')
<1> USE DEF LoggingTypeOK, UsedInv, UsedTrace, UsedLog, Go
<1>1. ASSUME NEW t \in Loggers, CallTrace(t) PROVE Goal
  BY <1>1 DEF CallTrace
<1>2. ASSUME NEW t \in Loggers, CallLog(t) PROVE Goal
  BY <1>2 DEF CallLog
<1>3. ASSUME NEW t \in Loggers, TraceLock(t) PROVE Goal
  BY <1>3 DEF TraceLock, TraceFree
<1>4. ASSUME NEW t \in Loggers, TraceTime(t) PROVE Goal
  BY <1>4 DEF TraceTime
<1>5. ASSUME NEW t \in Loggers, TraceLocaltime(t) PROVE Goal
  BY <1>5 DEF TraceLocaltime
<1>6. ASSUME NEW t \in Loggers, TraceAsctime(t) PROVE Goal
  BY <1>6 DEF TraceAsctime
<1>7. ASSUME NEW t \in Loggers, TraceStamp(t) PROVE Goal
  <2> DEFINE e == [by |-> "trace", own |-> stamp[t].now, shown |-> text]
  <2>1. lines' = Append(lines, e) /\ e \in [by : {"trace", "log"}, own : Nat, shown : Nat]
    BY <1>7 DEF TraceStamp
  <2>2. (Len(lines) + 1) \in DOMAIN lines' /\ lines'[Len(lines) + 1].by = "trace"
    BY <2>1, Appended
  <2>3. \A k \in DOMAIN lines : k \in DOMAIN lines' /\ lines'[k] = lines[k]
    BY <2>1, Appended
  <2>4. By("log") => By("log")'
    BY <2>3
  <2>5. By("trace")'
    BY <2>2
  <2> HIDE DEF By
  <2> QED
    BY <1>7, <2>4, <2>5 DEF TraceStamp, By
<1>8. ASSUME NEW t \in Loggers, TraceMessage(t) PROVE Goal
  BY <1>8 DEF TraceMessage, MutexInv, Tracing
<1>9. ASSUME NEW t \in Loggers, LogLock(t) PROVE Goal
  BY <1>9 DEF LogLock, Guard
<1>10. ASSUME NEW t \in Loggers, LogLocaltime(t) PROVE Goal
  BY <1>10 DEF LogLocaltime
<1>11. ASSUME NEW t \in Loggers, LogStamp(t) PROVE Goal
  <2> DEFINE e == [by |-> "log", own |-> stamp[t].ttm, shown |-> tm]
  <2>1. lines' = Append(lines, e) /\ e \in [by : {"trace", "log"}, own : Nat, shown : Nat]
    BY <1>11 DEF LogStamp
  <2>2. (Len(lines) + 1) \in DOMAIN lines' /\ lines'[Len(lines) + 1].by = "log"
    BY <2>1, Appended
  <2>3. \A k \in DOMAIN lines : k \in DOMAIN lines' /\ lines'[k] = lines[k]
    BY <2>1, Appended
  <2>4. By("trace") => By("trace")'
    BY <2>3
  <2>5. By("log")'
    BY <2>2
  <2> HIDE DEF By
  <2> QED
    BY <1>11, <2>4, <2>5 DEF LogStamp, By
<1>12. ASSUME NEW t \in Loggers, LogArgs(t) PROVE Goal
  BY <1>12 DEF LogArgs
<1>13. ASSUME NEW t \in Loggers, ArgsTrace(t) PROVE Goal
  BY <1>13 DEF ArgsTrace
<1>14. ASSUME NEW t \in Loggers, ArgsLog(t) PROVE Goal
  BY <1>14 DEF ArgsLog
<1>15. ASSUME NEW t \in Loggers, LogEnd(t) PROVE Goal
  BY <1>15 DEF LogEnd, MutexInv, LoggingSteps
<1>16. CASE Second
  BY <1>16 DEF Second
<1>17. CASE UNCHANGED logVars
  BY <1>17 DEF logVars
<1> QED
  BY <1>1, <1>2, <1>3, <1>4, <1>5, <1>6, <1>7, <1>8, <1>9, <1>10, <1>11, <1>12, <1>13,
     <1>14, <1>15, <1>16, <1>17 DEF LoggingNext, LogStep

\* Every step keeps the lines of trace() in order, and the buffers of its caller.
LEMMA TraceStep ==
  ASSUME LoggingTypeOK, MutexInv, TraceInv, ~UsedLog, ~UsedLog', [LoggingNext]_logVars
  PROVE  TraceInv'
<1> DEFINE Line == [by : {"trace", "log"}, own : Nat, shown : Nat]
<1>a. /\ clock \in Nat /\ lines \in Seq(Line) /\ stamp \in [Loggers -> [now : Nat, ttm : Nat]]
      /\ step \in [Loggers -> {"idle", "lock", "time", "ctime", "asctime", "stamp",
                              "message", "log", "localtime", "put_time", "args", "endl"}]
  BY DEF LoggingTypeOK
<1>b. \A k \in DOMAIN lines : lines[k].own \in Nat /\ lines[k].shown \in Nat
  <2>1. \A e \in Line : e.own \in Nat /\ e.shown \in Nat
    OBVIOUS
  <2> HIDE DEF Line
  <2>2. \A k \in DOMAIN lines : lines[k] \in Line
    BY <1>a
  <2> QED
    BY <2>1, <2>2
<1>c. \A t \in Loggers : step[t] \notin LoggingSteps
  BY LoggingAssumption DEF MutexInv, UsedLog
<1>d. \A s, t \in Loggers : step[s] \in Tracing /\ step[t] \in Tracing => s = t
  BY DEF MutexInv
<1>e. g_logging_mutex' = Nobody
  BY DEF UsedLog
<1> USE <1>a, <1>b, <1>c, <1>d, <1>e, LoggingAssumption DEF TraceInv, Go, Tracing, LoggingSteps
<1>1. ASSUME NEW t \in Loggers, CallTrace(t) PROVE TraceInv'
  BY <1>1 DEF CallTrace
<1>2. ASSUME NEW t \in Loggers, CallLog(t) PROVE TraceInv'
  BY <1>2 DEF CallLog
<1>3. ASSUME NEW t \in Loggers, TraceLock(t) PROVE TraceInv'
  BY <1>3 DEF TraceLock, TraceFree
<1>4. ASSUME NEW t \in Loggers, TraceTime(t) PROVE TraceInv'
  BY <1>4 DEF TraceTime
<1>5. ASSUME NEW t \in Loggers, TraceLocaltime(t) PROVE TraceInv'
  BY <1>5 DEF TraceLocaltime
<1>6. ASSUME NEW t \in Loggers, TraceAsctime(t) PROVE TraceInv'
  BY <1>6 DEF TraceAsctime
<1>7. ASSUME NEW t \in Loggers, TraceStamp(t) PROVE TraceInv'
  <2> DEFINE e == [by |-> "trace", own |-> stamp[t].now, shown |-> text]
             n == Len(lines) + 1
  <2>1. lines' = Append(lines, e) /\ e \in Line
    BY <1>7 DEF TraceStamp, LoggingTypeOK
  <2>2. /\ DOMAIN lines' = DOMAIN lines \cup {n} /\ lines'[n] = e
        /\ \A k \in DOMAIN lines : lines'[k] = lines[k] /\ k \in Nat /\ k < n
    BY <2>1, Appended
  <2>3. /\ step[t] = "stamp" /\ text = stamp[t].now /\ stamp[t].now <= clock
        /\ \A k \in DOMAIN lines : lines[k].own <= stamp[t].now
    BY <1>7 DEF TraceStamp
  <2>4. e.shown = e.own /\ e.own = stamp[t].now /\ e.own \in Nat /\ n \in Nat
    BY <2>3
  <2> HIDE DEF e, n
  <2>5. \A k \in DOMAIN lines' : lines'[k].shown = lines'[k].own /\ lines'[k].own <= clock
    BY <2>2, <2>3, <2>4
  <2>6. \A k, l \in DOMAIN lines' : k <= l => lines'[k].own <= lines'[l].own
    BY <2>2, <2>3, <2>4, SMTT(30)
  <2>7. \A s \in Loggers : step'[s] \notin {"ctime", "asctime", "stamp"}
    BY <1>7 DEF TraceStamp
  <2>8. UNCHANGED <<clock, stamp>>
    BY <1>7 DEF TraceStamp
  <2> QED
    BY <2>5, <2>6, <2>7, <2>8
<1>8. ASSUME NEW t \in Loggers, TraceMessage(t) PROVE TraceInv'
  BY <1>8 DEF TraceMessage
<1>9. ASSUME NEW t \in Loggers, LogLock(t) PROVE TraceInv'
  BY <1>9 DEF LogLock, Guard
<1>10. ASSUME NEW t \in Loggers, LogLocaltime(t) PROVE TraceInv'
  BY <1>10 DEF LogLocaltime
<1>11. ASSUME NEW t \in Loggers, LogStamp(t) PROVE TraceInv'
  BY <1>11 DEF LogStamp
<1>12. ASSUME NEW t \in Loggers, LogArgs(t) PROVE TraceInv'
  BY <1>12 DEF LogArgs
<1>13. ASSUME NEW t \in Loggers, ArgsTrace(t) PROVE TraceInv'
  BY <1>13 DEF ArgsTrace
<1>14. ASSUME NEW t \in Loggers, ArgsLog(t) PROVE TraceInv'
  BY <1>14 DEF ArgsLog
<1>15. ASSUME NEW t \in Loggers, LogEnd(t) PROVE TraceInv'
  BY <1>15 DEF LogEnd
<1>16. CASE Second
  BY <1>16 DEF Second
<1>17. CASE UNCHANGED logVars
  BY <1>17 DEF logVars
<1> QED
  BY <1>1, <1>2, <1>3, <1>4, <1>5, <1>6, <1>7, <1>8, <1>9, <1>10, <1>11, <1>12, <1>13,
     <1>14, <1>15, <1>16, <1>17 DEF LoggingNext, LogStep

\* Every step keeps the lines of BASE_LOG, and the buffer of its caller.
LEMMA LogLinesStep ==
  ASSUME LoggingTypeOK, MutexInv, LogInv, ~UsedTrace, ~UsedTrace', [LoggingNext]_logVars
  PROVE  LogInv'
<1> DEFINE Line == [by : {"trace", "log"}, own : Nat, shown : Nat]
<1>a. /\ lines \in Seq(Line) /\ stamp \in [Loggers -> [now : Nat, ttm : Nat]]
      /\ step \in [Loggers -> {"idle", "lock", "time", "ctime", "asctime", "stamp",
                              "message", "log", "localtime", "put_time", "args", "endl"}]
  BY DEF LoggingTypeOK
<1>c. \A t \in Loggers : step[t] \notin Tracing
  BY LoggingAssumption DEF MutexInv, UsedTrace
<1>d. \A s, t \in Loggers :
        step[s] \in LoggingSteps /\ step[t] \in LoggingSteps => s = t
  BY DEF MutexInv
<1>e. lock' = Nobody
  BY DEF UsedTrace
<1> USE <1>a, <1>c, <1>d, <1>e, LoggingAssumption DEF LogInv, Go, Tracing, LoggingSteps
<1>1. ASSUME NEW t \in Loggers, CallTrace(t) PROVE LogInv'
  BY <1>1 DEF CallTrace
<1>2. ASSUME NEW t \in Loggers, CallLog(t) PROVE LogInv'
  BY <1>2 DEF CallLog
<1>3. ASSUME NEW t \in Loggers, TraceLock(t) PROVE LogInv'
  BY <1>3 DEF TraceLock, TraceFree
<1>4. ASSUME NEW t \in Loggers, TraceTime(t) PROVE LogInv'
  BY <1>4 DEF TraceTime
<1>5. ASSUME NEW t \in Loggers, TraceLocaltime(t) PROVE LogInv'
  BY <1>5 DEF TraceLocaltime
<1>6. ASSUME NEW t \in Loggers, TraceAsctime(t) PROVE LogInv'
  BY <1>6 DEF TraceAsctime
<1>7. ASSUME NEW t \in Loggers, TraceStamp(t) PROVE LogInv'
  BY <1>7 DEF TraceStamp
<1>8. ASSUME NEW t \in Loggers, TraceMessage(t) PROVE LogInv'
  BY <1>8 DEF TraceMessage
<1>9. ASSUME NEW t \in Loggers, LogLock(t) PROVE LogInv'
  BY <1>9 DEF LogLock, Guard
<1>10. ASSUME NEW t \in Loggers, LogLocaltime(t) PROVE LogInv'
  BY <1>10 DEF LogLocaltime
<1>11. ASSUME NEW t \in Loggers, LogStamp(t) PROVE LogInv'
  <2> DEFINE e == [by |-> "log", own |-> stamp[t].ttm, shown |-> tm]
  <2>1. lines' = Append(lines, e) /\ e \in Line
    BY <1>11 DEF LogStamp, LoggingTypeOK
  <2>2. /\ DOMAIN lines' = DOMAIN lines \cup {Len(lines) + 1}
        /\ lines'[Len(lines) + 1] = e
        /\ \A k \in DOMAIN lines : lines'[k] = lines[k]
    BY <2>1, Appended
  <2>3. tm = stamp[t].ttm
    BY <1>11 DEF LogStamp
  <2>4. e.shown = e.own
    BY <2>3
  <2>5. \A k \in DOMAIN lines' : lines'[k].shown = lines'[k].own
    BY <2>2, <2>4
  <2>6. \A s \in Loggers : step'[s] # "put_time"
    BY <1>11 DEF LogStamp
  <2> QED
    BY <2>5, <2>6
<1>12. ASSUME NEW t \in Loggers, LogArgs(t) PROVE LogInv'
  BY <1>12 DEF LogArgs
<1>13. ASSUME NEW t \in Loggers, ArgsTrace(t) PROVE LogInv'
  BY <1>13 DEF ArgsTrace
<1>14. ASSUME NEW t \in Loggers, ArgsLog(t) PROVE LogInv'
  BY <1>14 DEF ArgsLog
<1>15. ASSUME NEW t \in Loggers, LogEnd(t) PROVE LogInv'
  BY <1>15 DEF LogEnd
<1>16. CASE Second
  BY <1>16 DEF Second
<1>17. CASE UNCHANGED logVars
  BY <1>17 DEF logVars
<1> QED
  BY <1>1, <1>2, <1>3, <1>4, <1>5, <1>6, <1>7, <1>8, <1>9, <1>10, <1>11, <1>12, <1>13,
     <1>14, <1>15, <1>16, <1>17 DEF LoggingNext, LogStep

LEMMA NextLogging == LoggingInv /\ [LoggingNext]_logVars => LoggingInv'
<1> SUFFICES ASSUME LoggingInv, [LoggingNext]_logVars PROVE LoggingInv'
  OBVIOUS
<1> USE DEF LoggingInv
<1>1. LoggingTypeOK' /\ MutexInv'
  BY LoggingTypeStep, MutexStep
<1>2. UsedInv' /\ (UsedTrace => UsedTrace') /\ (UsedLog => UsedLog')
  BY UsedStep
<1>3. TraceInv'
  <2>1. CASE UsedLog'
    BY <2>1 DEF TraceInv
  <2>2. CASE ~UsedLog'
    BY <1>2, <2>2, TraceStep
  <2> QED
    BY <2>1, <2>2
<1>4. LogInv'
  <2>1. CASE UsedTrace'
    BY <2>1 DEF LogInv
  <2>2. CASE ~UsedTrace'
    BY <1>2, <2>2, LogLinesStep
  <2> QED
    BY <2>1, <2>2
<1> QED
  BY <1>1, <1>2, <1>3, <1>4

\* Of a program that uses one facility, the other one is unused, and the lines of that
\* one are whole.
LEMMA WholeLines == LoggingInv => LinesAreWhole
<1> SUFFICES ASSUME LoggingInv, Used \in {{"trace"}, {"log"}}
             PROVE  /\ \A k \in DOMAIN lines : lines[k].shown = lines[k].own
                    /\ \A s, t \in Loggers : Writing(s) /\ Writing(t) => s = t
                    /\ Used = {"trace"} =>
                         \A k, l \in DOMAIN lines : k <= l => lines[k].own <= lines[l].own
  BY DEF LinesAreWhole
<1>1. UsedTrace <=> "trace" \in Used
  BY DEF Used, UsedTrace
<1>2. UsedLog <=> "log" \in Used
  BY DEF Used, UsedLog
<1>3. CASE Used = {"trace"}
  <2>1. ~UsedLog
    BY <1>2, <1>3
  <2>2. \A t \in Loggers : Writing(t) => lock = t
    BY <2>1, LoggingAssumption
    DEF LoggingInv, MutexInv, UsedLog, Writing, Tracing, LoggingSteps
  <2> QED
    BY <2>1, <2>2 DEF LoggingInv, TraceInv
<1>4. CASE Used = {"log"}
  <2>1. ~UsedTrace
    BY <1>1, <1>4
  <2>2. \A t \in Loggers : Writing(t) => g_logging_mutex = t
    BY <2>1, LoggingAssumption
    DEF LoggingInv, MutexInv, UsedTrace, Writing, Tracing, LoggingSteps
  <2> QED
    BY <1>4, <2>1, <2>2 DEF LoggingInv, LogInv
<1> QED
  BY <1>3, <1>4

\* Every variable of Logging keeps its type.
THEOREM LoggingTypeCorrect == LoggingSpec => []LoggingTypeOK
<1>1. LoggingInit => LoggingTypeOK
  BY InitLogging DEF LoggingInv
<1> QED
  BY <1>1, LoggingTypeStep, PTL DEF LoggingSpec

\* A program that uses trace() or BASE_LOG, and not both, prints whole lines with times
\* of their own, however many threads print (trace.h:18-62).
THEOREM LogLinesAreWhole == LoggingSpec => []LinesAreWhole
<1> QED
  BY InitLogging, NextLogging, WholeLines, PTL DEF LoggingSpec

\* t is at the lock of a mutex that some thread holds: the only steps of a call that
\* may have to wait.
Waits(t) ==
  \/ step[t] = "lock" /\ ~TraceFree
  \/ step[t] = "log" /\ g_logging_mutex # Nobody

\* While t is in a call, one of the calls can go on, or a BASE_LOG inside of a BASE_LOG
\* keeps t from its own.
SomeCallGoesOn ==
  \A t \in Loggers :
    step[t] # "idle" =>
      \/ \E u \in Loggers : step[u] # "idle" /\ ~Waits(u)
      \/ step[t] = "log" /\ \E u \in Loggers : LocksTwice(u)

\* The two mutexes are never waited for in a circle, although the arguments of a
\* BASE_LOG may call trace() with g_logging_mutex locked (trace.h:66): a thread with the
\* mutex of trace() goes on, and while there is none, so does one with the other, unless
\* it wants that one again.  It is the safety half of LogReturns, for any number of
\* threads.
THEOREM OnlyNestedLogsDeadlock == LoggingSpec => []SomeCallGoesOn
<1>1. ASSUME LoggingInv PROVE SomeCallGoesOn
  <2> SUFFICES ASSUME NEW t \in Loggers, step[t] # "idle",
                      \A u \in Loggers : step[u] # "idle" => Waits(u)
               PROVE  step[t] = "log" /\ \E u \in Loggers : LocksTwice(u)
    BY DEF SomeCallGoesOn
  <2> USE <1>1, LoggingAssumption
      DEF LoggingInv, LoggingTypeOK, MutexInv, Tracing, LoggingSteps, Waits, TraceFree,
          LocksTwice
  <2>1. lock = Nobody
    OBVIOUS
  <2>2. step[t] = "log" /\ g_logging_mutex \in Loggers
    BY <2>1
  <2>3. LocksTwice(g_logging_mutex)
    BY <2>1, <2>2
  <2> QED
    BY <2>2, <2>3
<1> QED
  BY <1>1, InitLogging, NextLogging, PTL DEF LoggingSpec

------------------------------------------------------------------------------
(* BubbleSort *)

\* The vector s after the elements a and a + 1 changed places.
Exchanged(s, a) == [s EXCEPT ![a] = s[a + 1], ![a + 1] = s[a]]

\* Where the element k comes from.
Other(k, a) == IF k = a THEN a + 1 ELSE IF k = a + 1 THEN a ELSE k

LEMMA OtherIsInverse ==
  ASSUME NEW n \in Nat, NEW a \in 1..(n - 1)
  PROVE  /\ \A k \in 1..n : Other(k, a) \in 1..n /\ Other(Other(k, a), a) = k
         /\ \A k, l \in 1..n : Other(k, a) = Other(l, a) => k = l
         /\ \A k, l \in 1..n :
              k < l /\ ~(k = a /\ l = a + 1) =>
                Other(k, a) < Other(l, a) /\ ~(Other(k, a) = a /\ Other(l, a) = a + 1)
  BY DEF Other

LEMMA ExchangedElements ==
  ASSUME NEW S, NEW s \in Seq(S), NEW a \in 1..(Len(s) - 1)
  PROVE  /\ Exchanged(s, a) \in Seq(S)
         /\ Len(Exchanged(s, a)) = Len(s) /\ DOMAIN Exchanged(s, a) = DOMAIN s
         /\ DOMAIN s = 1..Len(s) /\ Len(s) \in Nat
         /\ \A k \in 1..Len(s) : Exchanged(s, a)[k] = s[Other(k, a)]
<1>1. a \in DOMAIN s /\ a + 1 \in DOMAIN s /\ DOMAIN s = 1..Len(s) /\ Len(s) \in Nat
  OBVIOUS
<1> DEFINE h == [s EXCEPT ![a] = s[a + 1]]
<1>2. h \in Seq(S) /\ Len(h) = Len(s) /\ DOMAIN h = DOMAIN s
  BY <1>1
<1>3. h[a] = s[a + 1] /\ \A k \in DOMAIN s : k # a => h[k] = s[k]
  BY <1>1
<1> HIDE DEF h
<1> DEFINE g == [h EXCEPT ![a + 1] = s[a]]
<1>4. g \in Seq(S) /\ Len(g) = Len(s) /\ DOMAIN g = DOMAIN s
  BY <1>1, <1>2
<1>5. g[a + 1] = s[a] /\ \A k \in DOMAIN s : k # a + 1 => g[k] = h[k]
  BY <1>1, <1>2
<1> HIDE DEF g
<1>6. Exchanged(s, a) = g
  BY Zenon DEF Exchanged, g, h
<1>7. \A k \in 1..Len(s) : g[k] = s[Other(k, a)]
  BY <1>1, <1>3, <1>5 DEF Other
<1> QED
  BY <1>1, <1>4, <1>6, <1>7

\* An exchange loses no element.
LEMMA ExchangeKeepsElements ==
  ASSUME NEW S, NEW s \in Seq(S), NEW a \in 1..(Len(s) - 1), NEW e
  PROVE  Occurrences(Exchanged(s, a), e) = Occurrences(s, e)
<1> DEFINE w == Exchanged(s, a)
           n == Len(s)
           A == {k \in 1..n : w[k] = e}
           B == {k \in 1..n : s[k] = e}
           f == [k \in A |-> Other(k, a)]
<1>1. /\ DOMAIN w = 1..n /\ DOMAIN s = 1..n /\ n \in Nat /\ a \in 1..(n - 1)
      /\ \A k \in 1..n : w[k] = s[Other(k, a)]
  BY ExchangedElements
<1> HIDE DEF w, n
<1>2. /\ \A k \in 1..n : Other(k, a) \in 1..n /\ Other(Other(k, a), a) = k
      /\ \A k, l \in 1..n : Other(k, a) = Other(l, a) => k = l
  BY <1>1, OtherIsInverse
<1>3. f \in [A -> B]
  BY <1>1, <1>2
<1>4. \A k, l \in A : f[k] = f[l] => k = l
  BY <1>2
<1>5. \A l \in B : \E k \in A : f[k] = l
  <2> SUFFICES ASSUME NEW l \in B PROVE \E k \in A : f[k] = l
    OBVIOUS
  <2>1. Other(l, a) \in A /\ Other(Other(l, a), a) = l
    BY <1>1, <1>2
  <2> QED
    BY <2>1
<1>6. ExistsBijection(A, B)
  <2> HIDE DEF f, A, B
  <2>1. f \in Bijection(A, B)
    BY <1>3, <1>4, <1>5, Fun_IsBij
  <2> QED
    BY <2>1 DEF ExistsBijection
<1>7. IsFiniteSet(A)
  <2>1. IsFiniteSet(1..n)
    BY <1>1, FS_Interval
  <2>2. A \in SUBSET (1..n)
    OBVIOUS
  <2> QED
    BY <2>1, <2>2, FS_Subset
<1>8. Cardinality(B) = Cardinality(A)
  BY <1>6, <1>7, FS_Bijection, Zenon
<1>9. Occurrences(w, e) = Cardinality(A) /\ Occurrences(s, e) = Cardinality(B)
  BY <1>1 DEF Occurrences
<1> QED
  BY <1>8, <1>9 DEF w

LEMMA Integral ==
  ASSUME NEW S \in SUBSET Int, NEW s \in Seq(S)
  PROVE  \A k \in DOMAIN s : s[k] \in Int
<1>1. \A k \in DOMAIN s : s[k] \in S
  OBVIOUS
<1> QED
  BY <1>1

\* The pairs of positions that Inversions counts.
Inverted(s) ==
  {p \in (DOMAIN s) \X (DOMAIN s) : p[1] < p[2] /\ s[p[1]] > s[p[2]]}

LEMMA InvertedIsFinite ==
  ASSUME NEW S, NEW s \in Seq(S)
  PROVE  IsFiniteSet(Inverted(s)) /\ Inversions(s) \in Nat
<1>1. IsFiniteSet(DOMAIN s)
  BY FS_Interval
<1>2. IsFiniteSet((DOMAIN s) \X (DOMAIN s))
  BY <1>1, FS_Product
<1>3. Inverted(s) \in SUBSET ((DOMAIN s) \X (DOMAIN s))
  BY DEF Inverted
<1>4. IsFiniteSet(Inverted(s))
  BY <1>2, <1>3, FS_Subset
<1>5. Inversions(s) = Cardinality(Inverted(s))
  BY DEF Inversions, Inverted
<1> QED
  BY <1>4, <1>5, FS_CardinalityType

\* An exchange of neighbours in the wrong order undoes one inversion: the other pairs
\* of positions keep their order.
LEMMA ExchangeUndoesOne ==
  ASSUME NEW S \in SUBSET Int, NEW s \in Seq(S), NEW a \in 1..(Len(s) - 1), s[a + 1] < s[a]
  PROVE  Inversions(s) = Inversions(Exchanged(s, a)) + 1
<1> DEFINE w == Exchanged(s, a)
           n == Len(s)
           A == Inverted(w)
           B == Inverted(s) \ {<<a, a + 1>>}
           f == [p \in A |-> <<Other(p[1], a), Other(p[2], a)>>]
<1>1. /\ w \in Seq(S)
      /\ DOMAIN w = 1..n /\ DOMAIN s = 1..n /\ n \in Nat /\ a \in 1..(n - 1)
      /\ \A k \in 1..n : w[k] = s[Other(k, a)]
  BY ExchangedElements
<1> HIDE DEF w, n
<1>2. /\ \A k \in 1..n : Other(k, a) \in 1..n /\ Other(Other(k, a), a) = k
      /\ \A k, l \in 1..n : Other(k, a) = Other(l, a) => k = l
      /\ \A k, l \in 1..n :
           k < l /\ ~(k = a /\ l = a + 1) =>
             Other(k, a) < Other(l, a) /\ ~(Other(k, a) = a /\ Other(l, a) = a + 1)
  BY <1>1, OtherIsInverse
<1>3. Other(a, a) = a + 1 /\ Other(a + 1, a) = a
  BY <1>1 DEF Other
<1>4. /\ \A p \in A : /\ p[1] \in 1..n /\ p[2] \in 1..n /\ p = <<p[1], p[2]>>
                      /\ p[1] < p[2] /\ w[p[1]] > w[p[2]]
      /\ \A k, l \in 1..n : k < l /\ w[k] > w[l] => <<k, l>> \in A
  BY <1>1 DEF Inverted
<1>5. /\ \A p \in B : /\ p[1] \in 1..n /\ p[2] \in 1..n /\ p = <<p[1], p[2]>>
                      /\ p[1] < p[2] /\ s[p[1]] > s[p[2]] /\ ~(p[1] = a /\ p[2] = a + 1)
      /\ \A k, l \in 1..n : k < l /\ s[k] > s[l] /\ ~(k = a /\ l = a + 1) => <<k, l>> \in B
  BY <1>1 DEF Inverted
<1>6. \A p \in A : ~(p[1] = a /\ p[2] = a + 1)
  <2> SUFFICES ASSUME NEW p \in A, p[1] = a, p[2] = a + 1 PROVE FALSE
    OBVIOUS
  <2>1. w[a] > w[a + 1] /\ a \in 1..n /\ a + 1 \in 1..n
    BY <1>4
  <2>2. w[a] = s[a + 1] /\ w[a + 1] = s[a]
    BY <1>1, <1>3, <2>1
  <2>3. s[a] \in Int /\ s[a + 1] \in Int
    BY <1>1, <2>1, Integral
  <2> QED
    BY <2>1, <2>2, <2>3
<1> HIDE DEF A, B
<1>7. f \in [A -> B]
  <2> SUFFICES ASSUME NEW p \in A PROVE <<Other(p[1], a), Other(p[2], a)>> \in B
    OBVIOUS
  <2>1. p[1] \in 1..n /\ p[2] \in 1..n /\ p[1] < p[2] /\ w[p[1]] > w[p[2]]
    BY <1>4
  <2>2. /\ Other(p[1], a) \in 1..n /\ Other(p[2], a) \in 1..n
        /\ Other(p[1], a) < Other(p[2], a)
        /\ ~(Other(p[1], a) = a /\ Other(p[2], a) = a + 1)
    BY <1>2, <1>6, <2>1
  <2>3. w[p[1]] = s[Other(p[1], a)] /\ w[p[2]] = s[Other(p[2], a)]
    BY <1>1, <2>1
  <2> QED
    BY <1>5, <2>1, <2>2, <2>3
<1>8. \A p, q \in A : f[p] = f[q] => p = q
  <2> SUFFICES ASSUME NEW p \in A, NEW q \in A, f[p] = f[q] PROVE p = q
    OBVIOUS
  <2>1. Other(p[1], a) = Other(q[1], a) /\ Other(p[2], a) = Other(q[2], a)
    OBVIOUS
  <2>2. p[1] = q[1] /\ p[2] = q[2]
    BY <1>2, <1>4, <2>1
  <2> QED
    BY <1>4, <2>2
<1>9. \A q \in B : \E p \in A : f[p] = q
  <2> SUFFICES ASSUME NEW q \in B PROVE \E p \in A : f[p] = q
    OBVIOUS
  <2> DEFINE p == <<Other(q[1], a), Other(q[2], a)>>
  <2>1. /\ q[1] \in 1..n /\ q[2] \in 1..n /\ q = <<q[1], q[2]>>
        /\ q[1] < q[2] /\ s[q[1]] > s[q[2]] /\ ~(q[1] = a /\ q[2] = a + 1)
    BY <1>5
  <2>2. /\ Other(q[1], a) \in 1..n /\ Other(q[2], a) \in 1..n
        /\ Other(q[1], a) < Other(q[2], a)
        /\ Other(Other(q[1], a), a) = q[1] /\ Other(Other(q[2], a), a) = q[2]
    BY <1>2, <2>1
  <2>3. w[Other(q[1], a)] = s[q[1]] /\ w[Other(q[2], a)] = s[q[2]]
    BY <1>1, <2>2
  <2>4. p \in A
    BY <1>4, <2>1, <2>2, <2>3
  <2>5. f[p] = q
    BY <2>1, <2>2, <2>4
  <2> QED
    BY <2>4, <2>5
<1>10. ExistsBijection(A, B)
  <2> HIDE DEF f
  <2>1. f \in Bijection(A, B)
    BY <1>7, <1>8, <1>9, Fun_IsBij
  <2> QED
    BY <2>1 DEF ExistsBijection
<1>11. IsFiniteSet(A) /\ IsFiniteSet(Inverted(s))
  BY <1>1, InvertedIsFinite DEF A
<1>12. Cardinality(B) = Cardinality(A)
  BY <1>10, <1>11, FS_Bijection, Zenon
<1>13. <<a, a + 1>> \in Inverted(s)
  <2>1. a \in 1..n /\ a + 1 \in 1..n /\ a < a + 1
    BY <1>1
  <2>2. s[a] \in Int /\ s[a + 1] \in Int
    BY <1>1, <2>1, Integral
  <2> QED
    BY <1>1, <2>1, <2>2 DEF Inverted
<1>14. Cardinality(B) = Cardinality(Inverted(s)) - 1
  <2> DEFINE I == Inverted(s)
             x == <<a, a + 1>>
  <2>1. IsFiniteSet(I) /\ x \in I
    BY <1>11, <1>13
  <2>2. B = I \ {x}
    BY DEF B
  <2> HIDE DEF I, x
  <2>3. Cardinality(I \ {x}) = Cardinality(I) - 1
    BY <2>1, FS_RemoveElement
  <2> QED
    BY <2>2, <2>3 DEF I
<1>15. Inversions(w) = Cardinality(A) /\ Inversions(s) = Cardinality(Inverted(s))
  BY DEF Inversions, Inverted, A
<1>16. Inversions(w) \in Nat /\ Inversions(s) \in Nat
  BY <1>1, InvertedIsFinite
<1>17. Inversions(s) = Inversions(w) + 1
  <2>1. \A x, y \in Nat : x = y - 1 => y = x + 1
    OBVIOUS
  <2>2. Inversions(w) = Inversions(s) - 1
    BY <1>12, <1>14, <1>15, Zenon
  <2> QED
    BY <1>16, <2>1, <2>2, Zenon
<1> QED
  BY <1>17 DEF w

\* An exchange of equal neighbours changes nothing.
LEMMA ExchangeOfEquals ==
  ASSUME NEW S, NEW s \in Seq(S), NEW a \in 1..(Len(s) - 1), s[a + 1] = s[a]
  PROVE  Exchanged(s, a) = s
  BY DEF Exchanged

\* A vector in order has no inversions.
LEMMA NoInversions ==
  ASSUME NEW S \in SUBSET Int, NEW s \in Seq(S),
         \A k, l \in DOMAIN s : k < l => s[k] <= s[l]
  PROVE  Inversions(s) = 0
<1>1. \A k \in DOMAIN s : s[k] \in Int
  BY Integral
<1>2. Inverted(s) = {}
  BY <1>1 DEF Inverted
<1>3. Inversions(s) = Cardinality(Inverted(s))
  BY DEF Inversions, Inverted
<1> QED
  BY <1>2, <1>3, FS_EmptySet

\* No element is greater than one of those behind position b that follow it.
Above(b) == \A k, l \in DOMAIN v : k < l /\ l > b => v[k] <= v[l]

\* The elements of the last i - 1 positions are in their places; a pass carries the
\* greatest one it has met, and drops it in the place before them; and what it has
\* not changed is strictly ascending.
PassInv ==
  /\ i >= 1 /\ Len(v) = Len(given) /\ Len(v) <= MaxLen
  /\ at = "idle" => Above(0)
  /\ at # "idle" => Above(Len(v) - i + 1)
  /\ at = "inner" =>
       /\ i < Len(v) /\ j < Len(v)
       /\ \A k \in 1..j : v[k] <= v[j + 1]
       /\ i + j >= Len(v) => Above(Len(v) - i)
       /\ ~swapped => \A k, l \in 1..(j + 1) : k < l => v[k] < v[l]

\* The vector has the elements it was given, and every exchange of elements that are
\* not equal has undone an inversion.
CountInv ==
  /\ \A e \in Elements : Occurrences(v, e) = Occurrences(given, e)
  /\ result + Inversions(v) >= Inversions(given)
  /\ Distinct(given) => Distinct(v) /\ result + Inversions(v) = Inversions(given)

SortInv == SortTypeOK /\ PassInv /\ CountInv

LEMMA InitSort == SortInit => SortInv
<1> SUFFICES ASSUME SortInit PROVE SortInv
  OBVIOUS
<1>1. v = <<>> /\ given = <<>> /\ DOMAIN v = {} /\ Len(v) = 0 /\ Len(given) = 0
  BY DEF SortInit
<1>2. SortTypeOK
  <2>1. swapped \in BOOLEAN
    BY Zenon DEF SortInit
  <2>2. <<>> \in Seq(Elements)
    OBVIOUS
  <2> QED
    BY <2>1, <2>2 DEF SortInit, SortTypeOK
<1>3. PassInv
  BY <1>1, BubbleSortAssumption DEF SortInit, PassInv, Above
<1>4. Inversions(given) \in Nat /\ result = 0
  BY <1>2, InvertedIsFinite DEF SortTypeOK, SortInit
<1>5. CountInv
  BY <1>1, <1>4 DEF CountInv, Distinct
<1> QED
  BY <1>2, <1>3, <1>5 DEF SortInv

\* The index that the inner loop stops at.
LEMMA LastIndex == ASSUME SortTypeOK, PassInv, 1 < Len(v) PROVE Last = Len(v) - 1
<1>1. Len(v) \in Nat /\ Len(v) <= MaxLen /\ MaxLen \in Nat /\ MaxLen < 2^SizeBits
  BY BubbleSortAssumption DEF SortTypeOK, PassInv
<1>2. 2^SizeBits \in Int
  BY BubbleSortAssumption
<1> DEFINE n == 2^SizeBits
<1>3. n \in Nat \ {0} /\ Len(v) - 1 \in Nat /\ Len(v) - 1 < n
  BY <1>1, <1>2
<1> HIDE DEF n
<1>4. (Len(v) - 1) % n = Len(v) - 1
  BY <1>3
<1> QED
  BY <1>4 DEF Last, n

\* A call begins with the vector it is given.
LEMMA CallStep ==
  ASSUME NEW n \in 0..MaxLen, NEW w \in [1..n -> Elements], SortCall(w), SortInv
  PROVE  SortInv'
<1>1. w \in Seq(Elements) /\ Len(w) = n /\ DOMAIN w = 1..n /\ n \in Nat
  BY BubbleSortAssumption
<1>2. SortTypeOK'
  BY <1>1 DEF SortCall, SortInv, SortTypeOK
<1>3. PassInv'
  BY <1>1 DEF SortCall, PassInv, Above
<1>4. Inversions(w) \in Nat
  BY <1>1, InvertedIsFinite
<1>5. CountInv'
  BY <1>4 DEF SortCall, CountInv
<1> QED
  BY <1>2, <1>3, <1>5 DEF SortInv

\* The head of the outer loop finds the vector in order when it ends the loop.
LEMMA PassStep == SortInv /\ Pass => SortInv'
<1> SUFFICES ASSUME SortInv, Pass PROVE SortInv'
  OBVIOUS
<1>1. /\ v \in Seq(Elements) /\ Len(v) \in Nat /\ DOMAIN v = 1..Len(v)
      /\ i \in Nat /\ j \in Nat
  BY DEF SortInv, SortTypeOK
<1>2. SortTypeOK'
  <2>1. swapped' \in BOOLEAN
    BY Zenon DEF Pass, SortInv, SortTypeOK
  <2> QED
    BY <2>1 DEF Pass, SortInv, SortTypeOK
<1>3. PassInv'
  <2>1. CASE i < Len(v) /\ swapped' = FALSE /\ j' = 0 /\ at' = "inner"
    BY <1>1, <2>1 DEF Pass, SortInv, PassInv, Above
  <2>2. CASE i >= Len(v) /\ at' = "idle" /\ UNCHANGED <<swapped, j>>
    BY <1>1, <2>2 DEF Pass, SortInv, PassInv, Above
  <2> QED
    BY <2>1, <2>2 DEF Pass
<1>4. CountInv'
  BY DEF Pass, SortInv, CountInv
<1> QED
  BY <1>2, <1>3, <1>4 DEF SortInv

\* A pass that exchanged nothing found the vector in order.
LEMMA PassEndStep == SortInv /\ PassEnd => SortInv'
<1> SUFFICES ASSUME SortInv, PassEnd PROVE SortInv'
  OBVIOUS
<1>1. /\ v \in Seq(Elements) /\ Len(v) \in Nat /\ DOMAIN v = 1..Len(v)
      /\ i \in Nat /\ j \in Nat
  BY DEF SortInv, SortTypeOK
<1>2. SortTypeOK'
  BY DEF PassEnd, SortInv, SortTypeOK
<1>3. /\ at = "inner" /\ i >= 1 /\ i < Len(v) /\ j = Len(v) - 1
      /\ v' = v /\ given' = given
  <2>1. at = "inner" /\ i >= 1 /\ i < Len(v) /\ j < Len(v) /\ j >= Last
    BY DEF PassEnd, SortInv, PassInv
  <2>2. Last = Len(v) - 1
    BY <1>1, <2>1, LastIndex DEF SortInv
  <2>3. v' = v /\ given' = given
    BY DEF PassEnd
  <2>4. j = Len(v) - 1
    <3>1. j >= Len(v) - 1 /\ j < Len(v)
      BY <2>1, <2>2, Zenon
    <3>2. \A x, y \in Nat : x >= y - 1 /\ x < y => x = y - 1
      OBVIOUS
    <3> QED
      BY <1>1, <3>1, <3>2, Zenon
  <2> QED
    BY <2>1, <2>3, <2>4
<1>4. \A k \in DOMAIN v : v[k] \in Int
  BY <1>1, Integral, BubbleSortAssumption
<1>5. PassInv'
  <2>1. CASE ~swapped /\ at' = "idle" /\ UNCHANGED i
    BY <1>1, <1>3, <1>4, <2>1 DEF SortInv, PassInv, Above
  <2>2. CASE swapped /\ i' = i + 1 /\ at' = "outer"
    BY <1>1, <1>3, <2>2 DEF SortInv, PassInv, Above
  <2> QED
    BY <2>1, <2>2 DEF PassEnd
<1>6. CountInv'
  BY DEF PassEnd, SortInv, CountInv
<1> QED
  BY <1>2, <1>5, <1>6 DEF SortInv

\* A comparison that finds two elements in the wrong order, or equal.
LEMMA SwapStep ==
  ASSUME SortInv, at = "inner", j < Last, v[j + 2] <= v[j + 1],
         v' = Exchanged(v, j + 1), swapped' = TRUE, result' = result + 1, j' = j + 1,
         UNCHANGED <<given, i, at>>
  PROVE  SortInv'
<1> DEFINE a == j + 1
           N == Len(v)
<1>1. /\ v \in Seq(Elements) /\ N \in Nat /\ DOMAIN v = 1..N
      /\ i \in Nat /\ j \in Nat /\ result \in Nat
  BY DEF SortInv, SortTypeOK
<1>2. i >= 1 /\ i < N /\ a \in 1..(N - 1)
  BY <1>1, LastIndex DEF SortInv, PassInv
<1>3. \A k \in 1..N : v[k] \in Int
  BY <1>1, Integral, BubbleSortAssumption
<1>4. /\ v' \in Seq(Elements) /\ Len(v') = N /\ DOMAIN v' = 1..N
      /\ \A k \in 1..N : v'[k] = v[Other(k, a)]
  BY <1>1, <1>2, ExchangedElements
<1>5. SortTypeOK'
  BY <1>1, <1>4 DEF SortInv, SortTypeOK
<1> HIDE DEF a, N
<1>a. a = j + 1 /\ a + 1 = j + 2
  BY <1>1 DEF a
<1>b. /\ Above(N - i + 1)
      /\ \A k \in 1..j : v[k] <= v[a]
      /\ i + j >= N => Above(N - i)
  BY <1>a DEF N, SortInv, PassInv
<1>6. CASE v[a + 1] = v[a]
  <2>1. v' = v
    BY <1>1, <1>2, <1>6, <1>a, ExchangeOfEquals DEF N, a
  <2>2. \A k \in 1..a : v[k] <= v[a + 1]
    BY <1>1, <1>2, <1>3, <1>6, <1>a, <1>b
  <2>3. i + a >= N => Above(N - i)
    BY <1>1, <1>2, <1>3, <1>6, <1>a, <1>b, <2>2 DEF Above
  <2>4. PassInv'
    <3>1. /\ Len(v') = N /\ i' = i /\ at' = "inner" /\ j' = a /\ j' + 1 = a + 1
          /\ given' = given
      BY <1>a, <2>1 DEF N
    <3>2. Above(N - i + 1)' /\ (i + a >= N => Above(N - i)')
      BY <1>b, <2>1, <2>3, <3>1 DEF Above, N
    <3>3. Len(v) = Len(given) /\ Len(v) <= MaxLen /\ a < N
      BY <1>1, <1>2 DEF SortInv, PassInv
    <3> QED
      BY <1>2, <2>1, <2>2, <3>1, <3>2, <3>3 DEF PassInv, N
  <2>5. CountInv'
    <3>1. Inversions(v) \in Nat /\ Inversions(given) \in Nat
      BY <1>1, InvertedIsFinite DEF SortInv, SortTypeOK
    <3>2. ~Distinct(given)
      BY <1>1, <1>2, <1>6 DEF SortInv, CountInv, Distinct
    <3> QED
      BY <1>1, <2>1, <3>1, <3>2 DEF SortInv, CountInv
  <2> QED
    BY <1>5, <2>4, <2>5 DEF SortInv
<1>7. CASE v[a + 1] < v[a]
  <2>1. a + 1 <= N - i + 1
    BY <1>1, <1>2, <1>3, <1>7, <1>b, SMTT(30) DEF Above
  <2>2. /\ \A k \in 1..N : Other(k, a) \in 1..N
        /\ \A k \in 1..N : k > a + 1 => Other(k, a) = k
        /\ \A k \in 1..N : k <= a + 1 => Other(k, a) <= a + 1
        /\ Other(a, a) = a + 1 /\ Other(a + 1, a) = a
        /\ \A k \in 1..N : k < a => Other(k, a) = k
    BY <1>1, <1>2 DEF Other
  <2>3. \A k \in 1..a : v'[k] <= v'[a + 1]
    <3>1. a \in 1..N /\ a + 1 \in 1..N
      BY <1>1, <1>2
    <3>2. v'[a + 1] = v[a] /\ v'[a] = v[a + 1]
      BY <1>4, <2>2, <3>1
    <3>3. \A k \in 1..j : k \in 1..N /\ k < a /\ v'[k] = v[k]
      BY <1>1, <1>2, <1>4, <1>a, <2>2
    <3>4. \A k \in 1..a : k \in 1..j \/ k = a
      BY <1>1, <1>2, <1>a
    <3> QED
      BY <1>3, <1>7, <1>b, <3>1, <3>2, <3>3, <3>4
  <2>4. \A k, l \in 1..N : k < l /\ l > N - i + 1 => v'[k] <= v'[l]
    <3> SUFFICES ASSUME NEW k \in 1..N, NEW l \in 1..N, k < l, l > N - i + 1
                 PROVE  v'[k] <= v'[l]
      OBVIOUS
    <3>0. k \in Nat /\ l \in Nat /\ a \in Nat /\ N - i + 1 \in Int /\ l > a + 1
      BY <1>1, <1>2, <2>1
    <3>1. v'[l] = v[l] /\ v'[k] = v[Other(k, a)]
      BY <1>4, <2>2, <3>0
    <3>2. Other(k, a) \in 1..N /\ Other(k, a) < l
      <4>1. CASE k > a + 1
        BY <2>2, <4>1
      <4>2. CASE k <= a + 1
        <5>1. Other(k, a) \in 1..N /\ Other(k, a) <= a + 1
          BY <2>2, <4>2
        <5> QED
          BY <3>0, <5>1
      <4> QED
        BY <3>0, <4>1, <4>2
    <3> QED
      BY <1>1, <1>b, <3>1, <3>2 DEF Above
  <2>5. i + a >= N => \A k, l \in 1..N : k < l /\ l > N - i => v'[k] <= v'[l]
    <3> SUFFICES ASSUME i + a >= N, NEW k \in 1..N, NEW l \in 1..N, k < l, l > N - i
                 PROVE  v'[k] <= v'[l]
      OBVIOUS
    <3>1. CASE l > N - i + 1
      BY <2>4, <3>1
    <3>2. CASE l = N - i + 1
      <4>1. l = a + 1 /\ k \in 1..a
        BY <1>1, <1>2, <2>1, <3>2
      <4> QED
        BY <2>3, <4>1
    <3> QED
      BY <1>1, <3>1, <3>2
  <2>6. PassInv'
    <3>1. /\ Len(v') = N /\ i' = i /\ at' = "inner" /\ j' = a /\ j' + 1 = a + 1
          /\ given' = given
      BY <1>4, <1>a
    <3>2. Above(N - i + 1)' /\ (i + a >= N => Above(N - i)')
      BY <1>4, <2>4, <2>5, <3>1 DEF Above, N
    <3>3. Len(v) = Len(given) /\ Len(v) <= MaxLen /\ a < N
      BY <1>1, <1>2 DEF SortInv, PassInv
    <3> QED
      BY <1>2, <2>3, <3>1, <3>2, <3>3 DEF PassInv, N
  <2>7. CountInv'
    <3>1. Inversions(v) \in Nat /\ Inversions(v') \in Nat /\ Inversions(given) \in Nat
      BY <1>1, <1>4, InvertedIsFinite DEF SortInv, SortTypeOK
    <3>2. Inversions(v) = Inversions(v') + 1
      BY <1>1, <1>2, <1>7, <1>a, ExchangeUndoesOne, BubbleSortAssumption DEF N, a
    <3>3. \A e : Occurrences(v', e) = Occurrences(v, e)
      BY <1>1, <1>2, <1>a, ExchangeKeepsElements DEF N, a
    <3>4. Distinct(v) => Distinct(v')
      <4>1. \A k, l \in 1..N : Other(k, a) = Other(l, a) => k = l
        BY <1>1, <1>2, OtherIsInverse
      <4> QED
        BY <1>1, <1>4, <2>2, <4>1 DEF Distinct
    <3> QED
      BY <1>1, <3>1, <3>2, <3>3, <3>4 DEF SortInv, CountInv
  <2> QED
    BY <1>5, <2>6, <2>7 DEF SortInv
<1> QED
  BY <1>1, <1>2, <1>3, <1>6, <1>7, <1>a

\* A comparison that finds two elements in order.
LEMMA KeepStep ==
  ASSUME SortInv, at = "inner", j < Last, v[j + 2] > v[j + 1], j' = j + 1,
         UNCHANGED <<v, given, i, swapped, result, at>>
  PROVE  SortInv'
<1>1. /\ v \in Seq(Elements) /\ Len(v) \in Nat /\ DOMAIN v = 1..Len(v)
      /\ i \in Nat /\ j \in Nat
  BY DEF SortInv, SortTypeOK
<1>2. i >= 1 /\ i < Len(v) /\ j + 1 \in 1..(Len(v) - 1)
  BY <1>1, LastIndex DEF SortInv, PassInv
<1>3. \A k \in 1..Len(v) : v[k] \in Int
  BY <1>1, Integral, BubbleSortAssumption
<1>4. /\ Above(Len(v) - i + 1)
      /\ \A k \in 1..j : v[k] <= v[j + 1]
      /\ i + j >= Len(v) => Above(Len(v) - i)
      /\ ~swapped => \A k, l \in 1..(j + 1) : k < l => v[k] < v[l]
  BY DEF SortInv, PassInv
<1>5. SortTypeOK'
  BY <1>1 DEF SortInv, SortTypeOK
<1>6. \A k \in 1..(j + 1) : v[k] <= v[j + 2] /\ v[k] < v[j + 2]
  BY <1>1, <1>2, <1>3, <1>4
<1>7. i + j + 1 >= Len(v) => Above(Len(v) - i)
  BY <1>1, <1>2, <1>4, <1>6, SMTT(30) DEF Above
<1>8. ~swapped => \A k, l \in 1..(j + 2) : k < l => v[k] < v[l]
  BY <1>1, <1>2, <1>4, <1>6
<1>9. PassInv'
  BY <1>1, <1>2, <1>4, <1>6, <1>7, <1>8 DEF SortInv, PassInv, Above
<1>10. CountInv'
  BY DEF SortInv, CountInv
<1> QED
  BY <1>5, <1>9, <1>10 DEF SortInv

LEMMA NextSort == SortInv /\ [SortNext]_sortVars => SortInv'
<1> SUFFICES ASSUME SortInv, [SortNext]_sortVars PROVE SortInv'
  OBVIOUS
<1>1. ASSUME NEW n \in 0..MaxLen, NEW w \in [1..n -> Elements], SortCall(w)
      PROVE  SortInv'
  BY <1>1, CallStep
<1>2. CASE Compare
  <2>1. Exchanged(v, j + 1) = [v EXCEPT ![j + 1] = v[j + 2], ![j + 2] = v[j + 1]]
    <3>1. j + 1 + 1 = j + 2
      BY DEF SortInv, SortTypeOK
    <3> QED
      BY <3>1, Zenon DEF Exchanged
  <2>2. /\ at = "inner" /\ j < Last /\ j' = j + 1
        /\ given' = given /\ i' = i /\ at' = at
    BY <1>2 DEF Compare
  <2>3. CASE /\ v[j + 2] <= v[j + 1] /\ v' = Exchanged(v, j + 1)
             /\ swapped' = TRUE /\ result' = result + 1
    BY <2>2, <2>3, SwapStep
  <2>4. CASE /\ v[j + 2] > v[j + 1]
             /\ v' = v /\ swapped' = swapped /\ result' = result
    BY <2>2, <2>4, KeepStep
  <2> QED
    BY <1>2, <2>1, <2>3, <2>4, Zenon DEF Compare
<1>3. CASE UNCHANGED sortVars
  BY <1>3 DEF sortVars, SortInv, SortTypeOK, PassInv, CountInv, Above
<1> QED
  BY <1>1, <1>2, <1>3, PassStep, PassEndStep DEF SortNext, SortStep

\* Every variable of BubbleSort keeps its type.
THEOREM SortTypeCorrect == SortSpec => []SortTypeOK
<1>1. SortInv => SortTypeOK
  BY DEF SortInv
<1> QED
  BY <1>1, InitSort, NextSort, PTL DEF SortSpec

\* bubble_sort() returns the elements it was given in ascending order, for a vector of
\* any length and with equal elements, and never counts fewer exchanges than there were
\* inversions (algorithm.h:14-33).
THEOREM SortIsCorrect == SortSpec => []SortReturns
<1>1. SortInv => SortReturns
  <2> SUFFICES ASSUME SortInv, at = "idle" PROVE SortReturns
    BY DEF SortReturns
  <2>1. /\ v \in Seq(Elements) /\ Len(v) \in Nat /\ DOMAIN v = 1..Len(v)
        /\ given \in Seq(Elements) /\ result \in Nat
    BY DEF SortInv, SortTypeOK
  <2>2. \A k, l \in DOMAIN v : k < l => v[k] <= v[l]
    BY <2>1 DEF SortInv, PassInv, Above
  <2>3. \A k \in 1..(Len(v) - 1) : v[k] <= v[k + 1]
    BY <2>1, <2>2
  <2>4. Inversions(v) = 0 /\ Inversions(given) \in Nat
    BY <2>1, <2>2, NoInversions, InvertedIsFinite, BubbleSortAssumption
  <2> QED
    BY <2>1, <2>3, <2>4 DEF SortReturns, SortInv, PassInv, CountInv
<1> QED
  BY <1>1, InitSort, NextSort, PTL DEF SortSpec

------------------------------------------------------------------------------
(* Strings *)

\* The words that begin at positions up to p, and the rank of the one at b.
UpTo(p) == {k \in Starts(str) : k <= p}

\* The token of the word that begins at b is that word, and all of it.
WholeWord(b) ==
  LET word == tokens[Cardinality(UpTo(b))]
      e == b + Len(word)
  IN  /\ word # <<>> /\ e <= Len(str) + 1
      /\ SubSeq(str, b, e - 1) = word
      /\ Sep \notin Seqs!ToSet(word)
      /\ e <= Len(str) => str[e] = Sep

\* The search goes on at the beginning or behind a separator, and the tokens are the
\* words before that.
SearchInv ==
  splitting =>
    /\ pos = 0 \/ str[pos] = Sep
    /\ Len(tokens) = Cardinality(UpTo(pos))
    /\ \A b \in UpTo(pos) : WholeWord(b)

\* No word goes on behind position e.
WordEnd(e) == e = 0 \/ e = Len(str) \/ str[e + 1] = Sep

\* s is what is kept of the string up to the end of a word.
Glued(e, s) ==
  /\ WordEnd(e)
  /\ Len(s) = Cardinality(Kept(str, e))
  /\ \A k \in Kept(str, e) : s[Cardinality(Kept(str, k))] = str[k]

\* The words before the iterator of join(): the empty tokens at the end are none.
WordsBefore(m) ==
  IF m <= Cardinality(Starts(str)) THEN m - 1 ELSE Cardinality(Starts(str))

\* join() has put together the tokens before its iterator, without a separator until
\* the last one.
JoinInv ==
  /\ splitting => element = 0
  /\ element # 0 =>
       \E e \in 0..Len(str), s \in Seq(Letters) :
         /\ Glued(e, s) /\ Cardinality(UpTo(e)) = WordsBefore(element)
         /\ joined = IF JoinReturns /\ tokens # <<>> THEN Append(s, Sep) ELSE s

StringsInv == StringsTypeOK /\ SearchInv /\ SplitFindsTokens /\ JoinInv

\* A set of naturals has a least element.
LEMMA Least ==
  ASSUME NEW T \in SUBSET Nat, T # {}
  PROVE  \E k \in T : \A l \in T : k <= l
<1> DEFINE R == {p \in Nat \X Nat : p[1] < p[2]}
<1>1. IsWellFoundedOn(R, Nat)
  <2>1. OpToRel(<, Nat) = R
    BY DEF OpToRel
  <2> QED
    BY <2>1, NatLessThanWellFounded
<1>2. \A k, l \in Nat : <<l, k>> \in R <=> l < k
  OBVIOUS
<1> HIDE DEF R
<1>3. PICK k \in T : \A l \in T : <<l, k>> \notin R
  BY <1>1, WFMin
<1>4. \A l \in T : ~(l < k) /\ l \in Nat /\ k \in Nat
  BY <1>2, <1>3
<1> QED
  BY <1>4

\* What find() returns.
LEMMA FindProperties ==
  ASSUME StringsTypeOK
  PROVE  /\ Len(str) \in Nat /\ DOMAIN str = 1..Len(str)
         /\ find(pos) = npos => \A k \in (pos + 1)..Len(str) : str[k] # Sep
         /\ find(pos) # npos =>
              /\ find(pos) \in pos..(Len(str) - 1) /\ str[find(pos) + 1] = Sep
              /\ \A k \in (pos + 1)..find(pos) : str[k] # Sep
<1> DEFINE hits == {k \in pos..(Len(str) - 1) : str[k + 1] = Sep}
<1>1. Len(str) \in Nat /\ DOMAIN str = 1..Len(str) /\ pos \in Nat /\ pos <= Len(str)
  BY DEF StringsTypeOK
<1>2. hits \in SUBSET Nat
  BY <1>1
<1>3. CASE hits = {}
  <2>1. find(pos) = npos
    BY <1>3 DEF find
  <2>2. \A k \in (pos + 1)..Len(str) : k - 1 \notin hits
    BY <1>3
  <2>3. \A k \in (pos + 1)..Len(str) : k - 1 \in pos..(Len(str) - 1) /\ (k - 1) + 1 = k
    BY <1>1
  <2>4. \A k \in (pos + 1)..Len(str) : str[k] # Sep
    BY <2>2, <2>3
  <2> QED
    BY <1>1, <2>1, <2>4
<1>4. CASE hits # {}
  <2>1. \E k \in hits : \A l \in hits : k <= l
    BY <1>2, <1>4, Least
  <2>2. find(pos) = CHOOSE k \in hits : \A l \in hits : k <= l
    BY <1>4 DEF find
  <2>3. find(pos) \in hits /\ \A l \in hits : find(pos) <= l
    BY <2>1, <2>2
  <2>4. find(pos) \in pos..(Len(str) - 1) /\ str[find(pos) + 1] = Sep /\ find(pos) \in Nat
    BY <1>1, <2>3
  <2>5. \A k \in (pos + 1)..find(pos) :
          k - 1 \in pos..(Len(str) - 1) /\ (k - 1) + 1 = k /\ ~(find(pos) <= k - 1)
    BY <1>1, <2>4
  <2>6. \A k \in (pos + 1)..find(pos) : str[k] # Sep
    BY <2>3, <2>5
  <2>7. find(pos) # npos
    BY <2>4 DEF npos
  <2> QED
    BY <1>1, <2>4, <2>6, <2>7
<1> QED
  BY <1>3, <1>4

\* The words that begin up to a position, one more, or none.
LEMMA Words ==
  ASSUME NEW S, str \in Seq(S)
  PROVE  /\ \A p : IsFiniteSet(UpTo(p)) /\ Cardinality(UpTo(p)) \in Nat
         /\ \A p \in Nat : \A b \in UpTo(p) : Cardinality(UpTo(b)) \in 1..Cardinality(UpTo(p))
         /\ \A p : \A x : x \notin UpTo(p) =>
              Cardinality(UpTo(p) \cup {x}) = Cardinality(UpTo(p)) + 1
<1>1. DOMAIN str = 1..Len(str) /\ Len(str) \in Nat
  OBVIOUS
<1>2. IsFiniteSet(1..Len(str))
  BY <1>1, FS_Interval
<1>3. \A p : IsFiniteSet(UpTo(p))
  <2> TAKE p
  <2>1. UpTo(p) \in SUBSET (1..Len(str))
    BY <1>1 DEF UpTo, Starts
  <2> QED
    BY <1>2, <2>1, FS_Subset
<1>4. \A p : Cardinality(UpTo(p)) \in Nat
  BY <1>3, FS_CardinalityType
<1>5. ASSUME NEW p \in Nat, NEW b \in UpTo(p)
      PROVE  Cardinality(UpTo(b)) \in 1..Cardinality(UpTo(p))
  <2>1. b \in Nat /\ b <= p /\ b \in UpTo(b)
    BY <1>1 DEF UpTo, Starts
  <2>2. UpTo(b) \in SUBSET UpTo(p)
    BY <1>1, <2>1 DEF UpTo, Starts
  <2>3. Cardinality(UpTo(b)) <= Cardinality(UpTo(p))
    BY <1>3, <2>2, FS_Subset
  <2>4. Cardinality(UpTo(b)) # 0
    BY <1>3, <2>1, FS_EmptySet
  <2> QED
    BY <1>4, <2>3, <2>4
<1>6. ASSUME NEW p, NEW x, x \notin UpTo(p)
      PROVE  Cardinality(UpTo(p) \cup {x}) = Cardinality(UpTo(p)) + 1
  <2> HIDE DEF UpTo
  <2> QED
    BY <1>3, <1>6, FS_AddElement
<1> QED
  BY <1>3, <1>4, <1>5, <1>6

\* A token more leaves the words that were found alone.
LEMMA WordsKept ==
  ASSUME NEW S, str \in Seq(S), str' = str, NEW T, tokens \in Seq(T), NEW w \in T,
         tokens' = Append(tokens, w), NEW p \in Nat, Len(tokens) = Cardinality(UpTo(p)),
         NEW b \in UpTo(p), WholeWord(b)
  PROVE  WholeWord(b)'
<1>1. Cardinality(UpTo(b)) \in 1..Len(tokens)
  BY Words
<1>2. UpTo(b)' = UpTo(b)
  BY DEF UpTo, Starts
<1> DEFINE r == Cardinality(UpTo(b))
<1>3. tokens'[r] = tokens[r]
  BY <1>1
<1> HIDE DEF r
<1>4. Cardinality(UpTo(b))' = r /\ r = Cardinality(UpTo(b))
  BY <1>2 DEF r
<1> QED
  BY <1>3, <1>4 DEF WholeWord

\* The characters from position p on, and before q.
LEMMA Substring ==
  ASSUME NEW S, NEW s \in Seq(S), NEW p \in Nat, NEW q \in Nat, p < q, q <= Len(s)
  PROVE  /\ SubSeq(s, p + 1, q) \in Seq(S)
         /\ Len(SubSeq(s, p + 1, q)) = q - p
         /\ DOMAIN SubSeq(s, p + 1, q) = 1..(q - p)
         /\ \A k \in 1..(q - p) : SubSeq(s, p + 1, q)[k] = s[p + k]
<1> DEFINE w == SubSeq(s, p + 1, q)
<1>1. w \in Seq(S) /\ Len(w) = q - p
  OBVIOUS
<1>2. DOMAIN w = 1..(q - p)
  BY <1>1
<1>3. ASSUME NEW k \in 1..(q - p) PROVE w[k] = s[p + k]
  OBVIOUS
<1> QED
  BY <1>1, <1>2, <1>3

\* The characters up to a separator, or to the end, are the word that begins there.
LEMMA NewWord ==
  ASSUME StringsTypeOK, SearchInv, splitting, str' = str, NEW p, p = pos,
         NEW stop \in (p + 1)..Len(str),
         \A k \in (p + 1)..stop : str[k] # Sep,
         stop < Len(str) => str[stop + 1] = Sep,
         tokens' = Append(tokens, substr(p, stop))
  PROVE  /\ substr(p, stop) \in Seq(Letters)
         /\ UpTo(stop + 1) = UpTo(p) \cup {p + 1}
         /\ Len(tokens') = Cardinality(UpTo(stop + 1))
         /\ \A b \in UpTo(stop + 1) : WholeWord(b)'
<1> DEFINE w == substr(p, stop)
           Chars == Letters \cup {Sep}
<1>1. /\ str \in Seq(Chars) /\ Len(str) \in Nat /\ DOMAIN str = 1..Len(str)
      /\ p \in Nat /\ p < Len(str) /\ stop \in Nat /\ p < stop /\ stop <= Len(str)
      /\ tokens \in Seq(Seq(Letters))
  BY DEF StringsTypeOK
<1>2. /\ p = 0 \/ str[p] = Sep
      /\ Len(tokens) = Cardinality(UpTo(p))
      /\ \A b \in UpTo(p) : WholeWord(b)
  BY DEF SearchInv
<1> HIDE DEF Chars
<1>3. /\ w \in Seq(Chars) /\ Len(w) = stop - p /\ DOMAIN w = 1..(stop - p)
      /\ \A k \in 1..(stop - p) : w[k] = str[p + k]
  BY <1>1, Substring DEF substr
<1>4. \A k \in (p + 1)..stop : str[k] \in Letters
  BY <1>1 DEF Chars
<1>5. w \in Seq(Letters)
  <2>1. \A k \in 1..(stop - p) : p + k \in (p + 1)..stop
    BY <1>1
  <2>2. \A k \in 1..(stop - p) : w[k] \in Letters
    BY <1>3, <1>4, <2>1
  <2> HIDE DEF w
  <2>3. w \in [1..(stop - p) -> Letters] /\ stop - p \in Nat
    BY <1>1, <1>3, <2>2
  <2> QED
    BY <2>3
<1>6. p + 1 \in Starts(str)
  BY <1>1, <1>2 DEF Starts
<1>7. \A k \in Starts(str) : k <= stop + 1 => k <= p + 1
  <2> SUFFICES ASSUME NEW k \in Starts(str), k <= stop + 1, p + 1 < k PROVE FALSE
    BY <1>1 DEF Starts
  <2>1. k \in 1..Len(str) /\ str[k] # Sep /\ str[k - 1] = Sep
    BY <1>1 DEF Starts
  <2>2. k - 1 \in (p + 1)..stop
    BY <1>1, <2>1
  <2> QED
    BY <2>1, <2>2
<1>8. /\ UpTo(stop + 1) = UpTo(p) \cup {p + 1}
      /\ UpTo(p + 1) = UpTo(p) \cup {p + 1}
      /\ p + 1 \notin UpTo(p)
  BY <1>1, <1>6, <1>7 DEF UpTo, Starts
<1>9. Cardinality(UpTo(p) \cup {p + 1}) = Cardinality(UpTo(p)) + 1
  BY <1>1, <1>8, Words
<1>10. /\ tokens' \in Seq(Seq(Letters)) /\ Len(tokens') = Len(tokens) + 1
       /\ tokens'[Len(tokens) + 1] = w
  <2> HIDE DEF w
  <2>1. tokens' = Append(tokens, w)
    BY DEF w
  <2> QED
    BY <1>1, <1>5, <2>1
<1>11. WholeWord(p + 1)'
  <2>1. UpTo(p + 1)' = UpTo(p + 1)
    BY DEF UpTo, Starts
  <2>2. tokens'[Cardinality(UpTo(p + 1)')] = w
    BY <1>2, <1>8, <1>9, <1>10, <2>1
  <2>3. w # <<>>
    BY <1>1, <1>3
  <2>4. p + 1 + Len(w) = stop + 1 /\ p + 1 + Len(w) - 1 = stop
    BY <1>1, <1>3
  <2>5. SubSeq(str', p + 1, stop) = w
    BY DEF substr
  <2>6. Sep \notin Seqs!ToSet(w)
    BY <1>5, StringsAssumption DEF Seqs!ToSet
  <2>7. stop + 1 <= Len(str') => str'[stop + 1] = Sep
    BY <1>1
  <2> HIDE DEF w
  <2> QED
    BY <2>2, <2>3, <2>4, <2>5, <2>6, <2>7 DEF WholeWord
<1>12. ASSUME NEW b \in UpTo(p) PROVE WholeWord(b)'
  BY <1>1, <1>2, <1>5, WordsKept
<1> QED
  BY <1>2, <1>5, <1>8, <1>9, <1>10, <1>11, <1>12

LEMMA InitStrings == StringsInit => StringsInv
<1> SUFFICES ASSUME StringsInit PROVE StringsInv
  OBVIOUS
<1>1. splitting \in BOOLEAN /\ ~splitting
  BY Zenon DEF StringsInit
<1>2. StringsTypeOK
  BY <1>1 DEF StringsInit, StringsTypeOK
<1>3. SearchInv /\ JoinInv
  BY <1>1, Zenon DEF StringsInit, SearchInv, JoinInv
<1>4. SplitFindsTokens
  <2>1. tokens = <<>> /\ Starts(str) = {}
    BY DEF StringsInit, Starts
  <2>2. Len(tokens) = 0 /\ DOMAIN tokens = {} /\ Cardinality(Starts(str)) = 0
    BY <2>1, FS_EmptySet
  <2> QED
    BY <2>1, <2>2 DEF SplitFindsTokens
<1> QED
  BY <1>2, <1>3, <1>4 DEF StringsInv

\* split() is called.
LEMMA CallSplit ==
  ASSUME NEW n \in 0..MaxLength, NEW s \in [1..n -> Letters \cup {Sep}], SplitCall(s)
  PROVE  StringsInv'
<1>1. /\ str' = s /\ pos' = 0 /\ tokens' = <<>> /\ splitting' = TRUE
      /\ element' = 0 /\ joined' = <<>>
      /\ s \in Seq(Letters \cup {Sep}) /\ Len(s) = n /\ DOMAIN s = 1..n /\ n \in Nat
  BY StringsAssumption DEF SplitCall
<1>2. StringsTypeOK'
  BY <1>1 DEF StringsTypeOK
<1>3. UpTo(0)' = {}
  BY <1>1 DEF UpTo, Starts
<1>4. UpTo(pos)' = {}
  BY <1>1, <1>3
<1>5. SearchInv'
  BY <1>1, <1>4, FS_EmptySet DEF SearchInv
<1>6. SplitFindsTokens' /\ JoinInv'
  BY <1>1, Zenon DEF SplitFindsTokens, JoinInv
<1> QED
  BY <1>2, <1>5, <1>6 DEF StringsInv

\* The loop finds a separator.
LEMMA FindStep == StringsInv /\ SplitFind => StringsInv'
<1> SUFFICES ASSUME StringsInv, SplitFind PROVE StringsInv'
  OBVIOUS
<1>0. StringsTypeOK /\ SearchInv /\ JoinInv
  BY DEF StringsInv
<1>1. PICK p : p = pos
  OBVIOUS
<1>2. PICK stop : stop = find(pos)
  OBVIOUS
<1>3. /\ splitting /\ str' = str /\ splitting' = splitting /\ pos' = stop + 1
      /\ tokens' = IF stop # p THEN Append(tokens, substr(p, stop)) ELSE tokens
      /\ element' = element /\ joined' = joined /\ element = 0
  BY <1>0, <1>1, <1>2 DEF SplitFind, Found, JoinInv
<1>4. /\ Len(str) \in Nat /\ DOMAIN str = 1..Len(str)
      /\ stop \in p..(Len(str) - 1) /\ str[stop + 1] = Sep
      /\ \A k \in (p + 1)..stop : str[k] # Sep
  BY <1>0, <1>1, <1>2, FindProperties DEF SplitFind
<1>5. /\ str \in Seq(Letters \cup {Sep}) /\ tokens \in Seq(Seq(Letters))
      /\ p \in Nat /\ p <= Len(str) /\ splitting \in BOOLEAN
  BY <1>0, <1>1, <1>4 DEF StringsTypeOK
<1>6. pos' \in 0..Len(str')
  BY <1>3, <1>4, <1>5
<1>7. /\ tokens' \in Seq(Seq(Letters))
      /\ Len(tokens') = Cardinality(UpTo(stop + 1))
      /\ \A b \in UpTo(stop + 1) : WholeWord(b)'
  <2>1. CASE stop = p
    <3>1. tokens' = tokens
      BY <1>3, <2>1
    <3>2. p + 1 \notin Starts(str)
      BY <1>4, <2>1 DEF Starts
    <3>3. UpTo(stop + 1) = UpTo(p)
      BY <1>4, <1>5, <2>1, <3>2 DEF UpTo, Starts
    <3>4. Len(tokens) = Cardinality(UpTo(p)) /\ \A b \in UpTo(p) : WholeWord(b)
      BY <1>0, <1>1, <1>3 DEF SearchInv
    <3>5. \A b : WholeWord(b) => WholeWord(b)'
      BY <1>3, <3>1 DEF WholeWord, UpTo, Starts
    <3> QED
      BY <1>5, <3>1, <3>3, <3>4, <3>5
  <2>2. CASE stop # p
    <3>1. tokens' = Append(tokens, substr(p, stop))
      BY <1>3, <2>2
    <3>2. stop \in (p + 1)..Len(str)
      BY <1>4, <1>5, <2>2
    <3>3. /\ substr(p, stop) \in Seq(Letters)
          /\ Len(tokens') = Cardinality(UpTo(stop + 1))
          /\ \A b \in UpTo(stop + 1) : WholeWord(b)'
      BY <1>0, <1>1, <1>3, <1>4, <3>1, <3>2, NewWord
    <3>4. tokens' \in Seq(Seq(Letters))
      <4> DEFINE w == substr(p, stop)
      <4>1. tokens' = Append(tokens, w) /\ w \in Seq(Letters)
        BY <3>1, <3>3
      <4> HIDE DEF w
      <4> QED
        BY <1>5, <4>1
    <3> QED
      BY <3>3, <3>4
  <2> QED
    BY <2>1, <2>2
<1>8. StringsTypeOK'
  <2>1. splitting' \in BOOLEAN
    BY <1>3, <1>5, Zenon
  <2>2. str' \in Seq(Letters \cup {Sep})
    BY <1>3, <1>5
  <2>3. element' \in 0..(Len(tokens') + 1) /\ joined' \in Seq(Letters \cup {Sep})
    <3>1. Len(tokens') \in Nat
      BY <1>7
    <3> QED
      BY <1>0, <1>3, <3>1 DEF StringsTypeOK
  <2> QED
    BY <1>6, <1>7, <2>1, <2>2, <2>3 DEF StringsTypeOK
<1>9. UpTo(stop + 1)' = UpTo(stop + 1)
  BY <1>3 DEF UpTo, Starts
<1>10. str'[pos'] = Sep /\ UpTo(pos)' = UpTo(stop + 1)
  BY <1>3, <1>4, <1>9
<1>11. SearchInv'
  BY <1>7, <1>10 DEF SearchInv
<1>12. SplitFindsTokens' /\ JoinInv'
  BY <1>3, Zenon DEF SplitFindsTokens, JoinInv
<1> QED
  BY <1>8, <1>11, <1>12 DEF StringsInv

\* split() returns: the rest of the string is its last word, or nothing.
LEMMA RestStep == StringsInv /\ SplitRest => StringsInv'
<1> SUFFICES ASSUME StringsInv, SplitRest PROVE StringsInv'
  OBVIOUS
<1>0. StringsTypeOK /\ SearchInv /\ JoinInv
  BY DEF StringsInv
<1>1. PICK p : p = pos
  OBVIOUS
<1>2. /\ Len(str) \in Nat /\ DOMAIN str = 1..Len(str)
      /\ \A k \in (p + 1)..Len(str) : str[k] # Sep
  BY <1>0, <1>1, FindProperties DEF SplitRest
<1>3. /\ str \in Seq(Letters \cup {Sep}) /\ tokens \in Seq(Seq(Letters))
      /\ p \in Nat /\ p <= Len(str)
  BY <1>0, <1>1, <1>2 DEF StringsTypeOK
<1>4. npos # p
  BY <1>3 DEF npos
<1>5. /\ splitting /\ str' = str /\ splitting' = FALSE /\ pos' = p
      /\ tokens' = Append(tokens, substr(p, Len(str)))
      /\ element' = element /\ joined' = joined /\ element = 0
  BY <1>0, <1>1, <1>4 DEF SplitRest, JoinInv
<1>6. /\ p = 0 \/ str[p] = Sep
      /\ Len(tokens) = Cardinality(UpTo(p))
      /\ \A b \in UpTo(p) : WholeWord(b)
  BY <1>0, <1>1, <1>5 DEF SearchInv
<1>7. Starts(str') = Starts(str) /\ Starts(str) \subseteq 1..Len(str)
  BY <1>2, <1>5 DEF Starts
<1> DEFINE C == Cardinality(Starts(str))
           w == substr(p, Len(str))
<1>8. /\ w \in Seq(Letters)
      /\ Len(tokens') >= C
      /\ \A k \in DOMAIN tokens' : k > C => tokens'[k] = <<>>
      /\ \A b \in Starts(str) : WholeWord(b)'
  <2>1. CASE p = Len(str)
    <3>1. w = <<>>
      BY <1>2, <1>3, <2>1 DEF substr
    <3>3. UpTo(p) = Starts(str)
      BY <1>2, <1>7, <2>1 DEF UpTo
    <3>4. tokens' = Append(tokens, <<>>) /\ <<>> \in Seq(Letters)
      BY <1>5, <3>1
    <3>5. /\ Len(tokens') = Len(tokens) + 1 /\ tokens'[Len(tokens) + 1] = <<>>
          /\ DOMAIN tokens' = 1..(Len(tokens) + 1)
      BY <1>3, <3>4
    <3>6. ASSUME NEW b \in UpTo(p) PROVE WholeWord(b)'
      BY <1>3, <1>5, <1>6, <3>4, WordsKept
    <3>7. C = Len(tokens) /\ C \in Nat
      BY <1>3, <1>6, <3>3
    <3> HIDE DEF C, w
    <3> QED
      BY <3>1, <3>3, <3>4, <3>5, <3>6, <3>7
  <2>2. CASE p < Len(str)
    <3>1. PICK stop : stop = Len(str)
      OBVIOUS
    <3>2. /\ w \in Seq(Letters)
          /\ Len(tokens') = Cardinality(UpTo(stop + 1))
          /\ \A b \in UpTo(stop + 1) : WholeWord(b)'
      <4>1. /\ stop \in (p + 1)..Len(str) /\ ~(stop < Len(str))
            /\ \A k \in (p + 1)..stop : str[k] # Sep
            /\ tokens' = Append(tokens, substr(p, stop))
        BY <1>2, <1>3, <1>5, <2>2, <3>1
      <4> QED
        BY <1>0, <1>1, <1>5, <3>1, <4>1, NewWord
    <3>3. UpTo(stop + 1) = Starts(str)
      BY <1>2, <1>7, <3>1 DEF UpTo
    <3>4. tokens' \in Seq(Seq(Letters))
      <4>1. tokens' = Append(tokens, w) /\ w \in Seq(Letters)
        BY <1>5, <3>2
      <4> HIDE DEF w
      <4> QED
        BY <1>3, <4>1
    <3>5. C = Len(tokens') /\ C \in Nat /\ DOMAIN tokens' = 1..Len(tokens')
      BY <3>2, <3>3, <3>4
    <3> HIDE DEF C, w
    <3> QED
      BY <3>2, <3>3, <3>5
  <2>3. \A m, n \in Nat : m <= n => m = n \/ m < n
    OBVIOUS
  <2>4. p = Len(str) \/ p < Len(str)
    BY <1>2, <1>3, <2>3, Zenon
  <2> QED
    BY <2>1, <2>2, <2>4, Zenon
<1>9. StringsTypeOK'
  <2>1. tokens' = Append(tokens, w) /\ w \in Seq(Letters)
    BY <1>5, <1>8
  <2> HIDE DEF w
  <2>2. tokens' \in Seq(Seq(Letters))
    BY <1>3, <2>1
  <2>3. pos' \in 0..Len(str')
    BY <1>2, <1>3, <1>5
  <2>4. splitting' \in BOOLEAN
    BY <1>5, Zenon
  <2>5. element' \in 0..(Len(tokens') + 1) /\ joined' \in Seq(Letters \cup {Sep})
    <3>1. Len(tokens') \in Nat
      BY <2>2
    <3> QED
      BY <1>0, <1>5, <3>1 DEF StringsTypeOK
  <2> QED
    BY <1>3, <1>5, <2>2, <2>3, <2>4, <2>5 DEF StringsTypeOK
<1>10. SearchInv' /\ JoinInv'
  BY <1>5, Zenon DEF SearchInv, JoinInv
<1>11. SplitFindsTokens'
  <2>1. C' = C
    BY <1>7
  <2> HIDE DEF C, w
  <2>2. /\ Len(tokens') >= C'
        /\ \A k \in DOMAIN tokens' : k > C' => tokens'[k] = <<>>
        /\ \A b \in Starts(str') : WholeWord(b)'
    BY <1>7, <1>8, <2>1
  <2> QED
    BY <2>2 DEF SplitFindsTokens, WholeWord, UpTo, C
<1> QED
  BY <1>9, <1>10, <1>11 DEF StringsInv

\* The positions that are kept, some more, or none.
LEMMA KeptFacts ==
  ASSUME NEW S, str \in Seq(S)
  PROVE  /\ \A p : IsFiniteSet(Kept(str, p)) /\ Cardinality(Kept(str, p)) \in Nat
         /\ \A p \in Nat : \A k \in Kept(str, p) :
              Cardinality(Kept(str, k)) \in 1..Cardinality(Kept(str, p))
<1>1. DOMAIN str = 1..Len(str) /\ Len(str) \in Nat
  OBVIOUS
<1>2. IsFiniteSet(1..Len(str))
  BY <1>1, FS_Interval
<1>3. \A p : IsFiniteSet(Kept(str, p))
  <2> TAKE p
  <2>1. Kept(str, p) \in SUBSET (1..Len(str))
    BY <1>1 DEF Kept
  <2> QED
    BY <1>2, <2>1, FS_Subset
<1>4. \A p : Cardinality(Kept(str, p)) \in Nat
  BY <1>3, FS_CardinalityType
<1>5. ASSUME NEW p \in Nat, NEW k \in Kept(str, p)
      PROVE  Cardinality(Kept(str, k)) \in 1..Cardinality(Kept(str, p))
  <2>1. k \in Nat /\ k <= p /\ k \in Kept(str, k)
    BY <1>1 DEF Kept
  <2>2. Kept(str, k) \in SUBSET Kept(str, p)
    BY <1>1, <2>1 DEF Kept
  <2>3. Cardinality(Kept(str, k)) <= Cardinality(Kept(str, p))
    BY <1>3, <2>2, FS_Subset
  <2>4. Cardinality(Kept(str, k)) # 0
    BY <1>3, <2>1, FS_EmptySet
  <2> QED
    BY <1>4, <2>3, <2>4
<1> QED
  BY <1>3, <1>4, <1>5

\* Behind a word there are separators up to the next word.
LEMMA Gap ==
  ASSUME NEW S, str \in Seq(S), NEW n \in Nat, n = Len(str),
         NEW e \in Nat, NEW b \in Nat, e < b, b <= n + 1,
         e = 0 \/ e = n \/ str[e + 1] = Sep,
         \A k \in Starts(str) : ~(e < k /\ k < b)
  PROVE  \A k \in Nat : e < k /\ k < b => str[k] = Sep
<1> DEFINE T == {l \in Nat : e < l /\ l < b /\ str[l] # Sep}
<1>1. DOMAIN str = 1..n
  OBVIOUS
<1> SUFFICES ASSUME T # {} PROVE FALSE
  OBVIOUS
<1>2. PICK k \in T : \A l \in T : k <= l
  <2>1. T \in SUBSET Nat
    OBVIOUS
  <2> QED
    BY <2>1, Least, Zenon
<1>3. k \in Nat /\ e < k /\ k < b /\ str[k] # Sep
  BY <1>2
<1>4. k \in 1..n /\ k \in DOMAIN str /\ k \notin Starts(str)
  <2>1. k \in 1..n
    BY <1>3
  <2>2. k \notin Starts(str)
    BY <1>3, Zenon
  <2> QED
    BY <1>1, <2>1, <2>2
<1>5. k > 1 /\ str[k - 1] # Sep
  BY <1>3, <1>4 DEF Starts
<1>6. k - 1 \notin T
  BY <1>2, <1>3
<1>7. k = e + 1
  BY <1>3, <1>5, <1>6
<1>8. e # 0 /\ e # n
  BY <1>3, <1>4, <1>5, <1>7
<1> QED
  BY <1>3, <1>7, <1>8

\* There is only a word from b to f, and only separators between e and b.
WordAt(e, b, f) ==
  /\ e < b /\ b <= f /\ f <= Len(str)
  /\ \A k \in Nat : e < k /\ k < b => str[k] = Sep
  /\ \A k \in b..f : str[k] # Sep

\* What is kept up to a position in that word.
LEMMA KeptInWord ==
  ASSUME NEW S, str \in Seq(S), NEW e \in Nat, NEW b \in Nat, NEW f \in Nat, WordAt(e, b, f)
  PROVE  \A k \in b..f : /\ Kept(str, k) = Kept(str, e) \cup b..k
                         /\ Cardinality(Kept(str, k)) = Cardinality(Kept(str, e)) + (k - b) + 1
<1> SUFFICES ASSUME NEW k \in b..f
             PROVE  /\ Kept(str, k) = Kept(str, e) \cup b..k
                    /\ Cardinality(Kept(str, k)) = Cardinality(Kept(str, e)) + (k - b) + 1
  OBVIOUS
<1>0. PICK n \in Nat : n = Len(str)
  OBVIOUS
<1>1. /\ DOMAIN str = 1..n /\ e < b /\ b <= f /\ f <= n /\ b <= k /\ k <= f /\ k \in Nat
      /\ \A l \in Nat : e < l /\ l < b => str[l] = Sep
      /\ \A l \in b..f : str[l] # Sep
  BY <1>0 DEF WordAt
<1>2. Kept(str, k) = Kept(str, e) \cup b..k
  <2>1. ASSUME NEW l \in Kept(str, k) PROVE l \in Kept(str, e) \cup b..k
    <3>1. l \in 1..n /\ l <= k /\ str[l] # Sep
      BY <1>1 DEF Kept
    <3>2. l <= e \/ b <= l
      BY <1>1, <3>1
    <3> QED
      BY <1>1, <3>1, <3>2 DEF Kept
  <2>2. ASSUME NEW l \in Kept(str, e) PROVE l \in Kept(str, k)
    <3>1. l \in 1..n /\ l <= e /\ str[l] # Sep
      BY <1>1 DEF Kept
    <3>2. l <= k
      BY <1>1, <3>1
    <3> QED
      BY <1>1, <3>1, <3>2 DEF Kept
  <2>3. ASSUME NEW l \in b..k PROVE l \in Kept(str, k)
    <3>1. l \in 1..n /\ l <= k /\ l \in b..f
      BY <1>1
    <3> QED
      BY <1>1, <3>1 DEF Kept
  <2> QED
    BY <2>1, <2>2, <2>3, Zenon
<1>3. Kept(str, e) \cap b..k = {}
  <2> SUFFICES ASSUME NEW l \in Kept(str, e), l \in b..k PROVE FALSE
    OBVIOUS
  <2>1. l <= e
    BY DEF Kept
  <2> QED
    BY <1>1, <2>1
<1>4. IsFiniteSet(b..k) /\ Cardinality(b..k) = (k - b) + 1
  <2>1. b \in Int /\ k \in Int /\ ~(b > k)
    BY <1>1
  <2>2. IsFiniteSet(b..k) /\ Cardinality(b..k) = IF b > k THEN 0 ELSE k - b + 1
    BY <2>1, FS_Interval
  <2> QED
    BY <2>1, <2>2
<1>5. IsFiniteSet(Kept(str, e)) /\ Cardinality(Kept(str, e)) \in Nat
  BY KeptFacts
<1>6. Cardinality(Kept(str, e) \cup b..k) =
        Cardinality(Kept(str, e)) + Cardinality(b..k) - Cardinality(Kept(str, e) \cap b..k)
  BY <1>4, <1>5, FS_Union
<1>7. Cardinality(Kept(str, e) \cap b..k) = 0
  BY <1>3, FS_EmptySet
<1> QED
  BY <1>2, <1>4, <1>5, <1>6, <1>7

\* w is the next word behind e, from b to f.
Follows(e, w, b, f) ==
  /\ WordAt(e, b, f) /\ WordEnd(f) /\ Len(w) = (f - b) + 1
  /\ \A k \in 1..Len(w) : w[k] = str[(b - 1) + k]
  /\ Cardinality(UpTo(f)) = Cardinality(UpTo(e)) + 1

\* There is one until all words have been put together.
LEMMA NextWord ==
  ASSUME NEW S, str \in Seq(S), NEW e \in Nat, e <= Len(str), WordEnd(e),
         tokens \in Seq(Seq(Letters)), Len(tokens) >= Cardinality(Starts(str)),
         \A b \in Starts(str) : WholeWord(b),
         Cardinality(UpTo(e)) < Cardinality(Starts(str)),
         NEW w, w = tokens[Cardinality(UpTo(e)) + 1]
  PROVE  w \in Seq(Letters) /\ \E b \in Nat : \E f \in Nat : Follows(e, w, b, f)
<1>0. PICK n \in Nat : n = Len(str)
  OBVIOUS
<1> DEFINE m == Len(w)
<1>1. /\ DOMAIN str = 1..n /\ Starts(str) \subseteq 1..n /\ e <= n
      /\ e = 0 \/ e = n \/ str[e + 1] = Sep
  BY <1>0 DEF Starts, WordEnd
<1> DEFINE T == {l \in Starts(str) : e < l}
<1>2. T \in SUBSET Nat
  BY <1>1
<1>3. T # {}
  <2> SUFFICES ASSUME T = {} PROVE FALSE
    OBVIOUS
  <2>1. UpTo(e) = Starts(str)
    BY <1>1 DEF UpTo
  <2>2. Cardinality(UpTo(e)) \in Nat
    BY Words
  <2> QED
    BY <2>1, <2>2
<1>4. PICK b \in T : \A l \in T : b <= l
  BY <1>2, <1>3, Least, Zenon
<1>5. b \in Starts(str) /\ b \in 1..n /\ b \in Nat /\ e < b /\ str[b] # Sep
  BY <1>1, <1>4 DEF Starts
<1>6. \A k \in Starts(str) : ~(e < k /\ k < b)
  <2> SUFFICES ASSUME NEW k \in Starts(str), e < k, k < b PROVE FALSE
    OBVIOUS
  <2>1. k \in T /\ k \in Nat
    BY <1>1
  <2> QED
    BY <1>4, <1>5, <2>1
<1> HIDE DEF T
<1>7. \A k \in Nat : e < k /\ k < b => str[k] = Sep
  <2>1. b <= n + 1
    BY <1>5
  <2> QED
    BY <1>0, <1>1, <1>5, <1>6, <2>1, Gap
<1>8. UpTo(b) = UpTo(e) \cup {b} /\ b \notin UpTo(e)
  <2>1. ASSUME NEW k \in Starts(str) PROVE k <= b <=> k <= e \/ k = b
    <3>1. k \in Nat
      BY <1>1
    <3> QED
      BY <1>5, <1>6, <3>1
  <2>2. b \notin UpTo(e)
    BY <1>5 DEF UpTo
  <2> QED
    BY <1>5, <2>1, <2>2 DEF UpTo
<1>9. Cardinality(UpTo(b)) = Cardinality(UpTo(e)) + 1 /\ Cardinality(UpTo(e)) \in Nat
  BY <1>8, Words
<1>10. /\ w # <<>> /\ b + m <= n + 1 /\ SubSeq(str, b, (b + m) - 1) = w
       /\ Sep \notin Seqs!ToSet(w) /\ (b + m <= n => str[b + m] = Sep)
  <2>1. WholeWord(b) /\ tokens[Cardinality(UpTo(b))] = w
    BY <1>5, <1>9
  <2> QED
    BY <1>0, <2>1 DEF WholeWord
<1>11. w \in Seq(Letters)
  <2>1. Cardinality(Starts(str)) \in Nat
    <3>1. Starts(str) = UpTo(n)
      BY <1>1 DEF UpTo
    <3> QED
      BY <3>1, Words
  <2>2. Cardinality(UpTo(e)) + 1 \in 1..Len(tokens)
    BY <1>9, <2>1
  <2> QED
    BY <2>2
<1>12. m \in Nat \ {0} /\ DOMAIN w = 1..m
  BY <1>10, <1>11
<1>13. \A k \in 1..m : w[k] = str[(b - 1) + k]
  <2> DEFINE p == b - 1  q == (b + m) - 1
  <2>1. p \in Nat /\ q \in Nat /\ p < q /\ q <= Len(str) /\ q - p = m /\ p + 1 = b
    BY <1>0, <1>5, <1>10, <1>12
  <2>2. \A k \in 1..(q - p) : SubSeq(str, p + 1, q)[k] = str[p + k]
    <3> HIDE DEF p, q
    <3> QED
      BY <2>1, Substring
  <2> QED
    BY <1>10, <2>1, <2>2
<1>14. \A k \in b..((b + m) - 1) : str[k] # Sep
  <2> SUFFICES ASSUME NEW k \in b..((b + m) - 1) PROVE str[k] # Sep
    OBVIOUS
  <2>1. (k - b) + 1 \in 1..m /\ (b - 1) + ((k - b) + 1) = k
    BY <1>5, <1>12
  <2>2. w[(k - b) + 1] = str[k]
    BY <1>13, <2>1
  <2>3. w[(k - b) + 1] # Sep
    BY <1>10, <1>12, <2>1 DEF Seqs!ToSet
  <2> QED
    BY <2>2, <2>3
<1>15. UpTo((b + m) - 1) = UpTo(b)
  <2>1. ASSUME NEW k \in Starts(str), k <= (b + m) - 1 PROVE k <= b
    <3> SUFFICES ASSUME b < k PROVE FALSE
      BY <1>1, <1>5
    <3>1. k \in Nat /\ k - 1 \in b..((b + m) - 1) /\ k > 1
      BY <1>1, <1>5, <1>12, <2>1
    <3>2. str[k - 1] = Sep
      BY <3>1 DEF Starts
    <3> QED
      BY <1>14, <3>1, <3>2
  <2>2. ASSUME NEW k \in Starts(str), k <= b PROVE k <= (b + m) - 1
    BY <1>1, <1>5, <1>12, <2>2
  <2> QED
    BY <2>1, <2>2 DEF UpTo
<1>16. b + m = n + 1 \/ str[b + m] = Sep
  <2>1. b + m = n + 1 \/ b + m <= n
    <3>1. \A c, d \in Nat : c <= d + 1 => c = d + 1 \/ c <= d
      OBVIOUS
    <3>2. b + m \in Nat
      BY <1>5, <1>12
    <3> QED
      BY <1>10, <3>1, <3>2, Zenon
  <2> QED
    BY <1>10, <2>1, Zenon
<1>17. PICK f \in Nat : f = (b + m) - 1 /\ b <= f /\ f <= n /\ f + 1 = b + m /\ (f - b) + 1 = m
  <2>1. m \in Nat \ {0} /\ b \in Nat /\ b + m <= n + 1
    BY <1>5, <1>10, <1>12
  <2> HIDE DEF m
  <2>2. (b + m) - 1 \in Nat
    BY <2>1
  <2> QED
    BY <2>1, <2>2
<1>18. f = n \/ str[f + 1] = Sep
  <2>1. b + m = n + 1 => f = n
    BY <1>17
  <2> QED
    BY <1>16, <1>17, <2>1, Zenon
<1>19. WordAt(e, b, f)
  BY <1>0, <1>5, <1>7, <1>14, <1>17 DEF WordAt
<1>20. Cardinality(UpTo(f)) = Cardinality(UpTo(e)) + 1
  BY <1>9, <1>15, <1>17
<1>21. WordEnd(f)
  BY <1>0, <1>18, Zenon DEF WordEnd
<1>22. Follows(e, w, b, f)
  BY <1>13, <1>17, <1>19, <1>20, <1>21 DEF Follows
<1> QED
  BY <1>5, <1>11, <1>22

LEMMA Concatenated ==
  ASSUME NEW S, NEW s \in Seq(S), NEW w \in Seq(S)
  PROVE  /\ s \o w \in Seq(S) /\ Len(s \o w) = Len(s) + Len(w)
         /\ \A k \in 1..Len(s) : (s \o w)[k] = s[k]
         /\ \A k \in 1..Len(w) : (s \o w)[Len(s) + k] = w[k]
<1>1. /\ s \o w \in Seq(S) /\ Len(s \o w) = Len(s) + Len(w)
      /\ Len(s) \in Nat /\ Len(w) \in Nat
  OBVIOUS
<1>2. ASSUME NEW k \in 1..Len(s) PROVE (s \o w)[k] = s[k]
  OBVIOUS
<1>3. ASSUME NEW k \in 1..Len(w) PROVE (s \o w)[Len(s) + k] = w[k]
  OBVIOUS
<1> QED
  BY <1>1, <1>2, <1>3

\* It is put together with what is there already.
LEMMA GlueWord ==
  ASSUME NEW S, str \in Seq(S), NEW e \in Nat, e <= Len(str),
         NEW s \in Seq(Letters), Glued(e, s),
         tokens \in Seq(Seq(Letters)), Len(tokens) >= Cardinality(Starts(str)),
         \A b \in Starts(str) : WholeWord(b),
         Cardinality(UpTo(e)) < Cardinality(Starts(str)),
         NEW w, w = tokens[Cardinality(UpTo(e)) + 1]
  PROVE  /\ s \o w \in Seq(Letters)
         /\ \E f \in Nat : /\ f <= Len(str) /\ Glued(f, s \o w)
                           /\ Cardinality(UpTo(f)) = Cardinality(UpTo(e)) + 1
<1> DEFINE c == Cardinality(Kept(str, e))
<1>1. /\ WordEnd(e)
      /\ Len(s) = c /\ \A k \in Kept(str, e) : s[Cardinality(Kept(str, k))] = str[k]
  BY DEF Glued
<1>2. PICK b \in Nat, f \in Nat : w \in Seq(Letters) /\ Follows(e, w, b, f)
  BY <1>1, NextWord
<1>3. PICK m : m = Len(w)
  OBVIOUS
<1>4. /\ WordAt(e, b, f) /\ WordEnd(f) /\ m = (f - b) + 1
      /\ \A k \in 1..m : w[k] = str[(b - 1) + k]
      /\ Cardinality(UpTo(f)) = Cardinality(UpTo(e)) + 1
      /\ e < b /\ b <= f /\ f <= Len(str) /\ m \in Nat
  BY <1>2, <1>3 DEF Follows, WordAt
<1>5. w \in Seq(Letters) /\ DOMAIN w = 1..m /\ Len(w) = m
  BY <1>2, <1>3
<1>6. /\ s \o w \in Seq(Letters) /\ Len(s \o w) = Len(s) + m
      /\ \A k \in 1..Len(s) : (s \o w)[k] = s[k]
      /\ \A k \in 1..m : (s \o w)[Len(s) + k] = w[k]
  <2>1. /\ s \o w \in Seq(Letters) /\ Len(s \o w) = Len(s) + Len(w)
        /\ \A k \in 1..Len(s) : (s \o w)[k] = s[k]
        /\ \A k \in 1..Len(w) : (s \o w)[Len(s) + k] = w[k]
    <3>1. \A x, y \in Seq(Letters) :
            /\ x \o y \in Seq(Letters) /\ Len(x \o y) = Len(x) + Len(y)
            /\ \A k \in 1..Len(x) : (x \o y)[k] = x[k]
            /\ \A k \in 1..Len(y) : (x \o y)[Len(x) + k] = y[k]
      BY Concatenated
    <3> QED
      BY <1>5, <3>1, Zenon
  <2> QED
    BY <1>5, <2>1, Zenon
<1>7. c \in Nat /\ \A k \in Kept(str, e) : Cardinality(Kept(str, k)) \in 1..c
  BY KeptFacts
<1>8. \A k \in b..f : /\ Kept(str, k) = Kept(str, e) \cup b..k
                      /\ Cardinality(Kept(str, k)) = c + (k - b) + 1
  BY <1>4, KeptInWord
<1> HIDE DEF c
<1>9. Kept(str, f) = Kept(str, e) \cup b..f /\ Cardinality(Kept(str, f)) = c + m
  <2>1. f \in b..f
    BY <1>4
  <2>2. Kept(str, f) = Kept(str, e) \cup b..f /\ Cardinality(Kept(str, f)) = c + (f - b) + 1
    BY <1>8, <2>1
  <2>3. c + (f - b) + 1 = c + m
    BY <1>4, <1>7
  <2> QED
    BY <2>2, <2>3
<1>10. ASSUME NEW k \in Kept(str, f) PROVE (s \o w)[Cardinality(Kept(str, k))] = str[k]
  <2>1. CASE k \in Kept(str, e)
    <3>1. Cardinality(Kept(str, k)) \in 1..Len(s) /\ s[Cardinality(Kept(str, k))] = str[k]
      BY <1>1, <1>7, <2>1
    <3> QED
      BY <1>6, <3>1
  <2>2. CASE k \in b..f
    <3>1. PICK l \in 1..m : l = (k - b) + 1 /\ (b - 1) + l = k
      BY <1>4, <2>2
    <3>2. Cardinality(Kept(str, k)) = Len(s) + l
      <4>1. Cardinality(Kept(str, k)) = c + (k - b) + 1
        BY <1>8, <2>2
      <4>2. c + (k - b) + 1 = c + l
        BY <1>7, <2>2, <3>1
      <4> QED
        BY <1>1, <4>1, <4>2
    <3>3. (s \o w)[Len(s) + l] = w[l] /\ w[l] = str[k]
      BY <1>4, <1>6, <3>1
    <3> QED
      BY <3>2, <3>3
  <2> QED
    BY <1>9, <2>1, <2>2
<1>11. Glued(f, s \o w)
  <2>1. Len(s \o w) = Cardinality(Kept(str, f))
    BY <1>1, <1>6, <1>9
  <2> QED
    BY <1>4, <1>10, <2>1, Zenon DEF Glued
<1> QED
  BY <1>4, <1>6, <1>11

\* Behind the last word there are separators.
LEMMA GluedAll ==
  ASSUME NEW S, str \in Seq(S), NEW n \in Nat, n = Len(str), NEW e \in Nat, e <= n,
         NEW s, Glued(e, s), Cardinality(UpTo(e)) = Cardinality(Starts(str))
  PROVE  Kept(str, n) = Kept(str, e)
<1>1. DOMAIN str = 1..n /\ Starts(str) = UpTo(n)
  BY DEF Starts, UpTo
<1>2. UpTo(e) = Starts(str)
  <2>1. IsFiniteSet(Starts(str)) /\ UpTo(e) \in SUBSET Starts(str)
    BY <1>1, Words DEF UpTo
  <2> QED
    BY <2>1, FS_Subset
<1>3. \A k \in Starts(str) : ~(e < k /\ k < n + 1)
  <2> SUFFICES ASSUME NEW k \in Starts(str), e < k PROVE FALSE
    OBVIOUS
  <2>1. k \in Nat /\ k <= e
    BY <1>1, <1>2 DEF UpTo, Starts
  <2> QED
    BY <2>1
<1>4. e = 0 \/ e = n \/ str[e + 1] = Sep
  BY DEF Glued, WordEnd
<1>5. \A k \in Nat : e < k /\ k < n + 1 => str[k] = Sep
  <2>1. n + 1 \in Nat /\ e < n + 1 /\ n + 1 <= n + 1
    OBVIOUS
  <2> QED
    BY <1>3, <1>4, <2>1, Gap
<1>6. ASSUME NEW k \in Kept(str, n) PROVE k \in Kept(str, e)
  <2>1. k \in 1..n /\ str[k] # Sep
    BY <1>1 DEF Kept
  <2>2. ~(e < k)
    BY <1>5, <2>1
  <2> QED
    BY <1>1, <2>1, <2>2 DEF Kept
<1>7. ASSUME NEW k \in Kept(str, e) PROVE k \in Kept(str, n)
  BY <1>1 DEF Kept
<1> QED
  BY <1>6, <1>7

\* What SplitFindsTokens says when split() has returned.
LEMMA SplitFacts ==
  ASSUME StringsTypeOK, SplitFindsTokens, ~splitting
  PROVE  /\ str \in Seq(Letters \cup {Sep}) /\ Len(str) \in Nat
         /\ tokens \in Seq(Seq(Letters)) /\ DOMAIN tokens = 1..Len(tokens)
         /\ Cardinality(Starts(str)) \in Nat /\ Len(tokens) >= Cardinality(Starts(str))
         /\ \A k \in DOMAIN tokens : k > Cardinality(Starts(str)) => tokens[k] = <<>>
         /\ \A b \in Starts(str) : WholeWord(b)
<1>1. /\ str \in Seq(Letters \cup {Sep}) /\ Len(str) \in Nat /\ DOMAIN str = 1..Len(str)
      /\ tokens \in Seq(Seq(Letters)) /\ DOMAIN tokens = 1..Len(tokens)
  BY DEF StringsTypeOK
<1>2. /\ Len(tokens) >= Cardinality(Starts(str))
      /\ \A k \in DOMAIN tokens : k > Cardinality(Starts(str)) => tokens[k] = <<>>
  BY DEF SplitFindsTokens
<1>3. \A b \in Starts(str) : WholeWord(b)
  BY DEF SplitFindsTokens, WholeWord, UpTo
<1>4. Cardinality(Starts(str)) \in Nat
  <2>1. Starts(str) = UpTo(Len(str))
    BY <1>1 DEF Starts, UpTo
  <2> QED
    BY <1>1, <2>1, Words
<1> QED
  BY <1>1, <1>2, <1>3, <1>4

LEMMA SameString ==
  ASSUME str' = str
  PROVE  \A e, s : (Glued(e, s)' <=> Glued(e, s)) /\ UpTo(e)' = UpTo(e)
BY Zenon DEF Glued, WordEnd, Kept, UpTo, Starts

\* While join() runs, all but its own variables stand still.
LEMMA OnlyJoin ==
  ASSUME StringsInv, UNCHANGED <<str, pos, tokens, splitting>>,
         element' \in 0..(Len(tokens) + 1), joined' \in Seq(Letters \cup {Sep}), JoinInv'
  PROVE  StringsInv'
<1>1. str' = str /\ pos' = pos /\ tokens' = tokens /\ splitting' = splitting
  OBVIOUS
<1>2. StringsTypeOK'
  <2>1. splitting' \in BOOLEAN
    BY <1>1, Zenon DEF StringsInv, StringsTypeOK
  <2>2. str' \in Seq(Letters \cup {Sep}) /\ pos' \in 0..Len(str') /\ tokens' \in Seq(Seq(Letters))
    BY <1>1 DEF StringsInv, StringsTypeOK
  <2> QED
    BY <1>1, <2>1, <2>2, Zenon DEF StringsTypeOK
<1>3. SearchInv'
  <2>1. SearchInv
    BY DEF StringsInv
  <2>2. \A b : WholeWord(b)' <=> WholeWord(b)
    BY <1>1 DEF WholeWord, UpTo, Starts
  <2>3. UpTo(pos)' = UpTo(pos)
    BY <1>1 DEF UpTo, Starts
  <2> QED
    BY <1>1, <2>1, <2>2, <2>3 DEF SearchInv
<1>4. SplitFindsTokens'
  <2>1. SplitFindsTokens
    BY DEF StringsInv
  <2>2. CASE splitting
    <3>1. splitting'
      BY <1>1, <2>2, Zenon
    <3> QED
      BY <3>1, Zenon DEF SplitFindsTokens
  <2>3. CASE ~splitting
    <3>1. /\ Len(tokens') >= Cardinality(Starts(str'))
          /\ \A k \in DOMAIN tokens' : k > Cardinality(Starts(str')) => tokens'[k] = <<>>
      BY <1>1, <2>1, <2>3 DEF SplitFindsTokens
    <3>2. ASSUME NEW b \in Starts(str)
          PROVE  LET word == tokens[Cardinality({k \in Starts(str) : k <= b})]
                     e == b + Len(word)
                 IN  /\ word # <<>> /\ e <= Len(str) + 1
                     /\ SubSeq(str, b, e - 1) = word
                     /\ Sep \notin Seqs!ToSet(word)
                     /\ e <= Len(str) => str[e] = Sep
      BY <2>1, <2>3, Zenon DEF SplitFindsTokens
    <3> QED
      BY <1>1, <3>1, <3>2 DEF SplitFindsTokens
  <2> QED
    BY <2>2, <2>3
<1> QED
  BY <1>2, <1>3, <1>4 DEF StringsInv

LEMMA MoreLetters == \A z \in Seq(Letters) : z \in Seq(Letters \cup {Sep})
OBVIOUS

\* join() is called.
LEMMA JoinTokensStep == StringsInv /\ JoinTokens => StringsInv'
<1> SUFFICES ASSUME StringsInv, JoinTokens PROVE StringsInv'
  OBVIOUS
<1>1. /\ ~splitting /\ element' = 1 /\ joined' = <<>>
      /\ str' = str /\ pos' = pos /\ tokens' = tokens /\ splitting' = splitting
  BY DEF JoinTokens
<1>2. /\ str \in Seq(Letters \cup {Sep}) /\ tokens \in Seq(Seq(Letters))
      /\ Len(tokens) \in Nat
  BY DEF StringsInv, StringsTypeOK
<1>3. Glued(0, <<>>) /\ Cardinality(UpTo(0)) = WordsBefore(1)
  <2>1. Kept(str, 0) = {} /\ UpTo(0) = {}
    BY <1>2 DEF Kept, UpTo, Starts
  <2>2. Cardinality(Kept(str, 0)) = 0 /\ Cardinality(UpTo(0)) = 0
    BY <2>1, FS_EmptySet
  <2>3. Glued(0, <<>>)
    BY <2>1, <2>2 DEF Glued, WordEnd
  <2>4. WordsBefore(1) = 0
    <3>1. Cardinality(Starts(str)) \in Nat
      BY <1>1, SplitFacts DEF StringsInv
    <3> QED
      BY <3>1 DEF WordsBefore
  <2> QED
    BY <2>2, <2>3, <2>4
<1>4. JoinInv'
  <2>1. \E e \in 0..Len(str), s \in Seq(Letters) :
          /\ Glued(e, s) /\ Cardinality(UpTo(e)) = WordsBefore(1)
          /\ <<>> = IF 1 > Len(tokens) /\ tokens # <<>> THEN Append(s, Sep) ELSE s
    <3>1. 0 \in 0..Len(str) /\ <<>> \in Seq(Letters)
      BY <1>2
    <3>2. ~(1 > Len(tokens) /\ tokens # <<>>)
      BY <1>2
    <3> QED
      BY <1>3, <3>1, <3>2, Zenon
  <2>2. \A e, s : (Glued(e, s)' <=> Glued(e, s)) /\ UpTo(e)' = UpTo(e)
    BY <1>1, SameString
  <2> QED
    BY <1>1, <2>1, <2>2, Zenon DEF JoinInv, WordsBefore, JoinReturns
<1>5. element' \in 0..(Len(tokens) + 1) /\ joined' \in Seq(Letters \cup {Sep})
  BY <1>1, <1>2
<1> QED
  BY <1>1, <1>4, <1>5, OnlyJoin

\* join() appends a token.
LEMMA JoinElementStep == StringsInv /\ JoinElement => StringsInv'
<1> SUFFICES ASSUME StringsInv, JoinElement PROVE StringsInv'
  OBVIOUS
<1>0. /\ element \in DOMAIN tokens
      /\ joined' = joined \o tokens[element] \o (IF AtSeparator(element) THEN <<Sep>> ELSE <<>>)
      /\ element' = element + 1 /\ UNCHANGED <<str, pos, tokens, splitting>>
  BY Zenon DEF JoinElement, Extended
<1> DEFINE m == element
           w == tokens[m]
           C == Cardinality(Starts(str))
           end == IF AtSeparator(m) THEN <<Sep>> ELSE <<>>
<1>1. /\ m \in DOMAIN tokens /\ joined' = joined \o w \o end /\ element' = m + 1
      /\ str' = str /\ pos' = pos /\ tokens' = tokens /\ splitting' = splitting
  BY <1>0
<1>2. tokens # <<>> /\ ~splitting /\ m # 0
  BY <1>1 DEF StringsInv, StringsTypeOK, JoinInv
<1>3. /\ str \in Seq(Letters \cup {Sep}) /\ Len(str) \in Nat
      /\ tokens \in Seq(Seq(Letters)) /\ m \in 1..Len(tokens)
      /\ C \in Nat /\ Len(tokens) >= C
      /\ \A k \in DOMAIN tokens : k > C => tokens[k] = <<>>
      /\ \A b \in Starts(str) : WholeWord(b)
  BY <1>1, <1>2, SplitFacts DEF StringsInv
<1>4. PICK e \in 0..Len(str), s \in Seq(Letters) :
           Glued(e, s) /\ Cardinality(UpTo(e)) = WordsBefore(m) /\ joined = s
  <2>1. ~JoinReturns
    BY <1>3 DEF JoinReturns
  <2> QED
    BY <1>2, <2>1 DEF StringsInv, JoinInv
<1> HIDE DEF m
<1>5. /\ s \o w \in Seq(Letters)
      /\ \E f \in 0..Len(str) : Glued(f, s \o w) /\ Cardinality(UpTo(f)) = WordsBefore(m + 1)
  <2>1. CASE m <= C
    <3>1. Cardinality(UpTo(e)) = m - 1 /\ WordsBefore(m + 1) = m
      BY <1>3, <1>4, <2>1 DEF WordsBefore
    <3>2. /\ Cardinality(UpTo(e)) < C /\ w = tokens[Cardinality(UpTo(e)) + 1]
          /\ Cardinality(UpTo(e)) + 1 = m /\ Len(tokens) >= C /\ e \in Nat /\ e <= Len(str)
      BY <1>3, <2>1, <3>1
    <3>3. /\ s \o w \in Seq(Letters)
          /\ \E f \in Nat : /\ f <= Len(str) /\ Glued(f, s \o w)
                            /\ Cardinality(UpTo(f)) = Cardinality(UpTo(e)) + 1
      <4> HIDE DEF w
      <4> QED
        BY <1>3, <1>4, <3>2, GlueWord
    <3> HIDE DEF w
    <3> QED
      BY <1>3, <3>1, <3>2, <3>3
  <2>2. CASE m > C
    <3>1. w = <<>>
      BY <1>1, <1>3, <2>2
    <3>2. s \o w = s
      BY <3>1
    <3>3. WordsBefore(m) = C /\ WordsBefore(m + 1) = C
      BY <1>3, <2>2 DEF WordsBefore
    <3> HIDE DEF w
    <3> QED
      BY <1>4, <3>2, <3>3
  <2> QED
    BY <1>3, <2>1, <2>2
<1>6. PICK f \in 0..Len(str) :
           Glued(f, s \o w) /\ Cardinality(UpTo(f)) = WordsBefore(m + 1)
  BY <1>5
<1>7. joined' = IF m + 1 > Len(tokens) THEN Append(s \o w, Sep) ELSE s \o w
  <2>1. AtSeparator(m) <=> m + 1 > Len(tokens)
    BY <1>3 DEF AtSeparator
  <2>2. joined' = (s \o w) \o end
    BY <1>1, <1>4
  <2> DEFINE z == s \o w
  <2>3. z \o <<>> = z /\ z \o <<Sep>> = Append(z, Sep)
    <3>1. z \in Seq(Letters)
      BY <1>5
    <3> HIDE DEF z
    <3> QED
      BY <3>1
  <2> HIDE DEF z
  <2> QED
    BY <2>1, <2>2, <2>3 DEF z
<1>8. JoinInv'
  <2> DEFINE z == s \o w
  <2>1. z \in Seq(Letters) /\ Glued(f, z) /\ m + 1 # 0
    BY <1>3, <1>5, <1>6
  <2>2. joined' = IF m + 1 > Len(tokens) THEN Append(z, Sep) ELSE z
    BY <1>7
  <2> HIDE DEF z
  <2>3. \E g \in 0..Len(str), t \in Seq(Letters) :
          /\ Glued(g, t) /\ Cardinality(UpTo(g)) = WordsBefore(m + 1)
          /\ joined' = IF m + 1 > Len(tokens) /\ tokens # <<>> THEN Append(t, Sep) ELSE t
    BY <1>2, <1>6, <2>1, <2>2, Zenon
  <2>4. \A g, t : (Glued(g, t)' <=> Glued(g, t)) /\ UpTo(g)' = UpTo(g)
    BY <1>1, SameString
  <2> QED
    BY <1>1, <1>2, <2>3, <2>4, Zenon DEF JoinInv, WordsBefore, JoinReturns
<1>9. element' \in 0..(Len(tokens) + 1) /\ joined' \in Seq(Letters \cup {Sep})
  <2> DEFINE z == s \o w
  <2>1. z \in Seq(Letters \cup {Sep}) /\ Append(z, Sep) \in Seq(Letters \cup {Sep})
    <3>1. z \in Seq(Letters)
      BY <1>5
    <3> HIDE DEF z
    <3> QED
      BY <3>1, MoreLetters
  <2>2. joined' = Append(z, Sep) \/ joined' = z
    BY <1>7
  <2> HIDE DEF z
  <2>3. m + 1 \in 0..(Len(tokens) + 1)
    BY <1>3
  <2> QED
    BY <1>1, <2>1, <2>2, <2>3, Zenon
<1> QED
  BY <1>1, <1>8, <1>9, OnlyJoin

LEMMA NextStrings == StringsInv /\ [StringsNext]_stringVars => StringsInv'
<1> SUFFICES ASSUME StringsInv, [StringsNext]_stringVars PROVE StringsInv'
  OBVIOUS
<1>1. ASSUME NEW n \in 0..MaxLength, NEW s \in [1..n -> Letters \cup {Sep}], SplitCall(s)
      PROVE  StringsInv'
  BY <1>1, CallSplit
<1>2. CASE UNCHANGED stringVars
  <2>1. /\ UNCHANGED <<str, pos, tokens, splitting>>
        /\ element' = element /\ joined' = joined /\ str' = str /\ tokens' = tokens
        /\ splitting' = splitting
    BY <1>2 DEF stringVars
  <2>2. JoinInv'
    <3>1. \A e, s : (Glued(e, s)' <=> Glued(e, s)) /\ UpTo(e)' = UpTo(e)
      BY <2>1, SameString
    <3>2. JoinInv
      BY DEF StringsInv
    <3> QED
      BY <2>1, <3>1, <3>2 DEF JoinInv, WordsBefore, JoinReturns
  <2>3. element' \in 0..(Len(tokens) + 1) /\ joined' \in Seq(Letters \cup {Sep})
    BY <2>1 DEF StringsInv, StringsTypeOK
  <2> QED
    BY <2>1, <2>2, <2>3, OnlyJoin
<1> QED
  BY <1>1, <1>2, FindStep, RestStep, JoinTokensStep, JoinElementStep DEF StringsNext

\* Every variable of Strings keeps its type.
THEOREM StringsTypeCorrect == StringsSpec => []StringsTypeOK
<1>1. StringsInv => StringsTypeOK
  BY DEF StringsInv
<1> QED
  BY <1>1, InitStrings, NextStrings, PTL DEF StringsSpec

\* split() returns the words of the string in their order, each one whole, and nothing
\* else but empty tokens behind them, for strings of any length (string.h:35-46).
THEOREM SplitIsComplete == StringsSpec => []SplitFindsTokens
<1>1. StringsInv => SplitFindsTokens
  BY DEF StringsInv
<1> QED
  BY <1>1, InitStrings, NextStrings, PTL DEF StringsSpec

\* unquote() takes off a pair of quotes, and nothing else.
LEMMA QuotesTakenOff ==
  ASSUME NEW S, NEW s \in Seq(S), NEW front, NEW back,
         NEW inner, inner = unquote(s, front, back)
  PROVE  \/ inner = s /\ ~is_quoted(s, front, back)
         \/ s = <<front>> \o inner \o <<back>>
         \/ inner = <<>> /\ s = <<front>> /\ front = back
<1>1. CASE ~is_quoted(s, front, back)
  BY <1>1 DEF unquote
<1>2. CASE is_quoted(s, front, back)
  <2>1. PICK n \in Nat : n = Len(s)
    OBVIOUS
  <2>2. s # <<>> /\ s[1] = front /\ s[n] = back /\ n # 0 /\ DOMAIN s = 1..n
    BY <1>2, <2>1 DEF is_quoted, Seqs!Last
  <2>3. inner = SubSeq(s, 2, IF n = 1 THEN 1 ELSE n - 1)
    BY <1>2, <2>1 DEF unquote
  <2>4. CASE n = 1
    <3>1. inner = <<>>
      BY <2>3, <2>4
    <3>2. s = <<front>>
      BY <2>1, <2>2, <2>4
    <3> QED
      BY <2>2, <2>4, <3>1, <3>2
  <2>5. CASE n # 1
    <3>1. inner = SubSeq(s, 2, n - 1) /\ n >= 2
      BY <2>2, <2>3, <2>5
    <3>2. inner \in Seq(S) /\ Len(inner) = n - 2 /\ \A k \in 1..(n - 2) : inner[k] = s[k + 1]
      BY <2>1, <2>2, <3>1
    <3> DEFINE z == <<front>> \o inner \o <<back>>
    <3>3. Len(z) = n /\ z \in Seq(S)
      BY <2>1, <2>2, <3>1, <3>2
    <3>4. ASSUME NEW k \in 1..n PROVE z[k] = s[k]
      BY <2>1, <2>2, <3>1, <3>2, <3>4
    <3>5. z = s
      <4> HIDE DEF z
      <4> QED
        BY <2>1, <3>3, <3>4
    <3> QED
      BY <3>5
  <2> QED
    BY <2>4, <2>5
<1> QED
  BY <1>1, <1>2

\* All of what join() has put together is kept, but for the separator at the end.
LEMMA KeptOfJoined ==
  ASSUME NEW s \in Seq(Letters), NEW n \in Nat, n = Len(s),
         NEW z, z = s \/ z = Append(s, Sep)
  PROVE  /\ Kept(z, Len(z)) = 1..n /\ Cardinality(1..n) = n
         /\ \A k \in 1..n : z[k] = s[k] /\ Kept(z, k) = 1..k /\ Cardinality(1..k) = k
<1>1. /\ DOMAIN s = 1..n /\ Sep \notin Letters
      /\ \A k \in 1..n : s[k] # Sep /\ z[k] = s[k]
  BY StringsAssumption
<1>2. /\ n <= Len(z) /\ Len(z) \in Nat /\ DOMAIN z = 1..Len(z)
      /\ Len(z) = n \/ (Len(z) = n + 1 /\ z[n + 1] = Sep)
  OBVIOUS
<1>3. ASSUME NEW p \in Nat, NEW k PROVE k \in Kept(z, p) <=> k \in 1..n /\ k <= p
  <2>1. k \in Kept(z, p) <=> k \in 1..Len(z) /\ k <= p /\ z[k] # Sep
    BY <1>2 DEF Kept
  <2>2. k \in 1..Len(z) <=> k \in 1..n \/ (k = n + 1 /\ Len(z) = n + 1)
    <3>1. PICK q \in Nat : q = Len(z)
      BY <1>2
    <3>2. q = n \/ q = n + 1
      BY <1>2, <3>1
    <3>3. k \in 1..q <=> k \in 1..n \/ (k = n + 1 /\ q = n + 1)
      BY <3>2
    <3> QED
      BY <3>1, <3>3, Zenon
  <2>3. k = n + 1 /\ Len(z) = n + 1 => z[k] = Sep
    BY <1>2
  <2>4. k \in 1..n => z[k] # Sep
    BY <1>1
  <2> QED
    BY <2>1, <2>2, <2>3, <2>4, Zenon
<1>4. Kept(z, Len(z)) = 1..n
  <2>1. \A k : k \in Kept(z, Len(z)) <=> k \in 1..n /\ k <= Len(z)
    BY <1>2, <1>3, Zenon
  <2>2. \A k \in 1..n : k <= Len(z)
    <3>1. PICK q \in Nat : q = Len(z) /\ n <= q
      BY <1>2
    <3>2. \A k \in 1..n : k <= q
      BY <3>1
    <3> QED
      BY <3>1, <3>2, Zenon
  <2> QED
    BY <2>1, <2>2, Zenon
<1>5. ASSUME NEW q \in 1..n PROVE Kept(z, q) = 1..q
  <2>1. \A k : k \in Kept(z, q) <=> k \in 1..q
    BY <1>3
  <2> QED
    BY <2>1, Zenon
<1>6. \A k \in Nat : Cardinality(1..k) = k
  <2> SUFFICES ASSUME NEW k \in Nat PROVE Cardinality(1..k) = k
    OBVIOUS
  <2>1. Cardinality(1..k) = IF 1 > k THEN 0 ELSE k - 1 + 1
    BY FS_Interval
  <2> QED
    BY <2>1
<1> QED
  BY <1>1, <1>4, <1>5, <1>6

\* Whatever was split, join() gives its characters back in their order, and unquote()
\* takes off a pair of quotes only (string.h:18-46, 61-74), for strings of any length.
THEOREM JoinKeepsAll == StringsSpec => []NoCharacterLost
<1>1. StringsInv => NoCharacterLost
  <2> SUFFICES ASSUME StringsInv, JoinReturns
               PROVE  /\ Cardinality(Kept(joined, Len(joined))) = Cardinality(Kept(str, Len(str)))
                      /\ \A k \in Kept(joined, Len(joined)), l \in Kept(str, Len(str)) :
                           Cardinality(Kept(joined, k)) = Cardinality(Kept(str, l))
                             => joined[k] = str[l]
                      /\ \A front, back \in Letters \cup {Sep} :
                           LET inner == unquote(str, front, back)
                           IN  \/ inner = str /\ ~is_quoted(str, front, back)
                               \/ str = <<front>> \o inner \o <<back>>
                               \/ inner = <<>> /\ str = <<front>> /\ front = back
    BY Zenon DEF NoCharacterLost
  <2> DEFINE C == Cardinality(Starts(str))
  <2>1. element \in Nat /\ element > Len(tokens) /\ Len(tokens) \in Nat /\ element # 0
    BY DEF JoinReturns, StringsInv, StringsTypeOK
  <2>2. ~splitting
    BY <2>1 DEF StringsInv, StringsTypeOK, JoinInv
  <2>3. /\ str \in Seq(Letters \cup {Sep}) /\ Len(str) \in Nat /\ C \in Nat
        /\ C <= Len(tokens)
    BY <2>2, SplitFacts DEF StringsInv
  <2>4. PICK e \in 0..Len(str), s \in Seq(Letters) :
             /\ Glued(e, s) /\ Cardinality(UpTo(e)) = WordsBefore(element)
             /\ joined = s \/ joined = Append(s, Sep)
    BY <2>1, Zenon DEF StringsInv, JoinInv
  <2>5. Cardinality(UpTo(e)) = C
    BY <2>1, <2>3, <2>4 DEF WordsBefore
  <2>6. Kept(str, Len(str)) = Kept(str, e)
    <3>1. e \in Nat /\ e <= Len(str)
      BY <2>3
    <3> QED
      BY <2>3, <2>4, <2>5, <3>1, GluedAll
  <2>7. PICK n \in Nat : n = Len(s)
    OBVIOUS
  <2>8. /\ n = Cardinality(Kept(str, e))
        /\ \A k \in Kept(str, e) : s[Cardinality(Kept(str, k))] = str[k]
    BY <2>4, <2>7 DEF Glued
  <2>9. /\ Kept(joined, Len(joined)) = 1..n /\ Cardinality(1..n) = n
        /\ \A k \in 1..n : /\ joined[k] = s[k] /\ Kept(joined, k) = 1..k
                           /\ Cardinality(1..k) = k
    BY <2>4, <2>7, KeptOfJoined
  <2>10. Cardinality(Kept(joined, Len(joined))) = Cardinality(Kept(str, Len(str)))
    BY <2>6, <2>8, <2>9
  <2>11. \A k \in Kept(joined, Len(joined)), l \in Kept(str, Len(str)) :
           Cardinality(Kept(joined, k)) = Cardinality(Kept(str, l)) => joined[k] = str[l]
    BY <2>6, <2>8, <2>9
  <2>12. \A front, back \in Letters \cup {Sep} :
           LET inner == unquote(str, front, back)
           IN  \/ inner = str /\ ~is_quoted(str, front, back)
               \/ str = <<front>> \o inner \o <<back>>
               \/ inner = <<>> /\ str = <<front>> /\ front = back
    <3> SUFFICES ASSUME NEW front \in Letters \cup {Sep}, NEW back \in Letters \cup {Sep}
                 PROVE  LET inner == unquote(str, front, back)
                        IN  \/ inner = str /\ ~is_quoted(str, front, back)
                            \/ str = <<front>> \o inner \o <<back>>
                            \/ inner = <<>> /\ str = <<front>> /\ front = back
      BY Zenon
    <3>1. PICK inner : inner = unquote(str, front, back)
      OBVIOUS
    <3>2. \/ inner = str /\ ~is_quoted(str, front, back)
          \/ str = <<front>> \o inner \o <<back>>
          \/ inner = <<>> /\ str = <<front>> /\ front = back
      <4> DEFINE Chars == Letters \cup {Sep}
      <4>1. str \in Seq(Chars)
        BY <2>3
      <4> HIDE DEF Chars
      <4> QED
        BY <3>1, <4>1, QuotesTakenOff
    <3> QED
      BY <3>1, <3>2, Zenon
  <2> QED
    BY <2>10, <2>11, <2>12, Zenon
<1> QED
  BY <1>1, InitStrings, NextStrings, PTL DEF StringsSpec

------------------------------------------------------------------------------
(* BaseThread: a handle names the thread of one joinable object as long as *)
(* the program copies none, for it is then not given out again before that *)
(* object is joined.                                                       *)

USE BaseThreadAssumption

\* A thread has one handle, and threads are numbered up to `starts`.
NamesInv ==
  /\ \A h \in Handles : named[h] <= starts
  /\ \A g, h \in Handles : named[g] = named[h] /\ named[h] # 0 => g = h

\* A joinable object has the handle of its thread, and no other object has it.
ObjectsInv ==
  /\ \A o \in Variables : var[o].joinable =>
       var[o].id \in Handles /\ var[o].stands # 0 /\ named[var[o].id] = var[o].stands
  /\ \A o, p \in Variables :
       var[o].joinable /\ var[p].joinable /\ var[o].stands = var[p].stands => o = p

\* A join() in progress is the only one of its object, which has not changed.
JoinsInv ==
  /\ \A c \in Owners : joining[c] # NotJoining =>
       /\ joining[c].o \in Variables
       /\ var[joining[c].o] = [id |-> joining[c].id, joinable |-> TRUE,
                               stands |-> joining[c].stands]
  /\ \A c, d \in Owners :
       joining[c] # NotJoining /\ joining[d] # NotJoining /\ joining[c].o = joining[d].o
         => c = d

Disciplined == NamesInv /\ ObjectsInv /\ JoinsInv /\ verdict = "ok"

BaseThreadInv == BaseThreadTypeOK /\ (misuse = {} => Disciplined)

------------------------------------------------------------------------------

LEMMA InitBaseThread == BaseThreadInit => BaseThreadInv
  BY DEF BaseThreadInit, BaseThreadInv, BaseThreadTypeOK, Disciplined, NamesInv, ObjectsInv,
         JoinsInv, Default, NotJoining

\* Every step keeps the types.
LEMMA BaseThreadTypes == BaseThreadTypeOK /\ [BaseThreadNext]_btVars => BaseThreadTypeOK'
<1> SUFFICES ASSUME BaseThreadTypeOK, [BaseThreadNext]_btVars PROVE BaseThreadTypeOK'
  OBVIOUS
<1> USE DEF BaseThreadTypeOK, Default, NotJoining
<1>1. ASSUME NEW c \in Owners, NEW o \in Variables, CreateFails(c, o)
      PROVE BaseThreadTypeOK'
  BY <1>1 DEF CreateFails
<1>2. ASSUME NEW c \in Owners, NEW o \in Variables, NEW h \in Handles, CreateThread(c, o, h)
      PROVE BaseThreadTypeOK'
  BY <1>2 DEF CreateThread
<1>3. ASSUME NEW c \in Owners, NEW o \in Variables, NEW p \in Variables, Copy(c, o, p)
      PROVE BaseThreadTypeOK'
  BY <1>3 DEF Copy
<1>4. ASSUME NEW c \in Owners, NEW o \in Variables, JoinCall(c, o) PROVE BaseThreadTypeOK'
  BY <1>4 DEF JoinCall
<1>5. ASSUME NEW c \in Owners, JoinDone(c) PROVE BaseThreadTypeOK'
  BY <1>5, ZenonT(30) DEF JoinDone, Joinable
<1>6. ASSUME NEW c \in Owners, JoinUndefined(c) PROVE BaseThreadTypeOK'
  BY <1>6 DEF JoinUndefined
<1>7. ASSUME NEW n \in 1..MaxStarts, Exit(n) PROVE BaseThreadTypeOK'
  BY <1>7 DEF Exit
<1>8. CASE UNCHANGED btVars
  BY <1>8 DEF btVars
<1> QED
  BY <1>1, <1>2, <1>3, <1>4, <1>5, <1>6, <1>7, <1>8 DEF BaseThreadNext

\* What the program has done is not forgotten.
LEMMA MisuseGrows == [BaseThreadNext]_btVars => misuse \subseteq misuse'
  BY DEF BaseThreadNext, btVars, CreateFails, CreateThread, Copy, JoinCall, JoinDone,
         JoinUndefined, Exit

------------------------------------------------------------------------------
(* One lemma per action that a disciplined program takes. *)

LEMMA CreateFailsStep ==
  ASSUME BaseThreadTypeOK, Disciplined, NEW c \in Owners, NEW o \in Variables,
         CreateFails(c, o)
  PROVE  Disciplined'
<1> USE DEF BaseThreadTypeOK, Disciplined, CreateFails
<1>1. \A p \in Variables : p # o => var'[p] = var[p]
  OBVIOUS
<1>2. ~var'[o].joinable
  BY DEF Default
<1>3. NamesInv'
  BY DEF NamesInv
<1>4. ObjectsInv'
  BY <1>1, <1>2 DEF ObjectsInv
<1>5. JoinsInv'
  BY <1>1 DEF JoinsInv, Free
<1> QED
  BY <1>3, <1>4, <1>5

LEMMA CreateThreadStep ==
  ASSUME BaseThreadTypeOK, Disciplined, NEW c \in Owners, NEW o \in Variables,
         NEW h \in Handles, CreateThread(c, o, h)
  PROVE  Disciplined'
<1> USE DEF BaseThreadTypeOK, Disciplined, CreateThread
<1>1. /\ var'[o] = [id |-> h, joinable |-> TRUE, stands |-> starts + 1]
      /\ \A p \in Variables : p # o => var'[p] = var[p]
  OBVIOUS
<1>2. named[h] = 0 /\ named'[h] = starts + 1 /\ starts' = starts + 1
  OBVIOUS
<1>3. \A g \in Handles : g # h => named'[g] = named[g]
  OBVIOUS
<1>4. NamesInv'
  BY <1>2, <1>3 DEF NamesInv
<1>5. ObjectsInv'
  <2>1. \A p \in Variables : p # o /\ var[p].joinable =>
          /\ var[p].id \in Handles /\ var[p].id # h
          /\ var[p].stands # 0 /\ named'[var[p].id] = var[p].stands
          /\ var[p].stands <= starts
    BY <1>2, <1>3 DEF ObjectsInv, NamesInv
  <2>2. \A p \in Variables : var'[p].joinable =>
          var'[p].id \in Handles /\ var'[p].stands # 0 /\ named'[var'[p].id] = var'[p].stands
    BY <1>1, <1>2, <2>1
  <2>3. \A p \in Variables : p # o /\ var[p].joinable => var[p].stands # starts + 1
    BY <2>1
  <2>4. \A p, q \in Variables :
          var'[p].joinable /\ var'[q].joinable /\ var'[p].stands = var'[q].stands => p = q
    BY <1>1, <2>3 DEF ObjectsInv
  <2> QED
    BY <2>2, <2>4 DEF ObjectsInv
<1>6. JoinsInv'
  BY <1>1 DEF JoinsInv, Free
<1> QED
  BY <1>4, <1>5, <1>6

LEMMA CopyStep ==
  ASSUME BaseThreadTypeOK, Disciplined, NEW c \in Owners, NEW o \in Variables,
         NEW p \in Variables, Copy(c, o, p), misuse' = {}
  PROVE  Disciplined'
<1> USE DEF BaseThreadTypeOK, Disciplined, Copy
<1>1. ~var[p].joinable
  BY DEF operator_bool
<1>2. var'[o] = var[p] /\ \A q \in Variables : q # o => var'[q] = var[q]
  OBVIOUS
<1>3. NamesInv'
  BY DEF NamesInv
<1>4. ObjectsInv'
  BY <1>1, <1>2 DEF ObjectsInv
<1>5. JoinsInv'
  BY <1>2 DEF JoinsInv, Free
<1> QED
  BY <1>3, <1>4, <1>5

LEMMA JoinCallStep ==
  ASSUME BaseThreadTypeOK, Disciplined, NEW c \in Owners, NEW o \in Variables,
         JoinCall(c, o), misuse' = {}
  PROVE  Disciplined'
<1> USE DEF BaseThreadTypeOK, Disciplined, JoinCall
<1>1. var[o].joinable /\ \A d \in Owners : joining[d].o # o
  BY DEF operator_bool
<1>2. joining'[c] = [o |-> o, id |-> var[o].id, stands |-> var[o].stands]
  OBVIOUS
<1>3. \A d \in Owners : d # c => joining'[d] = joining[d]
  OBVIOUS
<1>4. NamesInv' /\ ObjectsInv'
  BY DEF NamesInv, ObjectsInv
<1>5. JoinsInv'
  <2>1. var[o] = [id |-> var[o].id, joinable |-> TRUE, stands |-> var[o].stands]
    BY <1>1
  <2>2. \A d \in Owners : joining'[d] # NotJoining =>
          /\ joining'[d].o \in Variables
          /\ var[joining'[d].o] = [id |-> joining'[d].id, joinable |-> TRUE,
                                   stands |-> joining'[d].stands]
    BY <1>2, <1>3, <2>1 DEF JoinsInv
  <2>3. \A d, e \in Owners :
          joining'[d] # NotJoining /\ joining'[e] # NotJoining /\ joining'[d].o = joining'[e].o
            => d = e
    BY <1>1, <1>2, <1>3 DEF JoinsInv
  <2> QED
    BY <2>2, <2>3 DEF JoinsInv
<1> QED
  BY <1>4, <1>5

\* The object that is joined is the only joinable one with its handle.
LEMMA JoinTarget ==
  ASSUME BaseThreadTypeOK, Disciplined, NEW c \in Owners, joining[c] # NotJoining
  PROVE  /\ joining[c].o \in Variables /\ joining[c].id \in Handles
         /\ Target(c) = joining[c].stands /\ Target(c) # 0
         /\ \A p \in Variables :
              var[p].joinable /\ var[p].id = joining[c].id => p = joining[c].o
<1> DEFINE o == joining[c].o
<1>1. /\ o \in Variables
      /\ var[o].joinable /\ var[o].id = joining[c].id /\ var[o].stands = joining[c].stands
  <2>1. /\ o \in Variables
        /\ var[o] = [id |-> joining[c].id, joinable |-> TRUE, stands |-> joining[c].stands]
    BY DEF Disciplined, JoinsInv
  <2> HIDE DEF o
  <2> QED
    BY <2>1
<1>2. /\ var[o].id \in Handles /\ var[o].stands # 0
      /\ named[var[o].id] = var[o].stands
  BY <1>1 DEF Disciplined, ObjectsInv
<1>3. joining[c].id # NoHandle
  BY <1>1, <1>2
<1>4. Target(c) = joining[c].stands /\ Target(c) # 0
  BY <1>1, <1>2, <1>3 DEF Target
<1>5. ASSUME NEW p \in Variables, var[p].joinable, var[p].id = joining[c].id
      PROVE  p = o
  <2>1. var[p].stands = var[o].stands
    BY <1>1, <1>2, <1>5 DEF Disciplined, ObjectsInv
  <2> QED
    BY <1>1, <1>5, <2>1 DEF Disciplined, ObjectsInv
<1> QED
  BY <1>1, <1>2, <1>4, <1>5

LEMMA JoinDoneStep ==
  ASSUME BaseThreadTypeOK, Disciplined, NEW c \in Owners, JoinDone(c)
  PROVE  Disciplined'
<1> DEFINE o == joining[c].o
           h == joining[c].id
<1> USE DEF BaseThreadTypeOK
<1>1. /\ o \in Variables /\ h \in Handles
      /\ Target(c) = joining[c].stands
      /\ \A p \in Variables : var[p].joinable /\ var[p].id = h => p = o
  BY JoinTarget DEF JoinDone
<1>2. verdict' = "ok"
  BY <1>1 DEF JoinDone, Disciplined
<1>3. ~var'[o].joinable /\ \A p \in Variables : p # o => var'[p] = var[p]
  BY <1>1 DEF JoinDone, Joinable
<1>4. named'[h] = 0 /\ \A g \in Handles : g # h => named'[g] = named[g]
  BY <1>1 DEF JoinDone
<1>5. joining'[c] = NotJoining /\ \A d \in Owners : d # c => joining'[d] = joining[d]
  BY DEF JoinDone
<1>6. NamesInv'
  <2>1. starts' = starts /\ 0 <= starts
    BY DEF JoinDone
  <2> QED
    BY <1>4, <2>1 DEF NamesInv, Disciplined
<1>7. ObjectsInv'
  BY <1>1, <1>3, <1>4 DEF ObjectsInv, Disciplined
<1>8. JoinsInv'
  <2>1. \A d \in Owners : d # c /\ joining[d] # NotJoining => joining[d].o # o
    BY DEF JoinDone, JoinsInv, Disciplined
  <2> QED
    BY <1>3, <1>5, <2>1 DEF JoinsInv, Disciplined
<1> QED
  BY <1>2, <1>6, <1>7, <1>8 DEF Disciplined

\* A disciplined program does not come to an undefined pthread_join().
LEMMA NeverUndefined ==
  ASSUME BaseThreadTypeOK, Disciplined, NEW c \in Owners, JoinUndefined(c)
  PROVE  FALSE
<1>1. joining[c] # NotJoining
  BY DEF JoinUndefined
<1>2. Target(c) # 0
  BY <1>1, JoinTarget
<1>3. PICK d \in Owners \ {c} : joining[d] # NotJoining /\ joining[d].id = joining[c].id
  BY <1>2 DEF JoinUndefined
<1>4. var[joining[d].o].joinable /\ var[joining[d].o].id = joining[c].id
  <2>1. var[joining[d].o] = [id |-> joining[d].id, joinable |-> TRUE,
                             stands |-> joining[d].stands]
    BY <1>3 DEF Disciplined, JoinsInv
  <2> QED
    BY <1>3, <2>1
<1>5. joining[d].o = joining[c].o
  BY <1>1, <1>3, <1>4, JoinTarget
<1> QED
  BY <1>1, <1>3, <1>5 DEF Disciplined, JoinsInv

LEMMA NextBaseThread == BaseThreadInv /\ [BaseThreadNext]_btVars => BaseThreadInv'
<1> SUFFICES ASSUME BaseThreadInv, [BaseThreadNext]_btVars PROVE BaseThreadInv'
  OBVIOUS
<1>0. BaseThreadTypeOK /\ BaseThreadTypeOK'
  BY BaseThreadTypes DEF BaseThreadInv
<1> SUFFICES ASSUME misuse' = {} PROVE Disciplined'
  BY <1>0 DEF BaseThreadInv
<1>1. Disciplined
  BY MisuseGrows DEF BaseThreadInv
<1>2. ASSUME NEW c \in Owners, NEW o \in Variables, CreateFails(c, o) PROVE Disciplined'
  BY <1>0, <1>1, <1>2, CreateFailsStep
<1>3. ASSUME NEW c \in Owners, NEW o \in Variables, NEW h \in Handles, CreateThread(c, o, h)
      PROVE Disciplined'
  BY <1>0, <1>1, <1>3, CreateThreadStep
<1>4. ASSUME NEW c \in Owners, NEW o \in Variables, NEW p \in Variables, Copy(c, o, p)
      PROVE Disciplined'
  BY <1>0, <1>1, <1>4, CopyStep
<1>5. ASSUME NEW c \in Owners, NEW o \in Variables, JoinCall(c, o) PROVE Disciplined'
  BY <1>0, <1>1, <1>5, JoinCallStep
<1>6. ASSUME NEW c \in Owners, JoinDone(c) PROVE Disciplined'
  BY <1>0, <1>1, <1>6, JoinDoneStep
<1>7. ASSUME NEW c \in Owners, JoinUndefined(c) PROVE Disciplined'
  BY <1>0, <1>1, <1>7, NeverUndefined
<1>8. ASSUME NEW n \in 1..MaxStarts, Exit(n) PROVE Disciplined'
  BY <1>1, <1>8 DEF Exit, Disciplined, NamesInv, ObjectsInv, JoinsInv
<1>9. CASE UNCHANGED btVars
  BY <1>1, <1>9 DEF btVars, Disciplined, NamesInv, ObjectsInv, JoinsInv
<1> QED
  BY <1>2, <1>3, <1>4, <1>5, <1>6, <1>7, <1>8, <1>9 DEF BaseThreadNext

------------------------------------------------------------------------------

\* Every variable of BaseThread keeps its type.
THEOREM BaseThreadTypeCorrect == BaseThreadSpec => []BaseThreadTypeOK
<1>1. BaseThreadInit => BaseThreadTypeOK
  BY InitBaseThread DEF BaseThreadInv
<1> QED
  BY <1>1, BaseThreadTypes, PTL DEF BaseThreadSpec

\* Whatever handles the system gives out again, and however the calls overlap, a
\* program that tests objects before it joins them, copies no joinable one and does not
\* share a join() never joins a dead or a foreign thread (threading.h:155-164).
THEOREM CheckedJoin == BaseThreadSpec => []CheckedJoinIsDefined
<1>1. BaseThreadInv => CheckedJoinIsDefined
  BY DEF BaseThreadInv, Disciplined, ObjectsInv, CheckedJoinIsDefined, operator_bool
<1> QED
  BY <1>1, InitBaseThread, NextBaseThread, PTL DEF BaseThreadSpec

==============================================================================
