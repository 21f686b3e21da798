-------------------------------- MODULE Chrono --------------------------------
(***************************************************************************)
(* stopwatch, benchmark and timeout (include/base/chrono.h).               *)
(*                                                                         *)
(* All three read system_clock, which high_resolution_clock is in the C++  *)
(* library of GCC.  It goes on by itself, in nanoseconds, also between two *)
(* readings of one call, and it may be set.  A program has one of the      *)
(* three objects at a time and calls its functions.                        *)
(***************************************************************************)
EXTENDS Integers

CONSTANTS
  Kilo,       \* nanoseconds in a microsecond, microseconds in a millisecond, ...
  Timeouts,   \* the microseconds that a timeout is constructed with
  Garbage,    \* values that an uninitialized nsec_t may have
  MaxTime,    \* bound: nanoseconds that pass
  TimeLimit,  \* the latest time_point
  MaxSet,     \* bound: how far the clock is set
  MaxStops    \* bound: calls of stop() of one object

ASSUME ChronoAssumption ==
  /\ Kilo \in Nat \ {0} /\ MaxTime \in Nat /\ MaxSet \in Nat /\ MaxStops \in Nat
  /\ TimeLimit \in Nat /\ MaxTime < TimeLimit
  /\ Timeouts \subseteq Nat /\ Garbage \subseteq Int

VARIABLES
  time,    \* the nanoseconds that have passed
  set,     \* how far the clock was set back, on the whole
  object,  \* the object: "none", or its class
  t0_,     \* of a stopwatch, or of the stopwatch in a benchmark
  sum_,    \* of a benchmark
  t1_,     \* of a timeout
  second,  \* stopwatch::stop() has read the clock once
  sofar    \* history, see below

chronoVars == <<time, set, object, t0_, sum_, t1_, second, sofar>>

\* What happened to the object: how many of its stop() have read the clock, what
\* they returned in all, and the time between the two readings of each; true times
\* of its construction or reset and of its last stop(); `us` is the timeout's
\* argument; `reset` says that a benchmark was reset; `set` is the clock's setting
\* at the beginning, and `steady` that it was not set since.
NoHistory == [stops |-> 0, total |-> 0, gaps |-> 0, began |-> 0, last |-> 0,
              us |-> 0, reset |-> FALSE, set |-> 0, steady |-> TRUE]

\* clock_type::now()
now == time - set

ChronoInit ==
  /\ time = 0 /\ set = 0
  /\ object = "none" /\ t0_ = 0 /\ sum_ = 0 /\ t1_ = 0
  /\ second = FALSE
  /\ sofar = NoHistory

\* duration_cast truncates.
cast_Nearest(d, unit) == (d + unit \div 2) \div unit
cast(d, unit) == IF d < 0 THEN -((-d) \div unit) ELSE d \div unit

nanoseconds == cast(now - t0_, 1)
microseconds == cast(now - t0_, Kilo)
milliseconds == cast(now - t0_, Kilo * Kilo)
seconds == cast(now - t0_, Kilo * Kilo * Kilo)

start == t0_

------------------------------------------------------------------------------
(* stopwatch *)

Started == [NoHistory EXCEPT !.began = time, !.last = time, !.set = set]

\* The constructor calls stop(), which overwrites the zero that t0_ starts as.
ConstructStopwatch ==
  /\ object = "none"
  /\ object' = "stopwatch"
  /\ t0_' = now
  /\ sofar' = Started
  /\ UNCHANGED <<time, set, sum_, t1_, second>>

\* long result = microseconds();
Split ==
  /\ object = "stopwatch" /\ ~second /\ sofar.stops < MaxStops
  /\ sofar' = [sofar EXCEPT !.stops = @ + 1, !.total = @ + microseconds,
                            !.last = time]
  /\ second' = TRUE
  /\ UNCHANGED <<time, set, object, t0_, sum_, t1_>>

\* t0_ = clock_type::now(); return result;
Restart ==
  /\ second
  /\ t0_' = now
  /\ sofar' = [sofar EXCEPT !.gaps = @ + (time - sofar.last)]
  /\ second' = FALSE
  /\ UNCHANGED <<time, set, object, sum_, t1_>>

------------------------------------------------------------------------------
(* benchmark *)

\* t0_ constructs itself; sum_ has no initializer.
ConstructBenchmark ==
  /\ object = "none"
  /\ object' = "benchmark"
  /\ t0_' = now
  /\ sum_' \in Garbage
  /\ sofar' = Started
  /\ UNCHANGED <<time, set, t1_, second>>

\* The value that reset() gives to sum_.
Zero_Kept == sum_
Zero == 0

Reset ==
  /\ object = "benchmark"
  /\ t0_' = now
  /\ sum_' = Zero
  /\ sofar' = [Started EXCEPT !.reset = TRUE]
  /\ UNCHANGED <<time, set, object, t1_, second>>

\* sum_ += t0_.nanoseconds(): t0_ goes on.
Stop ==
  /\ object = "benchmark"
  /\ sofar.stops < MaxStops
  /\ sum_' = sum_ + nanoseconds
  /\ sofar' = [sofar EXCEPT !.stops = @ + 1, !.last = time]
  /\ UNCHANGED <<time, set, object, t0_, t1_, second>>

count == sum_

------------------------------------------------------------------------------
(* timeout *)

\* now() + microseconds {us}, which overflows above the TimeLimit.
Sum_Nanoseconds(us) == now + us
Sum(us) == now + us * Kilo

ConstructTimeout(us) ==
  /\ object = "none"
  /\ object' = "timeout"
  /\ \/ Sum(us) <= TimeLimit /\ t1_' = Sum(us)
     \/ Sum(us) > TimeLimit /\ t1_' \in (-TimeLimit)..TimeLimit
  /\ sofar' = [Started EXCEPT !.us = us]
  /\ UNCHANGED <<time, set, t0_, sum_, second>>

reached == now >= t1_

------------------------------------------------------------------------------

\* The next object counts time from its own construction.
Destroy ==
  /\ object # "none" /\ ~second
  /\ object' = "none" /\ t0_' = 0 /\ sum_' = 0 /\ t1_' = 0
  /\ time' = 0 /\ set' = 0
  /\ sofar' = NoHistory
  /\ UNCHANGED second

Tick ==
  /\ object # "none" /\ time < MaxTime
  /\ time' = time + 1
  /\ UNCHANGED <<set, object, t0_, sum_, t1_, second, sofar>>

SetClock ==
  /\ object # "none"
  /\ set' \in {set - 1, set + 1} \cap (-MaxSet)..MaxSet
  /\ sofar' = [sofar EXCEPT !.steady = FALSE]
  /\ UNCHANGED <<time, object, t0_, sum_, t1_, second>>

ChronoNext ==
  \/ ConstructStopwatch \/ Split \/ Restart
  \/ ConstructBenchmark \/ Reset \/ Stop
  \/ \E us \in Timeouts : ConstructTimeout(us)
  \/ Destroy
  \/ Tick \/ SetClock

ChronoSpec == ChronoInit /\ [][ChronoNext]_chronoVars

------------------------------------------------------------------------------
(* Properties. *)

ChronoTypeOK ==
  /\ time \in Nat /\ set \in Int
  /\ object \in {"none", "stopwatch", "benchmark", "timeout"}
  /\ t0_ \in Int /\ sum_ \in Int /\ t1_ \in Int
  /\ second \in BOOLEAN
  /\ sofar \in [stops : Nat, total : Int, gaps : Nat, began : Nat, last : Nat,
                us : Nat, reset : BOOLEAN, set : Int, steady : BOOLEAN]

\* What the calls of stopwatch::stop() return adds up: together they cover the
\* time since the construction, except for less than a microsecond each, because
\* they truncate, and for the time between the two readings of the clock that each
\* makes (chrono.h:191-192).  The units agree with each other, also for the negative
\* times after the clock was set back.
SplitsAddUp ==
  object = "stopwatch" /\ ~second =>
    /\ sofar.steady =>
         LET covered == start + set - sofar.began - sofar.gaps
         IN  covered \in Kilo * sofar.total..(Kilo * sofar.total + (Kilo - 1) * sofar.stops)
    /\ nanoseconds = now - t0_
    /\ milliseconds = cast(microseconds, Kilo) /\ seconds = cast(milliseconds, Kilo)

\* After a reset() a benchmark has measured nothing, whatever was in sum_ before;
\* one stop() later count() is the time between the two; and further ones never
\* lower it below that time, nor count it more than once each.
BenchmarkOnce ==
  object = "benchmark" /\ sofar.reset /\ sofar.steady =>
    LET elapsed == sofar.last - sofar.began
    IN  /\ sofar.stops = 0 => count = 0
        /\ sofar.stops = 1 => count = elapsed
        /\ sofar.stops > 1 => count \in elapsed..(sofar.stops * elapsed)

\* chrono.h:148, "Accumulate nanoseconds since last call to reset() or stop()":
\* what was accumulated is the time from reset() to the last stop().
BenchmarkMeasures ==
  object = "benchmark" /\ sofar.reset /\ sofar.steady =>
    count = sofar.last - sofar.began

\* A timeout that does not overflow is reached when its microseconds have elapsed,
\* to the tick: neither before, unless the clock is set forward, nor later, except
\* by as much as the clock is set back ("now plus us microseconds", chrono.h:51).
TimeoutHolds ==
  object = "timeout" /\ sofar.began - sofar.set + sofar.us * Kilo <= TimeLimit =>
    (reached <=> time - sofar.began >= sofar.us * Kilo + (set - sofar.set))

==============================================================================
