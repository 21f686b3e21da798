----------------------------- MODULE ChronoProofs -----------------------------
(***************************************************************************)
(* TimeoutHolds, BenchmarkOnce and SplitsAddUp hold for any timeouts, any  *)
(* settings of the clock and any number of calls.                          *)
(***************************************************************************)
EXTENDS Chrono, TLAPS

USE ChronoAssumption

\* The history is one of the past, and only a stopwatch reads the clock twice.
PastInv ==
  /\ sofar.began <= sofar.last /\ sofar.last <= time
  /\ second => object = "stopwatch"

\* When the timeout is due, by the clock as it was set at the construction.
Due == sofar.began - sofar.set + sofar.us * Kilo

TimeoutInv == object = "timeout" /\ Due <= TimeLimit => t1_ = Due

\* A benchmark still has the time of its reset(), and has counted it in every stop().
BenchmarkInv ==
  object = "benchmark" /\ sofar.reset /\ sofar.steady =>
    /\ set = sofar.set /\ t0_ = sofar.began - sofar.set
    /\ sofar.stops = 0 => sum_ = 0
    /\ sofar.stops = 1 => sum_ = sofar.last - sofar.began
    /\ sofar.stops >= 1 => sum_ >= sofar.last - sofar.began
    /\ sum_ <= sofar.stops * (sofar.last - sofar.began)

\* The true time that the results of stopwatch::stop() cover: until its restart, and
\* between the two readings of stop() until the first one.
Covered == IF second THEN sofar.last ELSE t0_ + set

\* The results cover that time, except for the gaps and for what each one truncates.
SplitInv ==
  object = "stopwatch" /\ sofar.steady =>
    /\ Covered <= time
    /\ sofar.total * Kilo <= Covered - sofar.began - sofar.gaps
    /\ Covered - sofar.began - sofar.gaps <= sofar.total * Kilo + sofar.stops * (Kilo - 1)

ChronoInv == ChronoTypeOK /\ PastInv /\ TimeoutInv /\ BenchmarkInv

------------------------------------------------------------------------------
(* Arithmetic. *)

\* duration_cast yields an integer.
LEMMA CastInt == ASSUME NEW d \in Int, NEW unit \in Nat \ {0} PROVE cast(d, unit) \in Int
<1>1. CASE d < 0
  <2>1. -d \in Nat
    BY <1>1
  <2>2. (-d) \div unit \in Int
    BY <2>1
  <2> QED
    BY <1>1, <2>2 DEF cast
<1>2. CASE ~(d < 0)
  <2>1. d \div unit \in Int
    OBVIOUS
  <2> QED
    BY <1>2, <2>1 DEF cast
<1> QED
  BY <1>1, <1>2

\* A stopwatch counts in nanoseconds, the unit of the clock.
LEMMA Nanoseconds == ASSUME ChronoTypeOK PROVE nanoseconds = time - set - t0_
  BY DEF nanoseconds, cast, now, ChronoTypeOK

\* Of a time that is not negative, duration_cast leaves less than a unit uncounted.
LEMMA CastTruncates ==
  ASSUME NEW d \in Nat, NEW unit \in Nat \ {0}
  PROVE  /\ cast(d, unit) \in Nat
         /\ cast(d, unit) * unit <= d /\ d <= cast(d, unit) * unit + (unit - 1)
<1>1. cast(d, unit) = d \div unit
  BY DEF cast
<1>2. d \div unit \in Nat
  OBVIOUS
<1>3. unit * (d \div unit) <= d /\ d < unit * (d \div unit) + unit
  OBVIOUS
<1>4. unit * (d \div unit) = (d \div unit) * unit /\ (d \div unit) * unit \in Nat
  BY <1>2
<1> QED
  BY <1>1, <1>2, <1>3, <1>4

\* A cast of a cast is a cast to the larger unit, of negative times too.
LEMMA CastTwice ==
  ASSUME NEW d \in Int, NEW m \in Nat \ {0}, NEW n \in Nat \ {0}
  PROVE  cast(cast(d, m), n) = cast(d, m * n)
<1>1. \A a \in Nat : (a \div m) \div n = a \div (m * n) /\ a \div m \in Nat
  OBVIOUS
<1>2. CASE d < 0
  <2>1. -d \in Nat /\ (-d) \div m \in Nat
    BY <1>1, <1>2
  <2>2. cast(d, m) = -((-d) \div m) /\ cast(d, m * n) = -((-d) \div (m * n))
    BY <1>2 DEF cast
  <2>3. CASE (-d) \div m = 0
    <3>1. 0 \div n = 0 /\ (-d) \div (m * n) = 0
      BY <1>1, <2>1, <2>3
    <3> QED
      BY <2>2, <2>3, <3>1 DEF cast
  <2>4. CASE (-d) \div m > 0
    <3>1. cast(cast(d, m), n) = -(((-d) \div m) \div n)
      BY <2>1, <2>2, <2>4 DEF cast
    <3> QED
      BY <1>1, <2>1, <2>2, <3>1
  <2> QED
    BY <2>1, <2>3, <2>4
<1>3. CASE ~(d < 0)
  <2>1. d \in Nat
    BY <1>3
  <2>2. cast(d, m) = d \div m /\ cast(d, m * n) = d \div (m * n)
    BY <1>3 DEF cast
  <2>3. d \div m \in Nat
    BY <1>1, <2>1
  <2>4. cast(cast(d, m), n) = (d \div m) \div n
    BY <2>2, <2>3 DEF cast
  <2> QED
    BY <1>1, <2>1, <2>2, <2>4
<1> QED
  BY <1>2, <1>3

\* One more call of stop() adds at most the time that has elapsed.
LEMMA OneMoreStop ==
  ASSUME NEW n \in Nat, NEW a \in Nat, NEW b \in Nat, a <= b
  PROVE  n * a + b <= (n + 1) * b
<1>1. (n + 1) * b = n * b + b
  OBVIOUS
<1>2. n * a <= n * b
  OBVIOUS
<1> QED
  BY <1>1, <1>2

------------------------------------------------------------------------------

HistoryType == [stops : Nat, total : Int, gaps : Nat, began : Nat, last : Nat,
                us : Nat, reset : BOOLEAN, set : Int, steady : BOOLEAN]

\* Nothing has happened to the object of the history h.
Blank(h) == h.stops = 0 /\ h.us = 0 /\ h.reset = FALSE

\* An object is constructed with a history that begins now.
LEMMA StartedHistory ==
  ASSUME ChronoTypeOK
  PROVE  /\ Started \in HistoryType
         /\ Started.began = time /\ Started.last = time /\ Started.set = set
         /\ Started.stops = 0 /\ Started.us = 0 /\ ~Started.reset
<1>1. time \in Nat /\ set \in Int
  BY DEF ChronoTypeOK
<1>2. NoHistory \in HistoryType
  BY DEF NoHistory, HistoryType
<1> DEFINE h1 == [NoHistory EXCEPT !.began = time]
           h2 == [h1 EXCEPT !.last = time]
           h3 == [h2 EXCEPT !.set = set]
<1>3. h1 \in HistoryType /\ h1.began = time /\ Blank(h1)
  BY <1>1, <1>2 DEF HistoryType, NoHistory, Blank
<1> HIDE DEF h1
<1>4. h2 \in HistoryType /\ h2.began = time /\ h2.last = time /\ Blank(h2)
  BY <1>1, <1>3 DEF HistoryType, Blank
<1> HIDE DEF h2
<1>5. /\ h3 \in HistoryType
      /\ h3.began = time /\ h3.last = time /\ h3.set = set /\ Blank(h3)
  BY <1>1, <1>4 DEF HistoryType, Blank
<1>6. Started = h3
  BY Zenon DEF Started, h1, h2
<1> QED
  BY <1>5, <1>6 DEF Blank

LEMMA InitChrono == ChronoInit => ChronoInv
<1> SUFFICES ASSUME ChronoInit PROVE ChronoInv
  OBVIOUS
<1>1. NoHistory \in HistoryType
  BY DEF NoHistory, HistoryType
<1>2. ChronoTypeOK
  <2>1. second \in BOOLEAN
    BY Zenon DEF ChronoInit
  <2>2. sofar \in HistoryType
    BY <1>1 DEF ChronoInit
  <2> QED
    BY <2>1, <2>2 DEF ChronoInit, ChronoTypeOK, HistoryType
<1>3. PastInv
  BY DEF ChronoInit, PastInv, NoHistory
<1> QED
  BY <1>2, <1>3 DEF ChronoInit, ChronoInv, TimeoutInv, BenchmarkInv

LEMMA NextChrono == ChronoInv /\ [ChronoNext]_chronoVars => ChronoInv'
<1> SUFFICES ASSUME ChronoInv, [ChronoNext]_chronoVars PROVE ChronoInv'
  OBVIOUS
<1>0. ChronoTypeOK
  BY DEF ChronoInv
<1>t. time \in Nat /\ set \in Int /\ now \in Int
  BY <1>0 DEF ChronoTypeOK, now
<1> USE DEF ChronoInv, PastInv
<1>1. CASE ConstructStopwatch
  <2>1. ChronoTypeOK'
    BY <1>0, <1>1, <1>t, StartedHistory DEF ConstructStopwatch, ChronoTypeOK, HistoryType
  <2>2. PastInv'
    BY <1>0, <1>1, <1>t, StartedHistory DEF ConstructStopwatch
  <2> QED
    BY <1>1, <2>1, <2>2 DEF ConstructStopwatch, TimeoutInv, BenchmarkInv
<1>2. CASE Split
  <2>1. microseconds \in Int
    BY <1>0, CastInt DEF microseconds, now, ChronoTypeOK
  <2>2. sofar' = [sofar EXCEPT !.stops = sofar.stops + 1,
                               !.total = sofar.total + microseconds, !.last = time]
    BY <1>2 DEF Split
  <2>3. sofar' \in HistoryType /\ sofar'.began = sofar.began /\ sofar'.last = time
    <3> DEFINE h1 == [sofar EXCEPT !.stops = sofar.stops + 1]
               h2 == [h1 EXCEPT !.total = sofar.total + microseconds]
               h3 == [h2 EXCEPT !.last = time]
    <3>1. h1 \in HistoryType /\ h1.began = sofar.began
      BY <1>0 DEF ChronoTypeOK, HistoryType
    <3>2. sofar.total + microseconds \in Int
      BY <1>0, <2>1 DEF ChronoTypeOK
    <3> HIDE DEF h1
    <3>3. h2 \in HistoryType /\ h2.began = sofar.began
      BY <3>1, <3>2 DEF HistoryType
    <3> HIDE DEF h2
    <3>4. h3 \in HistoryType /\ h3.began = sofar.began /\ h3.last = time
      BY <1>t, <3>3 DEF HistoryType
    <3>5. sofar' = h3
      BY Zenon, <2>2 DEF h1, h2
    <3> QED
      BY <3>4, <3>5
  <2>4. ChronoTypeOK'
    BY <1>0, <1>2, <2>3 DEF Split, ChronoTypeOK, HistoryType
  <2>5. PastInv'
    BY <1>0, <1>2, <1>t, <2>3 DEF Split, ChronoTypeOK
  <2> QED
    BY <1>2, <2>4, <2>5 DEF Split, TimeoutInv, BenchmarkInv
<1>3. CASE Restart
  <2>1. sofar' = [sofar EXCEPT !.gaps = sofar.gaps + (time - sofar.last)]
    BY <1>3 DEF Restart
  <2>2. /\ sofar' \in HistoryType
        /\ sofar'.began = sofar.began /\ sofar'.last = sofar.last
    BY <1>0, <2>1 DEF ChronoTypeOK, HistoryType
  <2>3. second' \in BOOLEAN
    BY Zenon, <1>3 DEF Restart
  <2>4. ChronoTypeOK'
    BY <1>0, <1>3, <1>t, <2>2, <2>3 DEF Restart, ChronoTypeOK, HistoryType
  <2>5. PastInv'
    BY <1>0, <1>3, <2>2 DEF Restart
  <2> QED
    BY <1>3, <2>4, <2>5 DEF Restart, TimeoutInv, BenchmarkInv
<1>4. CASE ConstructBenchmark
  <2>1. sum_' \in Int
    BY <1>4 DEF ConstructBenchmark
  <2>2. ChronoTypeOK'
    BY <1>0, <1>4, <1>t, <2>1, StartedHistory DEF ConstructBenchmark, ChronoTypeOK, HistoryType
  <2>3. PastInv'
    BY <1>0, <1>4, <1>t, StartedHistory DEF ConstructBenchmark
  <2>4. ~sofar'.reset
    BY <1>0, <1>4, StartedHistory DEF ConstructBenchmark
  <2> QED
    BY <1>4, <2>2, <2>3, <2>4 DEF ConstructBenchmark, TimeoutInv, BenchmarkInv
<1>5. CASE Reset
  <2>1. sofar' = [Started EXCEPT !.reset = TRUE]
    BY <1>5 DEF Reset
  <2>2. /\ sofar' \in HistoryType
        /\ sofar'.began = time /\ sofar'.last = time /\ sofar'.set = set /\ sofar'.stops = 0
    BY <1>0, <2>1, StartedHistory DEF HistoryType
  <2>3. ChronoTypeOK'
    BY <1>0, <1>5, <1>t, <2>2 DEF Reset, Zero, ChronoTypeOK, HistoryType
  <2>4. PastInv'
    BY <1>5, <1>t, <2>2 DEF Reset
  <2>5. BenchmarkInv'
    BY <1>5, <1>t, <2>2 DEF Reset, Zero, BenchmarkInv, now
  <2> QED
    BY <1>5, <2>3, <2>4, <2>5 DEF Reset, TimeoutInv
<1>6. CASE Stop
  <2>1. sum_' = sum_ + (time - set - t0_)
    BY <1>0, <1>6, Nanoseconds DEF Stop
  <2>2. sofar' = [sofar EXCEPT !.stops = sofar.stops + 1, !.last = time]
    BY <1>6 DEF Stop
  <2>3. /\ sofar'.stops = sofar.stops + 1 /\ sofar'.last = time
        /\ sofar'.began = sofar.began /\ sofar'.reset = sofar.reset
        /\ sofar'.set = sofar.set /\ sofar'.steady = sofar.steady
    BY <1>0, <2>2 DEF ChronoTypeOK
  <2>4. ChronoTypeOK' /\ PastInv' /\ TimeoutInv'
    <3>1. sum_' \in Int
      BY <1>0, <2>1 DEF ChronoTypeOK
    <3>2. sofar' \in HistoryType
      <4> DEFINE h1 == [sofar EXCEPT !.stops = sofar.stops + 1]
                 h2 == [h1 EXCEPT !.last = time]
      <4>1. h1 \in HistoryType
        BY <1>0 DEF ChronoTypeOK, HistoryType
      <4> HIDE DEF h1
      <4>2. h2 \in HistoryType
        BY <1>t, <4>1 DEF HistoryType
      <4>3. sofar' = h2
        BY Zenon, <2>2 DEF h1
      <4> QED
        BY <4>2, <4>3
    <3>3. ChronoTypeOK'
      BY <1>0, <1>6, <3>1, <3>2 DEF Stop, ChronoTypeOK, HistoryType
    <3>4. PastInv'
      BY <1>0, <1>6, <1>t, <2>3 DEF Stop, ChronoTypeOK
    <3> QED
      BY <1>6, <3>3, <3>4 DEF Stop, TimeoutInv
  <2>5. ASSUME object = "benchmark", sofar.reset, sofar.steady
        PROVE  BenchmarkInv'
    <3> DEFINE a == sofar.last - sofar.began
               b == time - sofar.began
    <3>1. a \in Nat /\ b \in Nat /\ a <= b /\ sofar.stops \in Nat
      BY <1>0 DEF ChronoTypeOK
    <3>2. sum_' = sum_ + b /\ sum_ \in Int /\ sum_ <= sofar.stops * a
      BY <1>0, <2>1, <2>5 DEF ChronoTypeOK, BenchmarkInv
    <3>3. sum_ = 0 \/ (sofar.stops >= 1 /\ sum_ >= a)
      BY <2>5, <3>1 DEF BenchmarkInv
    <3>4. sofar.stops * a + b <= (sofar.stops + 1) * b
      BY <3>1, OneMoreStop
    <3>5. sofar.stops * a \in Int /\ (sofar.stops + 1) * b \in Int
      BY <3>1
    <3>6. sum_' <= sofar'.stops * (sofar'.last - sofar'.began)
      <4> HIDE DEF a
      <4>1. sum_ + b <= (sofar.stops + 1) * b
        BY <3>1, <3>2, <3>4, <3>5
      <4> QED
        BY <2>3, <3>2, <4>1
    <3>7. sum_' >= sofar'.last - sofar'.began
      BY <2>3, <3>1, <3>2, <3>3
    <3>8. sofar'.stops = 1 => sum_' = sofar'.last - sofar'.began
      BY <2>3, <2>5, <3>1, <3>2 DEF BenchmarkInv
    <3>9. sofar'.stops # 0
      BY <2>3, <3>1
    <3>10. set' = sofar'.set /\ t0_' = sofar'.began - sofar'.set
      BY <1>6, <2>3, <2>5 DEF Stop, BenchmarkInv
    <3> QED
      BY <3>6, <3>7, <3>8, <3>9, <3>10 DEF BenchmarkInv
  <2>6. BenchmarkInv'
    BY <1>6, <2>3, <2>5 DEF BenchmarkInv, Stop
  <2> QED
    BY <2>4, <2>6
<1>7. ASSUME NEW us \in Timeouts, ConstructTimeout(us) PROVE ChronoInv'
  <2>2. us \in Nat /\ us * Kilo \in Int
    OBVIOUS
  <2>1. /\ sofar' \in HistoryType /\ sofar'.us = us
        /\ sofar'.began = time /\ sofar'.last = time /\ sofar'.set = set
    <3>1. sofar' = [Started EXCEPT !.us = us]
      BY <1>7 DEF ConstructTimeout
    <3> QED
      BY <1>0, <2>2, <3>1, StartedHistory DEF HistoryType
  <2>3. Sum(us) = time - set + us * Kilo /\ Sum(us) \in Int
    BY <1>0, <2>2 DEF Sum, now, ChronoTypeOK
  <2>4. t1_' \in Int /\ (Sum(us) <= TimeLimit => t1_' = Sum(us))
    BY <1>7, <2>3 DEF ConstructTimeout
  <2>5. object' = "timeout" /\ UNCHANGED <<time, set, t0_, sum_, second>>
    BY <1>7 DEF ConstructTimeout
  <2>6. Due' = Sum(us)
    BY <2>1, <2>3 DEF Due
  <2>7. ChronoTypeOK'
    BY <1>0, <2>1, <2>4, <2>5 DEF ChronoTypeOK, HistoryType
  <2>8. PastInv'
    BY <1>0, <1>7, <2>1, <2>5 DEF ChronoTypeOK, ConstructTimeout
  <2> QED
    BY <2>4, <2>5, <2>6, <2>7, <2>8 DEF TimeoutInv, BenchmarkInv
<1>8. CASE Destroy
  BY <1>8 DEF Destroy, NoHistory, ChronoTypeOK, TimeoutInv, BenchmarkInv
<1>9. CASE Tick
  BY <1>9 DEF Tick, ChronoTypeOK, TimeoutInv, BenchmarkInv, Due
<1>10. CASE SetClock
  <2>1. set' \in Int
    BY <1>0, <1>10 DEF SetClock, ChronoTypeOK
  <2>2. sofar' = [sofar EXCEPT !.steady = FALSE]
        /\ UNCHANGED <<time, object, t0_, sum_, t1_, second>>
    BY <1>10 DEF SetClock
  <2> QED
    BY <2>1, <2>2 DEF ChronoTypeOK, TimeoutInv, BenchmarkInv, Due
<1>11. CASE UNCHANGED chronoVars
  BY <1>11 DEF chronoVars, ChronoTypeOK, TimeoutInv, BenchmarkInv, Due
<1> QED
  BY <1>1, <1>2, <1>3, <1>4, <1>5, <1>6, <1>7, <1>8, <1>9, <1>10, <1>11 DEF ChronoNext

\* Every step keeps what the results cover.
LEMMA NextSplit == ChronoInv /\ SplitInv /\ [ChronoNext]_chronoVars => SplitInv'
<1> SUFFICES ASSUME ChronoInv, SplitInv, [ChronoNext]_chronoVars PROVE SplitInv'
  OBVIOUS
<1>0. /\ time \in Nat /\ set \in Int /\ t0_ \in Int /\ now = time - set
      /\ sofar \in HistoryType
      /\ second => object = "stopwatch"
      /\ sofar.last <= time
  BY DEF ChronoInv, PastInv, ChronoTypeOK, HistoryType, now
<1>h. /\ sofar.stops \in Nat /\ sofar.total \in Int /\ sofar.gaps \in Nat
      /\ sofar.began \in Nat /\ sofar.last \in Nat /\ Kilo \in Nat
  BY <1>0 DEF HistoryType
<1>t. ChronoTypeOK
  BY DEF ChronoInv
<1>1. CASE ConstructStopwatch
  <2>1. /\ t0_' = time - set /\ set' = set /\ time' = time /\ sofar' = Started
        /\ second' = FALSE
    BY <1>0, <1>1 DEF ConstructStopwatch
  <2>2. Started.total = 0 /\ Started.gaps = 0
    BY DEF Started, NoHistory
  <2> QED
    BY <1>0, <1>h, <1>t, <2>1, <2>2, StartedHistory DEF SplitInv, Covered
<1>2. CASE Split
  <2> DEFINE d == time - set - t0_
             q == cast(d, Kilo)
  <2> SUFFICES ASSUME sofar.steady PROVE SplitInv'
    BY <1>2 DEF Split, SplitInv
  <2>1. object = "stopwatch" /\ ~second /\ t0_ + set <= time
    BY <1>2 DEF Split, SplitInv, Covered
  <2>2. d \in Nat
    BY <1>0, <2>1
  <2>3. /\ q \in Nat /\ q * Kilo \in Nat
        /\ q * Kilo <= d /\ d <= q * Kilo + (Kilo - 1)
    BY <1>h, <2>2, CastTruncates
  <2>4. microseconds = q
    BY <1>0 DEF microseconds
  <2>5. /\ sofar'.stops = sofar.stops + 1 /\ sofar'.total = sofar.total + q
        /\ sofar'.last = time /\ sofar'.began = sofar.began /\ sofar'.gaps = sofar.gaps
        /\ second' /\ time' = time
    BY <1>0, <1>2, <2>4 DEF Split, HistoryType
  <2>6. /\ (sofar.total + q) * Kilo = sofar.total * Kilo + q * Kilo
        /\ (sofar.stops + 1) * (Kilo - 1) = sofar.stops * (Kilo - 1) + (Kilo - 1)
    BY <1>h, <2>3
  <2>7. sofar.total * Kilo \in Int /\ sofar.stops * (Kilo - 1) \in Int
    BY <1>h
  <2>8. /\ sofar.total * Kilo <= t0_ + set - sofar.began - sofar.gaps
        /\ t0_ + set - sofar.began - sofar.gaps
             <= sofar.total * Kilo + sofar.stops * (Kilo - 1)
    <3>1. Covered = t0_ + set
      BY <2>1 DEF Covered
    <3>2. /\ sofar.total * Kilo <= Covered - sofar.began - sofar.gaps
          /\ Covered - sofar.began - sofar.gaps
               <= sofar.total * Kilo + sofar.stops * (Kilo - 1)
      BY <2>1, Zenon DEF SplitInv
    <3> QED
      BY <1>0, <1>h, <3>1, <3>2
  <2> DEFINE qk == q * Kilo
             tk == sofar.total * Kilo
             sk == sofar.stops * (Kilo - 1)
             x == time - sofar.began - sofar.gaps
  <2>9. tk + qk <= x /\ x <= tk + qk + (sk + (Kilo - 1))
    <3>1. qk \in Nat /\ tk \in Int /\ sk \in Int /\ qk <= d /\ d <= qk + (Kilo - 1)
      BY <2>3, <2>7
    <3>2. tk <= t0_ + set - sofar.began - sofar.gaps
          /\ t0_ + set - sofar.began - sofar.gaps <= tk + sk
      BY <2>8
    <3> HIDE DEF qk, tk, sk
    <3> QED
      BY <1>0, <1>h, <3>1, <3>2
  <2>10. Covered' = time
    BY <2>5 DEF Covered
  <2>11. x = Covered' - sofar'.began - sofar'.gaps
    BY <2>5, <2>10
  <2>12. tk + qk = sofar'.total * Kilo
    BY <2>5, <2>6
  <2>13. tk + qk + (sk + (Kilo - 1)) = sofar'.total * Kilo + sofar'.stops * (Kilo - 1)
    BY <2>5, <2>6
  <2>14. Covered' <= time'
    BY <1>0, <2>5, <2>10
  <2> HIDE DEF x, tk, qk, sk
  <2> QED
    BY <2>9, <2>11, <2>12, <2>13, <2>14 DEF SplitInv
<1>3. CASE Restart
  <2>1. /\ sofar'.stops = sofar.stops /\ sofar'.total = sofar.total
        /\ sofar'.began = sofar.began /\ sofar'.gaps = sofar.gaps + (time - sofar.last)
        /\ sofar'.steady = sofar.steady
        /\ second' = FALSE /\ time' = time /\ set' = set /\ t0_' = time - set
        /\ second /\ object' = object
    BY <1>0, <1>3 DEF Restart, HistoryType
  <2>2. Covered = sofar.last /\ Covered' = time
    BY <1>0, <2>1 DEF Covered
  <2>3. Covered' - sofar'.began - sofar'.gaps = Covered - sofar.began - sofar.gaps
    BY <1>0, <1>h, <2>1, <2>2
  <2> QED
    BY <1>0, <2>1, <2>2, <2>3 DEF SplitInv
<1>4. CASE ConstructBenchmark
  BY <1>4 DEF ConstructBenchmark, SplitInv
<1>5. CASE Reset
  BY <1>5 DEF Reset, SplitInv
<1>6. CASE Stop
  BY <1>6 DEF Stop, SplitInv
<1>7. ASSUME NEW us \in Timeouts, ConstructTimeout(us) PROVE SplitInv'
  BY <1>7 DEF ConstructTimeout, SplitInv
<1>8. CASE Destroy
  BY <1>8 DEF Destroy, SplitInv
<1>9. CASE Tick
  BY <1>0, <1>h, <1>9 DEF Tick, SplitInv, Covered
<1>10. CASE SetClock
  <2>1. ~sofar'.steady
    BY <1>0, <1>10 DEF SetClock, HistoryType
  <2> QED
    BY <2>1 DEF SplitInv
<1>11. CASE UNCHANGED chronoVars
  BY <1>11 DEF chronoVars, SplitInv, Covered
<1> QED
  BY <1>1, <1>2, <1>3, <1>4, <1>5, <1>6, <1>7, <1>8, <1>9, <1>10, <1>11 DEF ChronoNext

------------------------------------------------------------------------------

\* Every variable of Chrono keeps its type.
THEOREM ChronoTypeCorrect == ChronoSpec => []ChronoTypeOK
<1>1. ChronoInv => ChronoTypeOK
  BY DEF ChronoInv
<1> QED
  BY <1>1, InitChrono, NextChrono, PTL DEF ChronoSpec

\* A timeout is reached when its microseconds have elapsed, to the tick, except for
\* what the clock was set since (chrono.h:227-240).
THEOREM TimeoutIsReached == ChronoSpec => []TimeoutHolds
<1>1. ChronoInv => TimeoutHolds
  <2> SUFFICES ASSUME ChronoInv, object = "timeout", Due <= TimeLimit
               PROVE  reached <=> time - sofar.began >= sofar.us * Kilo + (set - sofar.set)
    BY DEF TimeoutHolds, Due
  <2>1. t1_ = Due
    BY DEF ChronoInv, TimeoutInv
  <2>2. /\ time \in Int /\ set \in Int /\ sofar.began \in Int /\ sofar.set \in Int
        /\ sofar.us \in Nat /\ sofar.us * Kilo \in Int
    BY DEF ChronoInv, ChronoTypeOK
  <2> QED
    BY <2>1, <2>2 DEF reached, now, Due
<1> QED
  BY <1>1, InitChrono, NextChrono, PTL DEF ChronoSpec

\* After reset() a benchmark has measured nothing, and after one stop() the time in
\* between; more calls never lose that time, nor count it more than once each
\* (chrono.h:258-276).
THEOREM BenchmarkCounts == ChronoSpec => []BenchmarkOnce
<1>1. ChronoInv => BenchmarkOnce
  <2> SUFFICES ASSUME ChronoInv, object = "benchmark", sofar.reset, sofar.steady,
                      NEW elapsed, elapsed = sofar.last - sofar.began
               PROVE  /\ sofar.stops = 0 => sum_ = 0
                      /\ sofar.stops = 1 => sum_ = elapsed
                      /\ sofar.stops > 1 => sum_ \in elapsed..(sofar.stops * elapsed)
    BY DEF BenchmarkOnce, count
  <2>1. elapsed \in Int /\ sum_ \in Int /\ sofar.stops \in Nat
    BY DEF ChronoInv, ChronoTypeOK
  <2>2. sofar.stops * elapsed \in Int
    BY <2>1
  <2>3. sum_ <= sofar.stops * elapsed
    BY DEF ChronoInv, BenchmarkInv
  <2> QED
    BY <2>1, <2>2, <2>3 DEF ChronoInv, BenchmarkInv
<1> QED
  BY <1>1, InitChrono, NextChrono, PTL DEF ChronoSpec

\* What the calls of stopwatch::stop() return covers the time since the construction,
\* but for less than a microsecond each and the time between the two readings of each;
\* and the units agree (chrono.h:150-200).
THEOREM SplitsAreComplete == ChronoSpec => []SplitsAddUp
<1>1. ChronoInv /\ SplitInv => SplitsAddUp
  <2> SUFFICES ASSUME ChronoInv, SplitInv, object = "stopwatch", ~second
               PROVE  SplitsAddUp
    BY DEF SplitsAddUp
  <2>1. ChronoTypeOK /\ now \in Int /\ now - t0_ \in Int
    BY DEF ChronoInv, ChronoTypeOK, now
  <2>2. nanoseconds = now - t0_
    BY <2>1, Nanoseconds DEF now
  <2>3. milliseconds = cast(microseconds, Kilo)
    BY <2>1, CastTwice DEF milliseconds, microseconds
  <2>4. Kilo * Kilo \in Nat \ {0}
    OBVIOUS
  <2>5. seconds = cast(milliseconds, Kilo)
    BY <2>1, <2>4, CastTwice DEF milliseconds, seconds
  <2>6. ASSUME sofar.steady
        PROVE  start + set - sofar.began - sofar.gaps
                 \in Kilo * sofar.total..(Kilo * sofar.total + (Kilo - 1) * sofar.stops)
    <3>1. /\ sofar.total * Kilo <= t0_ + set - sofar.began - sofar.gaps
          /\ t0_ + set - sofar.began - sofar.gaps
               <= sofar.total * Kilo + sofar.stops * (Kilo - 1)
      <4>1. Covered = t0_ + set
        BY DEF Covered
      <4>2. /\ sofar.total * Kilo <= Covered - sofar.began - sofar.gaps
            /\ Covered - sofar.began - sofar.gaps
                 <= sofar.total * Kilo + sofar.stops * (Kilo - 1)
        BY <2>6, Zenon DEF SplitInv
      <4>3. /\ t0_ \in Int /\ set \in Int /\ sofar.began \in Int /\ sofar.gaps \in Int
            /\ sofar.total * Kilo \in Int /\ sofar.stops * (Kilo - 1) \in Int
        BY <2>1 DEF ChronoTypeOK
      <4> QED
        BY <4>1, <4>2, <4>3
    <3>2. /\ t0_ + set - sofar.began - sofar.gaps \in Int
          /\ sofar.total \in Int /\ sofar.stops \in Int
      BY <2>1 DEF ChronoTypeOK
    <3>3. /\ sofar.total * Kilo = Kilo * sofar.total /\ Kilo * sofar.total \in Int
          /\ sofar.stops * (Kilo - 1) = (Kilo - 1) * sofar.stops
          /\ (Kilo - 1) * sofar.stops \in Int
      BY <3>2
    <3> QED
      BY <3>1, <3>2, <3>3 DEF start
  <2> QED
    BY <2>2, <2>3, <2>5, <2>6 DEF SplitsAddUp
<1>2. ChronoInit => SplitInv
  BY DEF ChronoInit, SplitInv
<1> QED
  BY <1>1, <1>2, InitChrono, NextChrono, NextSplit, PTL DEF ChronoSpec

==============================================================================
