# Libpreempt in TLA+

*Libpreempt* is a small C++ library for real-time threads under Linux: a thread
class with a scheduling policy and a priority, task classes that own one or
several threads and measure them, and helpers to prepare the process. What can
go wrong in it is mostly concurrency: who owns a thread, when it runs relative to
the change of its scheduling, what is locked and for how long, what a clock says.
This directory holds TLA+ modules of those parts, TLC configurations that check
them on small instances, and TLAPS proofs.

All paths below are relative to the repository (`src/` of this checkout).

## 1. The system

| Part | Source | State | Operations | Talks to |
|------|--------|-------|------------|----------|
| `preempt::thread` | `include/preempt/thread.h` | `impl_` (a `std::thread`), `error_` | constructors, move, assignment, swap, join, detach, `try_scheduling`, `change_scheduling`, destructor | scheduling functions, kernel |
| Scheduling functions | `include/base/threading.h` 166-210 | none; the kernel's policy and priority | `try_scheduling`, `change_scheduling` | kernel, `quick_exit`, `g_verify_flag` |
| `base::thread` | `include/base/threading.h` 25-164 | attributes, `joinable`, `last_error`, `pthread_t` | constructors, `join`, implicit copy | kernel |
| `mono_task`, `critical_task` | `include/preempt/task.h` | `thread_`, `usec_` | `spawn`, `join`, `start`, `hook`, `runtime` | `preempt::thread`, the clock |
| `poly_task` | `include/preempt/task.h` | `threads_`, `lock_` | `spawn`, `join`, `joinable` | `preempt::thread`, `std::vector` |
| Real-time tests | `tests/preempt_02_fifo.cc`, `preempt_03_decrement.cc` | an unguarded global counter | create, check, decrement, join | `base::thread`, scheduler |
| Process control | `src/process.cc` | memory locks, limits, descriptor of `/dev/cpu_dma_latency` | `begin_realtime`, `end_realtime`, limits, latency requests | kernel |
| Clocks | `include/base/chrono.h` | time points, accumulated nanoseconds | `stopwatch`, `timeout`, `benchmark`, conversions | system clock |
| Verification flag and exits | `include/base/verify.h`, `src/base.cc` | `g_verify_flag` | `VERIFY`, `quick_exit`, `terminate`, `breakpoint` | every part |
| Sorting, strings, numbers | `include/base/algorithm.h`, `string.h`, `numeric.h` | none | pure functions | - |
| Tracing and logging | `include/base/trace.h` | two mutexes, static time buffers | `trace`, `BASE_LOG_*` | C library |
| Test matrix | `testmatrix.sh` | counters, target lists | build and run loops, summary | the tests |
| Schedulers, idioms, utilities | `include/preempt/scheduler.h`, `include/base/idioms.h`, `utility.h` | - | declarations and one-line wrappers | - |

### What is hard, and what makes each part correct

* **Ownership of threads** (`preempt::thread`). A thread of execution must be
  represented by exactly one object until it is joined or detached, whatever
  sequence of moves, swaps, assignments and destructors the program performs in
  however many threads; the two calls that take time (`join`, and the real-time
  constructor, which first starts the thread and then changes its scheduling)
  overlap with all others.
* **Scheduling that is reported is scheduling that is in force**, although the
  thread may have exited or the kernel may have refused.
* **A task runs one job at a time** (`mono_task`): `spawn` joins the old thread,
  but the new one runs before the task's member represents it.
* **The time slice is enforced** (`critical_task`): to the tick, only for a real
  overrun, and with a clock that is adjustable.
* **A pool keeps all its threads** (`poly_task`): the lock guard is a temporary,
  the vector reallocates, `join` never empties it.
* **Order instead of locks** (the real-time tests): threads check and decrement a
  counter without a lock and rely on the scheduler alone.
* **Real-time sections** (`process.cc`): failures that `begin_realtime` ignores,
  locks that do not nest, latency requests that overwrite each other.
* **Copies of handles** (`base::thread`): every copy believes that it is joinable,
  and the system gives a `pthread_t` to a later thread again.
* **Time** (`chrono.h`): a clock that goes on between two readings and is set,
  accumulators without initializer, benchmarks that accumulate twice, rounding on
  the way to another unit and back.
* **Shared buffers** (`trace.h`): two mutexes around the one `struct tm` of the C
  library, locked one inside the other.
* **Exits** (`verify.h`): one thread ends the process while others verify and print.
* **Edges of algorithms**: empty, constant and reversed vectors, empty tokens, a
  single quote, halves and powers of two.

`PROJECT.json` lists these hazards with their lines and the properties that cover
them.

## 2. Modules

| Module | Models |
|--------|--------|
| `Posix` | the part of POSIX scheduling the library calls (external): policies, valid and permitted priorities, the answer of `pthread_setschedparam()` |
| `PreemptThread` | `preempt::thread` with the scheduling functions |
| `PreemptThreadProofs` | its theorems and their proofs |
| `SerialTask` | abstract: a task runs its jobs one after the other |
| `CriticalTask` | `mono_task<preempt::thread>` and `critical_task`, with time; implements `SerialTask` |
| `CriticalTaskProofs` | its theorems and their proofs, with that of the refinement |
| `PolyTask` | `poly_task`, down to the loads and stores of `emplace_back()` |
| `PolyTaskProofs` | its theorems and their proofs |
| `FifoOrder` | `base::thread`'s constructor and `join()`, the scheduler as FAQ.md describes it, and the programs `preempt_02_fifo.cc` and `preempt_03_decrement.cc` |
| `FifoOrderProofs` | the theorems about `FifoOrder` and their proofs |
| `Process` | `process.cc`: real-time sections, limits and the CPU latency device, by several threads |
| `ProcessProofs` | its theorems and their proofs |
| `BaseThread` | objects of `base::thread`, their copies, and reused `pthread_t` values |
| `Chrono` | `stopwatch`, `benchmark`, `timeout` under a clock that goes on and is set |
| `Numeric` | rounding and tolerant comparison of doubles, conversions between units of time |
| `Logging` | `trace()` and `BASE_LOG_...` with both mutexes and the buffers of the C library |
| `Exits` | `VERIFY`, the flag, `quick_exit()`, `terminate()`, `breakpoint()` in a program with threads |
| `BubbleSort` | `bubble_sort()`, one comparison per step |
| `Strings` | `split()` and `join()` step by step, `is_quoted()`, `unquote()` |
| `ChronoProofs`, `NumericProofs` | theorems and proofs about these two |
| `BaseProofs` | theorems and proofs about `Exits`, `Logging`, `BubbleSort`, `Strings` and `BaseThread` |
| `MCBase` | `BaseThread` to `Strings`, `FifoOrder` and `PolyTask` in one run; they share no state, so the variable `part` says which one moves |
| other `MC...` | constants for TLC |

### PreemptThread

`alive` are the objects inside their lifetime, `impl[o]` is the thread that
`o.impl_` represents, `error[o]` whether `o.error_` holds a description. `state`
and `sched` are the kernel's. `frame[c]` is the call that caller `c` (the main
thread or any started thread) is inside of. Every member function is an action; a
caller may call any of them on any object on which no call is in progress, because
the header makes that the caller's duty. `join()` and the real-time constructor
are two actions each, since other threads run in between. Calls that throw leave
the state unchanged and are stuttering. `process` tells how the process ended:
`terminated` (`std::terminate()` of a joinable destructor or assignment target),
`quick_exit` (`change_scheduling()` refused) or `exited`. `granted[t]` is a history
variable: the last setting that a call reported for `t`.

Starting a thread without attributes inherits the scheduling of its creator, as
`std::thread` does; `ESRCH` for an exited thread counts as success, as in the code.

### CriticalTask

The main thread calls `start()` and `join()` of any task, one call at a time;
`main.pc` is where it is: `join` the old thread, `create` the new one, `assign` it to
`thread_`, `change` its scheduling. Each thread goes through `hook()` in four steps
(first reading of the clock, second reading, store into `usec_`, check), and may
start before `assign`. `start` and `stop` in `hook[t]` are the readings, `began` and
`ended` the true times. `high_resolution_clock` is `system_clock` in the C++ library
of GCC, the compiler that `details/cc.h` requires: `SetClock` sets it back or forward.
Time stands still while nobody is between two readings: only their differences
are used.

### PolyTask

`slots` are the cells of the vector's storage, `size` its size; `storage` counts
reallocations, so that a use of freed storage shows as `corrupted`. `spawn()` is:
acquire `lock_`, release it (the guard is a temporary), create the thread, read the
end of the vector, store (growing if full), read `back()`. `join()` is one action
per element. `collected` are the threads that were joined, `answer[c]` is how the last
call of client `c` ended and the reference it returned, and `fate` how the process
ended.

### FifoOrder

`since` is the place in the run queue of a priority. A real-time thread runs when
fewer than `RtCores` real-time threads precede it; a normal thread runs when a core
is left over. `SliceExpires` is the only time slicing (SCHED_RR). The thread
function is three actions: check, load, store.

### Process

`call[t]` is the next system call (or the last assignment) of the function that
thread `t` is inside of; `fd[t]` is the descriptor it remembers. `system` is what the
kernel grants the program: the capabilities to raise a limit and to lock without
one, and whether the latency device exists and may be opened. `memlock` is
RLIMIT_MEMLOCK. Locking is all or nothing, so the pages are counted: `mapped`,
`locked`, and `future` for MCL_FUTURE. `files` is the descriptor table; an open
device has the latency that was last written to it. Nothing guards
`g_fd_cpu_dma`: `request_CPU_latency()` is the steps `stat`, `open`, `write`, and
`reset_CPU_latency()` is test, `close`, assignment, in any interleaving. Each step of
a request may fail, and a failed one ends the process with `exit()`, a step of its own
before which other threads go on. A failed `open()` has assigned its -1 to
`g_fd_cpu_dma`, and what was there is lost; the device may refuse any `write()`, and the thread
(`failing`) then goes through `reset_CPU_latency()` first (`process.cc:100`). After a load
or store of the variable the function uses either the value it remembers or the
current one (`Used`): it is an unsynchronized variable, and both can be compiled.
`undone`, `refused`, `shared`, `overlapped`, `leaked`, `foreign` and `promised` are
history variables: they only serve the properties.

The functions have no lock and no contract about threads, so the latency
properties say what callers get that keep their calls apart: `LatencyHolds` for a
request during which no other latency call ran (even if later ones overlap),
`OwnDescriptorOnly` and `NothingLeaks` as long as none have overlapped. Without these
conditions each is false in the model: a reset that overlaps with a request can close
a file of the program. `NothingLeaks` says exactly what stays open: the descriptor in
`g_fd_cpu_dma` and those that a request overwrote there (`leaked`), which nothing
closes before the process ends, as the code has no list of them.

### BaseThread

`var[o]` is an object: its `id` and `joinable`, and (history) the thread it was
constructed for. `named[h]` is the kernel's view: the thread that a `pthread_t`
names. `CreateThread` may give out any handle that names nothing, so handles are
used again. `join()` reads `id` (`JoinCall`) and blocks in `pthread_join()`, while
other threads use other objects or the same one (`JoinDone`). A join of a handle that
names nothing, or that another join waits for, is undefined (`JoinUndefined`); the
error answers of `pthread_join()` are among what may happen then. `misuse` remembers
whether the program copied a joinable object, joined one without testing it, or
joined one from two threads: `CheckedJoinIsDefined` says that nothing else is needed.
An empty `misuse` does not constrain what handles the system gives out, nor in which
order threads end.

### Chrono

`now` is `time`, which only goes on (`Tick`, also between any two steps of a call),
less what the clock was `set` back. `stopwatch::stop()` is two actions, `Split` and
`Restart`, as it reads the clock twice; other functions read it once. `sum_` starts as
`Garbage`. `sofar` is history: what the calls returned and the true times between
them. `Sum` above `TimeLimit` overflows: any `t1_` may result.

### Numeric

A float is a number of units, `One` to 1.0, with `Precision` significant bits;
arithmetic yields the float next to the exact result, ties to even, as IEEE 754
requires. The rules are those of the 53 bits of a `double`, so properties that hold
up to `2^(Precision - 1)` correspond to `2^52`. `MaxExponent` is the end of the range; the
numbers a program asks about (`Significands`, `Exponents`) do not overflow when they are
converted. `Thousand` is 7: like 1000, and unlike
numbers of the form `2^i + 2^j`, it shows the errors of dividing and multiplying again.
In 32 bits TLC has no room for a precision at which the nanoseconds that come back exactly
reach a whole second: its run converts a `timespec` of nanoseconds only. Seconds are what
the theorem `ConversionsAreExact` adds.

### Logging

`step[t]` is the next step of the call of thread `t`. `ctime()` is two steps,
`localtime()` into `tm` and `asctime()` into `text`; `BASE_LOG` calls `localtime()`
and `put_time()` reads its buffer in the next step. The arguments of a `BASE_LOG` are
evaluated with its mutex locked. They may call `trace()` (`ArgsTrace`), which then runs
with both mutexes locked, as often as they like; or use `BASE_LOG` (`ArgsLog`), which
locks the mutex that the same thread holds and, as it is not recursive, waits for ever.
`inArgs` are the threads inside of such a call. The steps are in the order of printing;
before C++17 a compiler may evaluate an argument before the time is printed. `lines` is
history: the time a line should bear and the time it bears.

### Exits

`doing[t]` is where thread `t` is: `VERIFY` prints, then clears the flag;
`quick_exit()` prints, flushes and ends the process in three steps, between which
other threads go on. `buffer` holds the threads with unflushed output. `main()`
joins its workers and returns the flag, as those under `tests/` do. `Quit` covers both
builds and the three kinds of environment that `running_under_debugger()` tells apart.

### BubbleSort, Strings

`v`, `i`, `j`, `swapped`, `result` are the variables of the function; `at` is the head
of the outer or the inner loop. `Last` is `size() - 1` in `size_t`: only the test of
the outer loop keeps an empty vector from being read. `find` and `substr` are those of
`std::string`; one action per round of the loop of `split()`, and one for the rest.
`join()` has one action per element of the range: `element` is its iterator (0 before the
call, `joined` the string it builds. `SplitFindsTokens` says that all words are found and
leaves open whether empty tokens follow them. `Kept(s, p)` are the places of `s` up to `p`
whose characters separate nothing; `NoCharacterLost` says with them that what `join()`
returns for the tokens of `split()` has the characters of the given string in their
order, wherever the separators are. What `string.h` says of empty tokens and of
separators is `SplitSkipsEmpty` and `JoinSeparates`, which the code violates.

## 3. Runs

| Run | Shows |
|-----|-------|
| `thread` | `SingleOwner`, `NoThreadLost`, `CleanExit`, `RunsAsGranted`, `JoinTargetStays`, and the inductive invariant `Inv` |
| `task` | `OneHookPerTask`, `DeadlineEnforced`, `QuitJustified`, `RuntimeAfterJoin`, `CleanReturn`, the refinement `RunsSerially`, the liveness `CallsReturn` |
| `process` | `SectionIsProtected`, `ThreadsCanStart`, `LatencyHolds`, `OwnDescriptorOnly`, `NothingLeaks` |
| `base` | `SortReturns`; `SplitFindsTokens`, `NoCharacterLost`; `RoundIsNearest`, `ToleranceIsEpsilon`, `ConversionsRoundTrip`; `SplitsAddUp`, `BenchmarkOnce`, `TimeoutHolds`; `LinesAreWhole` and the liveness `LogReturns`; `NothingHidden`; `CheckedJoinIsDefined`; of the real-time tests `OneAtATime`, `InCreationOrder`, `TestSucceeds` and the liveness `TestsEnd`; of `poly_task` with one client `NoMemberLost`, `JoinCollectsAll`, `RefIsOwnThread`, `CleanDestruction` and the liveness `CallsReturn` |
| `benchmark_counts_twice` | violated: `reset()`, `stop()`, `stop()` counts the first interval twice, against `chrono.h:148` |
| `process_begin_may_fail` | violated: `begin_realtime()` returns normally with unlocked pages, against `process.h:22` |
| `thread_true_means_scheduled` | violated: `try_scheduling()` answers true for a thread that has exited, against `threading.h:49` |
| `task_run_is_realtime` | violated: `run()` begins before its thread is SCHED_FIFO, against `task.h:130` |
| `poly_concurrent_spawn` | violated: with two clients `spawn()` returns the other's thread, as the lock is already released |
| `poly_join_again` | violated: a second `join()` throws at the first element, against `task.h:91` |
| `split_skips_empty` | violated: `split()` pushes an empty token at the end if the string is empty or ends with a separator, against `string.h:31` |
| `join_at_separator` | violated: `join()` appends the separator after the last string and puts none between two, against `string.h:15` |

Further places where code and documentation differ, seen while modelling:

* With two clients and five threads `NoMemberLost` fails too (a thread is
  overwritten in the vector): `poly_concurrent_spawn.cfg` with these constants and
  `NoMemberLost` as the invariant.
* `DeadlineEnforced` is stated for readings between which the clock was not set.
  Without that condition it fails: set back, the clock hides an overrun
  (`task.h:136`, which also says milliseconds where the parameter is microseconds).
* `InCreationOrder` holds for the real-time constructor of `preempt::thread` on one
  core only. On two, the second thread may run before the first is SCHED_FIFO,
  against FAQ.md:200. With `RtCores = 2` `TestSucceeds` fails for equal priorities:
  nothing in the library pins threads to a core, and Linux does run real-time
  threads on several cores.
* A thread constructed by a real-time thread is not "normal" (`thread.h:47`): it
  inherits. The source of a move assignment keeps its `error_` (`thread.h:68`).
* `sprintf()` leaves the terminating NUL in its result.
* `round_to_nearest()` gives 1 for the greatest double below .5, and the even
  neighbour for odd numbers above 2^52 (`numeric.h:16`).
* `terminate()` neither flushes nor calls `breakpoint()` (`verify.h:67-68`).
  `quick_exit()` prints the text of `errno`, which pthread functions do not set.
* `BASE_LOG_COUT` writes to `cerr`, as its comment says and its name does not; lines
  of `BASE_LOG` may be out of order, since the time is taken before the mutex; its
  block-scope declaration of `g_logging_mutex` names the variable of namespace
  `base` only within that namespace. A `BASE_LOG` in an argument of `BASE_LOG` never
  returns (`LocksTwice`), which no document mentions. `TRACE_IF_TRUE` is cast to `void`
  and cannot be a condition, as in the example of `trace.h:39`.
* A program that uses both `trace()` and `BASE_LOG` may see the time of another line:
  `LinesAreWhole` without its condition fails.
* `base::thread` has a `std::string` and shared pointers: it is not "trivially
  copyable" (`threading.h:18`). `stopwatch::count()` is declared and not defined.
* `change_scheduling()` with a string for the error quits without a text.
  `have_PREEMPT_RT()` returns `-1`, which is true, under Linux.

### Bounds

* `thread`: three objects and two threads besides main. Two objects take part in a
  move, a third may hold another thread; two threads suffice for a thread that
  joins while another operates on its own objects. The three requests are one that
  succeeds, one without permission and one that fails the VERIFY. Symmetry over
  objects and threads is sound: no definition distinguishes them, and all
  properties are safety properties. Deadlock is not checked: three threads
  that join one another in a ring wait for ever, as they do under Linux.
* `task`: two tasks and two threads: a restart, or two tasks side by side. A slice
  of one microsecond of two ticks and three ticks of time distinguish "in time",
  "late by less than a microsecond" and "late". `MaxSteps` lets the clock be set once, back or forward.
* `base`, `poly_task`: three threads grow the vector 0, 1, 2, 4; `MaxCalls = 2` joins
  twice.
* `base`, real-time tests: tables of three and four priorities, of the shapes of the test (equal,
  decreasing, pairs); one table holds a priority above `RtLimit`, which is refused.
  `MaxSlices` lets slices expire twice. `TestsEnd` says that a program ends only by
  returning.
* `process`: two threads make four calls in all: request, request, reset, reset by
  one or both, or the begin and end of two sections in any overlap. Two descriptors
  are a device and another file, or two devices, and none is free for a third `open()`,
  which fails; the device may refuse a `write()` at any time. One page is mapped at first; the
  finite limit of two pages can be exceeded before or after `mlockall()`. The initial
  states are all combinations of capabilities, limits and device.
* `base`, the others: vectors of up to four of three values (all permutations, all patterns of
  equal elements); strings of up to five characters, two letters and separators (two
  words with empty tokens on either side, between and around them). Floats of 8 bits on a
  grid of `2^15` units to 1.0, with the significands of both ends, next to them and in
  the middle, at exponents from one unit to 127.5; a power of two lies between
  neighbours, .5 and 1.5 are among them. A millisecond is two microseconds and a microsecond two nanoseconds;
  in eight ticks all units change, and a sum above `TimeLimit` overflows. The clock
  is set by one tick at a time, one either way. Two calls of `stop()` are one that is
  repeated. Three calls by two loggers: one waits, one prints, one is made by an argument. Three
  threads that verify and exit. Two objects, two handles and three threads: the third
  has a handle that is used again. Deadlock is not checked: `MaxLines`, `MaxStarts`
  and the end of a process stop a behaviour; `LogReturns` says that no call of the
  logging functions does, but for a nested `BASE_LOG` and those who wait behind it.
* `split_skips_empty`, `join_at_separator`: a string of one separator and one of two
  words suffice; `MaxLength` is 3.

### Fairness

`CriticalTask!FairSpec`, and `MCSpec` for `PolyTask`, assume that a thread that can go on
does so eventually, and that thread functions return: FAQ.md makes the latter the
duty of a real-time thread, and real-time throttling leaves time for the main
thread. No fairness is assumed for the client's calls, nor for the clock.
`LoggingSpec` (and `MCSpec` with it) is weakly fair to the steps inside of a logging
call, not to the calls; a mutex is then obtained because every call that holds one
returns, except as `LogReturns` says, and the number of calls is bounded.
For `FifoOrder`, `MCSpec` is weakly fair to the main thread and to the threads that
the scheduler lets run: it never assumes that a thread runs that has no core.

## 4. Proofs

`PreemptThreadProofs` proves, for any sets of objects, threads and requests, any
limits and both builds, from `PosixAssumption` and `PreemptThreadAssumption`
(which say that the main thread, `None` and the others are different values and
that requests are pairs of a policy and a priority):

| Theorem | Says |
|---------|------|
| `Invariance` | `Spec => []Inv` |
| `TypeCorrect` | `Spec => []TypeOK` |
| `Ownership` | `Spec => []SingleOwner` |
| `NothingLost` | `Spec => []NoThreadLost` |
| `ExitIsClean` | `Spec => []CleanExit` |
| `GrantsHold` | `Spec => []RunsAsGranted` |
| `JoinIsUndisturbed` | `Spec => JoinTargetStays` |

None of the properties is inductive alone. `SingleOwner` needs `FramesInv`: a
`join()` in progress is on an object that represents a thread and on which no
other call is in progress. `NoThreadLost` needs `SingleOwner`: storage without a
living object represents nothing, so a constructor overwrites nothing. `CleanExit`
follows from both, and from `ReleaseInv`, which says that joined threads have
exited. `RunsAsGranted` rests on `SchedparamAnswer`: success is reported for a
thread that was scheduled or that has exited. `Inv` is their conjunction; there is
one lemma per action, and `NextInv` combines them.

`ProcessProofs` proves, for any number of threads, calls, pages and descriptors, from
`ProcessAssumption` (the bounds are positive, the latencies are below `NoLatency`):

| Theorem | Says |
|---------|------|
| `SectionProtected` | `Spec => []SectionIsProtected` |
| `ThreadsStart` | `Spec => []ThreadsCanStart` |
| `LatencyKept` | `Spec => []LatencyHolds` |
| `NoForeignFile` | `Spec => []OwnDescriptorOnly` |
| `NoLeak` | `Spec => []NothingLeaks` |

Pages and latency have an invariant each, and each is a frame for the steps of the
other. `PageInv`: a thread that comes to `mlockall()` has made room, MCL_FUTURE comes
with room, and while it is in force every page is locked. `LatencyInv`: a call that is
not shared is the only one (`AloneInv`), so it writes to the descriptor it opened
(`WriterInv`); while calls have not overlapped `g_fd_cpu_dma` is the device's
descriptor, or a thread is about to forget it (`GlobalInv`), and the others that are
open are those that requests overwrote (`LeakedInv`). A failed write changes none of this
before the same thread has reset. `PromiseInv` is the heart of `LatencyHolds`: some
descriptor holds the promised latency and no thread that is about to write can
reach it, since later requests open other descriptors.

### CriticalTask

`CriticalTaskProofs` proves, for any tasks and threads, any time slice and unit of time,
any settings of the clock and any permissions, from `PosixAssumption` and
`CriticalTaskAssumption`:

| Theorem | Says |
|---------|------|
| `TaskTypeCorrect` | `Spec => []TypeOK` |
| `HooksAreSerial` | `Spec => []OneHookPerTask` |
| `DeadlinesHold` | `Spec => []DeadlineEnforced` |
| `QuitsAreJustified` | `Spec => []QuitJustified` |
| `RuntimeIsMeasured` | `Spec => []RuntimeAfterJoin` |
| `ReturnIsClean` | `Spec => []CleanReturn` |
| `ImplementsSerialTask` | `Spec => RunsSerially` |
| `CallsNeverBlock` | `Spec => []`(a call goes on, or its thread is inside of `hook()`) |
| `CallsNeverTerminate` | `Spec => []TerminatedAtReturn` |

The invariant is `TaskInv`. A new thread runs before `thread_` represents it, so
"the thread of the task" is its `Holder`: `main.temp` while `start()` is about to
assign, else `thread_`. Every thread that was not joined is the holder of its own
task (`HolderInv`, `ThreadInv`), and `create` finds the task without one
(`MainInv`); therefore no two are uncollected. `DeadlineEnforced` needs `TimeInv`: a
thread that got past the check was not late by its own readings. `RuntimeAfterJoin`
needs to know which thread wrote `usec_` last: one begins only after the earlier
ones of its task have stored (`OrderInv`), hence `usec_` is what the latest measured
(`UsecInv`). For the refinement, `RunsSerially` counts the jobs begun by the threads
spawned: these are finite sets (`FiniteInv`), and each step of `CriticalTask` is
shown to be one of `SerialTask` or a stutter. `CallsNeverBlock` is the safety half of
`CallsReturn`: `HolderInv` says that `join()` waits for a thread that was begun, so that
either it has ended or it is in `hook()`, which waits for nothing. `CallsNeverTerminate`:
the assignment in `spawn()` meets an empty `thread_` (`MainInv`).

### PolyTask

`PolyTaskProofs`, for any number of clients, threads and calls, from
`PolyTaskAssumption`:

| Theorem | Says |
|---------|------|
| `PolyTypeCorrect` | `PolySpec => [](PolyTypeOK /\ BoundsInv)` |
| `MembersAreKept` | `PolySpec /\ []Serialized => []NoMemberLost` |
| `JoinIsComplete` | `PolySpec /\ []Serialized => []JoinCollectsAll` |
| `ReferenceIsOwn` | `PolySpec /\ []Serialized => []RefIsOwnThread` |
| `DestructionIsClean` | `PolySpec /\ []Serialized => []CleanDestruction` |
| `NoUseAfterFree` | `PolySpec /\ []Serialized => []StorageIsLive` |
| `OneClientIsSafe` | all five without the condition, if there is one client |

`Serialized` says that the calls of different clients do not overlap; the pool's own
threads run and end at any time. Without it the properties are false, as
`poly_concurrent_spawn` shows, and the code leaves it to the callers: the guard
releases `lock_` at the end of its own statement. `OneClientIsSafe` is the general
form of the run `base`. Of the invariant, `CellsInv` says that no thread is in
two cells, `HeldInv` that exactly those threads are in one that were not joined and are
not the temporary of the `spawn()` in progress, and `CallInv` that what this call
has read of the vector is still so.

### FifoOrder

`FifoOrderProofs`, for any tables of priorities, both kinds of thread and both
policies, under `Suitable`:

| Theorem | Says |
|---------|------|
| `NoLockIsNeeded` | `FifoSpec => []OneAtATime` |
| `CreationOrderIsKept` | `FifoSpec => []InCreationOrder` |
| `TestAlwaysSucceeds` | `FifoSpec => []TestSucceeds` |
| `NeverStuck` | `FifoSpec => [](process = "running" => MainGoesOn \/ ThreadGoesOn)` |
| `FifoTypeCorrect` | `FifoSpec => []FifoTypeOK` |

`Suitable` is what the test programs see to (`preempt_03_decrement.cc:37,44`):
priorities that do not increase, and decrease for SCHED_RR, on one real-time core.
`MCFifoOrder` assumes it, so TLC evaluates it for the programs of the run; section 3
says what fails without it. In the invariant, `OrderInv` says that the
threads that have ended are the first `e` created, that the counter is `e` below its
first value and that only thread `e + 1` can be between check and store; `LoopInv`
how far `main()` is; `QueueInv` how priorities and `since` order the threads.
From the last, the lemma `TheFirst` concludes that a thread on the core is the first
that has not ended: the order of creation is the order of the queue, and an expired
slice of SCHED_RR does not matter, as no other thread has the same priority.
`NeverStuck` is the safety half of `TestsEnd`: a real-time thread that has not ended
and is first in the queue has the core; if there is none, `main()` has it, and
a `join()` it is in returns, because the threads it may wait for have all exited.

### The modules of base

| Theorem | Says |
|---------|------|
| `BaseThreadTypeCorrect` | `BaseThreadSpec => []BaseThreadTypeOK` |
| `CheckedJoin` | `BaseThreadSpec => []CheckedJoinIsDefined` |
| `ChronoTypeCorrect` | `ChronoSpec => []ChronoTypeOK` |
| `TimeoutIsReached` | `ChronoSpec => []TimeoutHolds` |
| `BenchmarkCounts` | `ChronoSpec => []BenchmarkOnce` |
| `SplitsAreComplete` | `ChronoSpec => []SplitsAddUp` |
| `ExitsTypeCorrect` | `ExitsSpec => []ExitsTypeOK` |
| `NoFailureHidden` | `ExitsSpec => []NothingHidden` |
| `LoggingTypeCorrect` | `LoggingSpec => []LoggingTypeOK` |
| `LogLinesAreWhole` | `LoggingSpec => []LinesAreWhole` |
| `SortTypeCorrect` | `SortSpec => []SortTypeOK` |
| `SortIsCorrect` | `SortSpec => []SortReturns` |
| `StringsTypeCorrect` | `StringsSpec => []StringsTypeOK` |
| `SplitIsComplete` | `StringsSpec => []SplitFindsTokens` |
| `JoinKeepsAll` | `StringsSpec => []NoCharacterLost` |
| `OnlyNestedLogsDeadlock` | `LoggingSpec => []SomeCallGoesOn` |
| `NumericTypeCorrect` | `NumericSpec => []NumericTypeOK` |
| `RoundingIsNearest` | `NumericSpec => []RoundIsNearest` |
| `ToleranceHolds` | `NumericSpec => []ToleranceIsEpsilon` |
| `ConversionsAreExact` | `NumericSpec => []ConversionsRoundTrip` |

`BaseThread` (in `BaseProofs`), for any number of objects, handles and threads: as long as `misuse`
is empty, a handle names one thread (`NamesInv`), joinable objects have the handles of
different living or exited threads (`ObjectsInv`), and a join in progress is the only one
of its object, which has not changed (`JoinsInv`). So the kernel cannot give a handle
out again before the object that has it was joined.

`ChronoProofs`, for any durations, units and settings of the clock, from
`ChronoAssumption`: `TimeoutInv` says that `t1_` is when the timeout is due by the clock
of its construction; `BenchmarkInv` bounds `sum_` by `stops` times the elapsed time, and
its step needs the lemma `OneMoreStop`. `SplitInv` adds one truncation to the bounds of
`SplitsAddUp` per `stop()` (`NextSplit`); that the units agree is the lemma `CastTwice`:
truncating twice truncates once by the product, for negative times too.

`BaseProofs`, on the other modules:

* `Exits`, any number of threads: a failed `VERIFY` has been reported, and the flag is
  cleared or the thread is still in `verify_error()` (`FailedInv`), which `MainReturns`
  has waited for.
* `Logging`, any number of threads and calls: a facility once used stays used
  (`UsedInv`), so where one facility is used, only that one has been. Each has
  its mutex (`MutexInv`), and whoever is between the use of a static buffer and the
  line holds it, with its own time in the buffer (`TraceInv`, `LogInv`). `MutexInv` also
  says that a mutex that is locked has a holder inside of a call. Therefore
  (`OnlyNestedLogsDeadlock`) some thread can go on, or a thread has locked
  `g_logging_mutex` twice and all others wait for it: the holder of the mutex of
  `trace()` waits for nothing; without one, the holder of `g_logging_mutex` waits for
  itself or not at all.
* `BubbleSort`, vectors of any length of any integers: a pass carries
  the greatest element it has met, and the last `i - 1` places are final (`PassInv`). The elements are the given ones because an exchange is a bijection of
  places (`ExchangeKeepsElements`). `result` and the inversions left add up to those
  of the argument, or to more if elements are equal (`CountInv`), since an exchange
  of neighbours undoes exactly one inversion (`ExchangeUndoesOne`) and a sorted vector has
  none (`NoInversions`).
* `Strings`, any string: the words that begin before the position of `split()`, and only
  they, are its tokens, each one whole (`SearchInv`); `NewWord` is the round that
  finds one, from what `find` returns (`FindProperties`, by the least number principle).
  What `join()` has written is, character by character, what is kept of the string up to
  the end of the word before its iterator (`JoinInv`, `Glued`): a character is found at
  the place that is the number of kept places up to it, so no induction over the tokens
  is needed. Until the last token no separator is written. `GlueWord` is the step for a
  word, `GluedAll` and `KeptOfJoined` are the end.

### Numeric

`NumericProofs`, for any precision of two bits or more, any scale, any range of exponents and
any floats in it, from two assumptions that TLC evaluates for the constants of the run:

* `NumericAssumption`, which is true of IEEE 754 doubles (`Precision` 53, a grid of
  `2^-1074`, `MaxExponent` 2045, `Thousand` 1000): 1.0 is a power of two on the grid with
  room on both sides, the factors of the conversions are small, and what a program asks
  about does not overflow when it is multiplied by them.
* `PowersOfTwo`, a fact of arithmetic (`2^(k+1) = 2 * 2^k`): the provers know only that `^`
  yields a number. Which powers lie between others follows by induction on
  the exponent, as there is no least counterexample (`Least`).

The argument: a float is a multiple of its last place (`Canonical`), rounding does not pass a
float (`Sandwich`), and moves a number by at most half a place, that is, by a
`2^Precision`-th of it or half a unit of the grid (`ErrorBound`). For `RoundingIsNearest`:
to add .5 and to round does not cross an integer (`FloorKept`), as there is a float
between (`Ceiling`), except from `BelowHalf`; that is why `RoundIsNearest` excludes this
number, and `2^(Precision - 1)` and more. For `ToleranceHolds`: the tolerance is itself a float
(`ToleranceOf`), so a difference within it is not rounded out of it, and two
conversions move a number by less than the epsilon (`ErrorBound`, `CloseEnough`). For
`ConversionsAreExact`: divided by a factor and multiplied by it, a number below
`2^(Precision - 2)` has moved by less than half a nanosecond (`MovedLittle`), so
`round_to_nearest()` restores it, which a cast would not.

### Only model-checked

* Liveness and fairness, which are outside the prover's reach: `CallsReturn` (of
  `CriticalTask` and of `PolyTask`), `TestsEnd`, `LogReturns`. `NeverStuck`,
  `CallsNeverBlock` and `OnlyNestedLogsDeadlock` are what can be said of them without ENABLED:
  somebody can always take a step. That these steps suffice is TLC's result.
* The properties of the runs that expect a violation, which are false.

Every invariant and action property of a passing run, and the refinement, is a theorem.

## 5. Plan

Done: the modules of section 2, their runs, and a theorem for every safety property of the
passing runs. What could be added:

1. a ring of threads that join one another (`thread.h:213`), which no document excludes and
   no property of this project can therefore promise;
2. the counters of `testmatrix.sh`, if the script is to be relied on in a release.

## 6. Not modelled

* `testmatrix.sh`: a sequential script that builds and runs the tests. (Its shy mode
  has to be given as `-ss` to stop at the first error, line 352, which its help at
  line 37 does not say.)
* `scheduler.h`: declarations without definitions, and names that do not exist.
* `idioms.h`, `utility.h`: interfaces and wrappers of one line.
  `depends_on::get_parameters()` locks a `const` mutex and does not compile when used.
* `sprintf()`, `clamp()`, `interval`: a call of the C library, and single comparisons.
  `interval::clamp()` does not compile when used, as `Less` cannot be deduced.
* The queries of `posix.h` and `base.cc` except for the range of priorities, `yield()`,
  `busyloop()`: they read the system, or change no state.
* The texts of messages, their layout, and the toolchain tests `std_0*.cc`,
  `*_main.cc`; the other tests use the modelled classes with one schedule each.
