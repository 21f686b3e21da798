-------------------------------- MODULE Exits ---------------------------------
(***************************************************************************)
(* VERIFY(), global_verify_flag(), quick_exit(), terminate() and           *)
(* breakpoint() (include/base/verify.h, src/base.cc), in a program such as *)
(* those under tests/: main() starts workers, joins them and returns       *)
(* global_verify_flag() ? EXIT_SUCCESS : EXIT_FAILURE.                     *)
(*                                                                         *)
(* What a thread prints to stdout stays in the buffer of the stream until  *)
(* it is flushed; stderr has no buffer.  Messages are not modelled, but    *)
(* whether there is one.                                                   *)
(***************************************************************************)
EXTENDS Naturals

CONSTANTS
  Workers,   \* threads besides main()
  Main

ASSUME ExitsAssumption == Main \notin Workers

Everyone == Workers \cup {Main}

VARIABLES
  g_verify_flag,
  doing,      \* doing[t]: the next step of the call that t is inside of
  buffer,     \* the threads with output in the buffer of stdout
  reported,   \* the threads that have printed a message on stderr
  failed,     \* history: the threads of which a VERIFY failed
  ending      \* "running", or how the process ended, and by whom

exitVars == <<g_verify_flag, doing, buffer, reported, failed, ending>>

ExitsInit ==
  /\ g_verify_flag = TRUE
  /\ doing = [t \in Everyone |-> "work"]
  /\ buffer = {} /\ reported = {} /\ failed = {}
  /\ ending = [how |-> "running", by |-> Main]

Does(t, from, to) ==
  /\ ending.how = "running"
  /\ doing[t] = from
  /\ doing' = [doing EXCEPT ![t] = to]

End(t, how) == ending' = [how |-> how, by |-> t]

------------------------------------------------------------------------------

\* The thread prints to stdout.
Work(t) ==
  /\ Does(t, "work", "work")
  /\ buffer' = buffer \cup {t}
  /\ UNCHANGED <<g_verify_flag, reported, failed, ending>>

\* VERIFY(expr), where expr is false: verify_error() prints a message.
Verify(t) ==
  /\ Does(t, "work", "verify_error")
  /\ failed' = failed \cup {t}
  /\ reported' = reported \cup {t}
  /\ UNCHANGED <<g_verify_flag, buffer, ending>>

global_verify_flag(v) == g_verify_flag' = v

VerifyError(t) ==
  /\ Does(t, "verify_error", "work")
  /\ global_verify_flag(FALSE)
  /\ UNCHANGED <<buffer, reported, failed, ending>>

\* quick_exit() and terminate(): the description, or errno if it is not zero.
Message(t, descr) ==
  \E errno \in BOOLEAN :
    reported' = IF descr \/ errno THEN reported \cup {t} ELSE reported

QuickExit(t, descr) ==
  /\ Does(t, "work", "fflush")
  /\ Message(t, descr)
  /\ UNCHANGED <<g_verify_flag, buffer, failed, ending>>

\* The overload with a file and a line prints these first.
QuickExitAt(t) ==
  /\ Does(t, "work", "quick_exit")
  /\ reported' = reported \cup {t}
  /\ UNCHANGED <<g_verify_flag, buffer, failed, ending>>

QuickExitGoesOn(t, descr) ==
  /\ Does(t, "quick_exit", "fflush")
  /\ Message(t, descr)
  /\ UNCHANGED <<g_verify_flag, buffer, failed, ending>>

\* std::fflush(stdout)
Flushed_StderrOnly == buffer
Flushed == {}

Flush(t) ==
  /\ Does(t, "fflush", "breakpoint")
  /\ buffer' = Flushed
  /\ UNCHANGED <<g_verify_flag, reported, failed, ending>>

\* The variable RUNNING_UNDER_DEBUGGER is defined and not empty.
running_under_debugger(env) == env \in {"other"}

\* breakpoint() raises SIGTRAP, which ends a process that no debugger holds.
breakpoint(env, debugger) == running_under_debugger(env) /\ ~debugger

\* Then std::quick_exit(EXIT_FAILURE), which flushes nothing.
Quit(t, ndebug) ==
  /\ Does(t, "breakpoint", "quit")
  /\ \E env \in {"undefined", "empty", "other"}, debugger \in BOOLEAN :
       \/ ~ndebug /\ breakpoint(env, debugger) /\ End(t, "trapped")
       \/ (ndebug \/ ~breakpoint(env, debugger)) /\ End(t, "quick_exit")
  /\ UNCHANGED <<g_verify_flag, buffer, reported, failed>>

\* terminate() neither flushes nor calls breakpoint().
Terminate(t, descr) ==
  /\ Does(t, "work", "terminated")
  /\ Message(t, descr)
  /\ End(t, "terminated")
  /\ UNCHANGED <<g_verify_flag, buffer, failed>>

TerminateAt(t) ==
  /\ Does(t, "work", "terminated")
  /\ reported' = reported \cup {t}
  /\ End(t, "terminated")
  /\ UNCHANGED <<g_verify_flag, buffer, failed>>

------------------------------------------------------------------------------

WorkerReturns(t) ==
  /\ t \in Workers
  /\ Does(t, "work", "returned")
  /\ UNCHANGED <<g_verify_flag, buffer, reported, failed,
                 ending>>

\* main() returns when it has joined the workers, and stdout is flushed.
Joined_Not == TRUE
Joined == \A t \in Workers : doing[t] = "returned"

MainReturns ==
  /\ Joined
  /\ Does(Main, "work", "returned")
  /\ End(Main, IF g_verify_flag THEN "EXIT_SUCCESS" ELSE "EXIT_FAILURE")
  /\ buffer' = {}
  /\ UNCHANGED <<g_verify_flag, reported, failed>>

ExitsNext ==
  \/ \E t \in Everyone :
       \/ Work(t) \/ Verify(t) \/ VerifyError(t)
       \/ \E descr \in BOOLEAN : QuickExit(t, descr) \/ QuickExitGoesOn(t, descr)
       \/ QuickExitAt(t) \/ Flush(t)
       \/ \E ndebug \in BOOLEAN : Quit(t, ndebug)
       \/ \E descr \in BOOLEAN : Terminate(t, descr)
       \/ TerminateAt(t) \/ WorkerReturns(t)
  \/ MainReturns

ExitsSpec == ExitsInit /\ [][ExitsNext]_exitVars

------------------------------------------------------------------------------
(* Properties. *)

ExitsTypeOK ==
  /\ g_verify_flag \in BOOLEAN
  /\ doing \in [Everyone -> {"work", "verify_error", "quick_exit", "fflush", "breakpoint",
                             "quit", "terminated", "returned"}]
  /\ buffer \subseteq Everyone /\ reported \subseteq Everyone /\ failed \subseteq Everyone
  /\ ending \in [how : {"running", "EXIT_SUCCESS", "EXIT_FAILURE", "quick_exit",
                        "terminated", "trapped"}, by : Everyone]

\* No failure is hidden, whichever threads fail, and however their steps overlap: a
\* process that returns EXIT_SUCCESS is one in which no VERIFY has failed ("True if
\* all VERIFY() macros evaluated true so far", verify.h:39), one that returns
\* EXIT_FAILURE has said why, and the thread that ends it by quick_exit() leaves
\* none of its own output in the buffer.
NothingHidden ==
  /\ ending.how = "EXIT_SUCCESS" => failed = {}
  /\ ending.how = "EXIT_FAILURE" => failed # {} /\ failed \subseteq reported
  /\ ending.how = "quick_exit" => ending.by \notin buffer

==============================================================================
