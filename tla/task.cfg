CONSTANTS
  Tasks = {k1, k2}
  Threads = {t1, t2}
  None = none
  Us = 1
  TicksPerUs = 2
  MaxClock = 3
  MaxSteps = 1
  RtLimit = 1
  MaxPriority = 99
  Priorities = {1, 2}
  Garbage = {99}
  NDEBUG = FALSE
SPECIFICATION FairSpec
INVARIANTS
  OneHookPerTask
  DeadlineEnforced
  QuitJustified
  RuntimeAfterJoin
  CleanReturn
PROPERTIES
  RunsSerially
  CallsReturn
