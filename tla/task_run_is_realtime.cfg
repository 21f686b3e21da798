CONSTANTS
  Tasks = {k1}
  Threads = {t1}
  None = none
  Us = 1
  TicksPerUs = 2
  MaxClock = 2
  MaxSteps = 0
  RtLimit = 1
  MaxPriority = 99
  Priorities = {1}
  Garbage = {99}
  NDEBUG = FALSE
SPECIFICATION Spec
INVARIANT RunIsRealtime
