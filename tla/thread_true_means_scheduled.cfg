CONSTANTS
  Objects = {o1}
  Threads = {t1}
  Main = main
  None = none
  NDEBUG = FALSE
  RtLimit = 1
  MaxPriority = 99
  Requests <- MCRequest
SPECIFICATION Spec
INVARIANT TrueMeansScheduled
CHECK_DEADLOCK FALSE
