CONSTANTS
  Objects = {o1, o2, o3}
  Threads = {t1, t2}
  Main = main
  None = none
  NDEBUG = FALSE
  RtLimit = 1
  MaxPriority = 99
  Requests <- MCRequests
SYMMETRY Symmetry
SPECIFICATION Spec
INVARIANTS
  SingleOwner
  NoThreadLost
  CleanExit
  RunsAsGranted
  Inv
PROPERTY JoinTargetStays
CHECK_DEADLOCK FALSE
