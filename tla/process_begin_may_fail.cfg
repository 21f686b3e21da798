CONSTANTS
  Callers = {t1, t2}
  Latencies = {0, 20}
  NoLatency = 2000
  MaxPages = 3
  MaxFd = 2
  SmallLimit = 2
  MaxCalls = 4
SYMMETRY Symmetry
SPECIFICATION Spec
INVARIANT SafeToStart
