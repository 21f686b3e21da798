CONSTANTS
  Elements = {1, 2, 3}
  MaxLen = 4
  SizeBits = 8
  Letters = {a, b}
  Sep = Sep
  MaxLength = 5
  Precision = 8
  One = 32768
  MaxExponent = 21
  Thousand = 7
  Significands = {1, 128, 129, 191, 254, 255}
  Exponents = {0, 6, 7, 8, 9, 10, 11, 12, 14}
  Kilo = 2
  Timeouts = {0, 1, 3, 5}
  Garbage = {4, 7}
  MaxTime = 8
  TimeLimit = 9
  MaxSet = 1
  MaxStops = 2
  Loggers = {l1, l2}
  Nobody = Nobody
  MaxLines = 3
  MaxSeconds = 1
  Workers = {w1, w2}
  Main = Main
  Owners = {o1, o2}
  Variables = {b1, b2}
  Handles = {h1, h2}
  NoHandle = NoHandle
  MaxStarts = 3
  Programs <- MCPrograms
  First = 4
  RtCores = 1
  MaxSlices = 2
  RtLimit = 3
  MaxPriority = 99
  Clients = {c1}
  Threads = {t1, t2, t3}
  None = None
  MaxCalls = 2
SPECIFICATION MCSpec
INVARIANT BenchmarkMeasures
CHECK_DEADLOCK FALSE
