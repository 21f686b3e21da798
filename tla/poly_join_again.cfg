CONSTANTS
  Clients = {c1}
  Threads = {t1, t2}
  None = none
  MaxCalls = 2
SPECIFICATION PolySpec
INVARIANT JoinJoinsAll
