CONSTANTS
  Clients = {c1, c2}
  Threads = {t1, t2}
  None = none
  MaxCalls = 1
SPECIFICATION PolySpec
INVARIANT RefIsOwnThread
