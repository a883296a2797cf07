\* Rebuilds fail and die, servers start again and again; refills run to their end.
CONSTANTS
  Base = 5
  CodeLength = 1
  BatchSize = 2
  PoolLow = 6
  PageSize = 1
  MaxLinks = 1
  c1 = c1
  r1 = r1
  r2 = r2
  b1 = b1
  Creators = {c1}
  Refillers = {r1, r2}
  Rebuilders = {b1}
  Faulty = {b1}
  LockMayLapse = FALSE
  TrafficStops = FALSE
SPECIFICATION FairSpec
\* Creates stop at the bound MaxLinks, refills when the length is exhausted.
CHECK_DEADLOCK FALSE
PROPERTIES LockEventuallyFree RefillAdvances
