\* A Create finds the pool empty.
CONSTANTS
  Base = 5
  CodeLength = 1
  BatchSize = 2
  PoolLow = 1
  PageSize = 1
  MaxLinks = 2
  c1 = c1
  r1 = r1
  Creators = {c1}
  Refillers = {r1}
  Rebuilders = {}
  Faulty = {}
  LockMayLapse = FALSE
  TrafficStops = FALSE
SPECIFICATION Spec
\* Creates stop at the bound MaxLinks, refills when the length is exhausted.
CHECK_DEADLOCK FALSE
INVARIANT EveryLinkHasACode
