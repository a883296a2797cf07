\* Creates fail and die; the pool is rebuilt while no Create runs.
CONSTANTS
  Base = 5
  CodeLength = 1
  BatchSize = 2
  PoolLow = 1
  PageSize = 1
  MaxLinks = 2
  c1 = c1
  c2 = c2
  r1 = r1
  r2 = r2
  b1 = b1
  Creators = {c1, c2}
  Refillers = {r1, r2}
  Rebuilders = {b1}
  Faulty = {c1, c2}
  LockMayLapse = FALSE
  TrafficStops = TRUE
SPECIFICATION Spec
\* Creates stop at the bound MaxLinks, refills when the length is exhausted.
CHECK_DEADLOCK FALSE
SYMMETRY Symmetry
INVARIANTS UniqueUntilWrap RebuildExact
PROPERTIES ImplementsOwnership
