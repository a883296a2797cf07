\* Requests, refills and both jobs at once over the backends of one process.
CONSTANTS
  c1 = c1
  c2 = c2
  g1 = g1
  BatchSize = 1
  Low = 0
  PageSize = 1
  Batches = 2
  MaxRows = 2
  Clients = {c1, c2}
  Editors = {c1}
  Refills = {g1}
SPECIFICATION FairSpec
\* All codes may be used up, and every row recycled.
CHECK_DEADLOCK FALSE
INVARIANTS TypeOK CodesUnique NothingLost
PROPERTIES NoRowWaits ImplementsOwnership
