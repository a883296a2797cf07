\* One server's jobs and two clients; one client and the recycler may fail and die.
CONSTANTS
  a = a
  l1 = l1
  c1 = c1
  c2 = c2
  e1 = e1
  r1 = r1
  Codes = {a}
  Links = {l1}
  Terms = {0}
  Year = 1
  PageSize = 1
  MaxRows = 2
  Clients = {c1, c2}
  Expirers = {e1}
  Recyclers = {r1}
  Admins = {c1}
  Faulty = {c1, r1}
SPECIFICATION FairSpec
\* With every link recycled or removed and no create left nothing happens.
CHECK_DEADLOCK FALSE
INVARIANTS TypeOK OneOwner MappingAgrees
PROPERTIES CodesComeBack ImplementsOwnership
