\* The recyclers of two servers run at the same time; nothing fails.
CONSTANTS
  a = a
  l1 = l1
  c1 = c1
  e1 = e1
  r1 = r1
  r2 = r2
  Codes = {a}
  Links = {l1}
  Terms = {1}
  Year = 1
  PageSize = 1
  MaxRows = 2
  Clients = {c1}
  Expirers = {e1}
  Recyclers = {r1, r2}
  Admins = {}
  Faulty = {}
SPECIFICATION Spec
\* With every link recycled or removed and no create left nothing happens.
CHECK_DEADLOCK FALSE
INVARIANTS NeverTwoOwners
