\* Two servers' LRUs over Redis, or one over memory; edits, removals and expiry.
CONSTANTS
  a = a
  l1 = l1
  l2 = l2
  v1 = v1
  v2 = v2
  s1 = s1
  s2 = s2
  Codes = {a}
  Links = {l1, l2}
  Visitors = {v1, v2}
  Servers = {s1, s2}
  Home = s1
  TTL = 2
  Latency = 1
  Lives = {0, 9}
  Forever = 9
  MaxEdits = 3
SPECIFICATION FairSpec
INVARIANTS TypeOK BoundedStaleness
PROPERTIES OnlyEditsEndMappings EventuallyCurrent
