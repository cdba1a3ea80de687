SPECIFICATION FairSpec
CONSTANTS
  a = a
  b = b
  w1 = w1
  w2 = w2
  s = s
  t = t
  Clients = {a, b}
  Workers = {w1, w2}
  Snapshots = {s, t}
  NoBarrier = NoBarrier
  Plans <- MCPlans
INVARIANTS TypeOK ReadersExcludeWriters PhasesBalanced WritesLanded
PROPERTY CallsReturn
CHECK_DEADLOCK FALSE
