SPECIFICATION FairSpec
CONSTANTS
  a = a
  b = b
  w1 = w1
  w2 = w2
  s = s
  t = t
  Clients = {a, b}
  Workers = {w1, w2}
  Snapshots = {s, t}
  NoBarrier = NoBarrier
  Plans <- PanicPlans
PROPERTY CallsReturnDespitePanics
CHECK_DEADLOCK FALSE
