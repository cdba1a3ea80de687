SPECIFICATION FairSpec
CONSTANTS
  c1 = c1
  c2 = c2
  c3 = c3
  p1 = p1
  p2 = p2
  Calls = {c1, c2, c3}
  Pkg <- MCPkg
  Gates <- MCGates
INVARIANTS TypeOK CapsKept ParkedOnlyWhenRefused
PROPERTY AcquireReturns
CHECK_DEADLOCK FALSE
