SPECIFICATION StoreSpec
CONSTANTS
  Processes = {p1, p2}
  Keys = {k1}
  Versions = {v2, v3}
  NoVersion = none
  Torn = torn
  Callers = {c1, c2}
  Actions = {a1, a2}
  Nobody = nobody
  Declared <- MCDeclared
  MaxCalls = 2
INVARIANTS StoreTypeOK PresentValid
PROPERTIES ImplementsContract ClientReturns
CHECK_DEADLOCK FALSE
