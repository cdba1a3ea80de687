SPECIFICATION BudgetFairSpec
CONSTANTS
  a1 = a1
  a2 = a2
  a3 = a3
  a4 = a4
  c1 = c1
  c2 = c2
  Actions = {a1, a2, a3, a4}
  Want <- MCWant
  Ctx <- MCCtx
  BudgetBytes = 4
  MaxConcurrency = 2
INVARIANTS BudgetTypeOK CapsRespected ParkedOnlyWhenFull
PROPERTIES BudgetAcquireReturns CancelUnblocks
CHECK_DEADLOCK FALSE
