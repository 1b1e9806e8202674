\* Safety and liveness: three clients, or two of which one asks twice.
SPECIFICATION Spec
CONSTANTS
  c1 = c1
  c2 = c2
  c3 = c3
  Client <- MCClient
  Key <- MCKey
  Patience = {TRUE, FALSE}
  Budgets <- MCBudgets
CHECK_DEADLOCK TRUE
INVARIANTS
  PermitsConserved
  NobodyWaitsForAFreePermit
  MutualExclusion
  ExitServesNobody
PROPERTIES
  TimedAcquireIsAnswered
  DeadClientsLetGo
