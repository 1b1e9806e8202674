\* Installs from worktrees that want different hooks.
CONSTANTS
  p1 = p1
  p2 = p2
  b1 = b1
  b2 = b2
  Proc = {p1, p2}
  HookName = {1, 2}
  Bin = {b1, b2}
  Requests <- MCRequests
  MaxCalls = 2
  MaxUser = 0
SPECIFICATION Spec
CHECK_DEADLOCK FALSE
SYMMETRY MCSymmetry
INVARIANT EveryWrapperIsListed
