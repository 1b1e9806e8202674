\* Two worktrees, one run each, one move of the outsider.
SPECIFICATION Spec
CONSTANTS
  w1 = w1
  w2 = w2
  f1 = f1
  f2 = f2
  NoRun = NoRun
  Worktree <- MCWorktree
  File <- MCFile
  Hooks <- MCHooks
  Trees <- MCTrees
  MaxRuns = 1
  MaxOutsider = 1
INVARIANTS
  UserWorkSurvives
  NoRunBuriesAnother
  ReportMeansRestored
  EntryLeftIsReported
  NoUnstagedWorkIsStaged
PROPERTIES
  EveryRunReturns
