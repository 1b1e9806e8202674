\* A stash left behind without a word.
SPECIFICATION Spec
CONSTANTS
  w1 = w1
  w2 = w2
  f1 = f1
  f2 = f2
  NoRun = NoRun
  Worktree <- MCWorktree
  File <- MCFile
  Hooks <- MCHooks
  Trees <- MCTrees
  MaxRuns = 1
  MaxOutsider = 1
INVARIANTS
  AlwaysTriesToPop
