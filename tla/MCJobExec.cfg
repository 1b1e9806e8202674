CONSTANTS
  Run = {1, 2}
  Job = {1, 2}
  Hooks <- MCHooks
  Jobs <- MCJobs
  Unstaged <- MCUnstaged
  Unlocked = Unlocked
  Free = Free
SPECIFICATION FairSpec
INVARIANTS IsolationHolds FixesAreStaged
PROPERTIES CancelReaches TimedJobsEnd
CHECK_DEADLOCK FALSE
