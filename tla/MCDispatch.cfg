\* All calls of MCCases.
CONSTANTS
  bad = bad
  Bad = bad
  Builtin <- MCBuiltin
  Bytes <- MCBytes
  MaxArg = 12
  GitHooks <- MCGitHooks
  Candidates <- MCCandidates
  Locals <- MCLocals
  File <- MCFile
  Cases <- MCCases
SPECIFICATION Spec
CHECK_DEADLOCK TRUE
INVARIANTS LastWriterWins OnlyCyclesAndBadFilesFail
  JobsRunInOrder CommandsCoverTheFiles PackagesPartition
PROPERTY ImportsLoad
