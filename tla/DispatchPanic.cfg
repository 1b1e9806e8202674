\* The calls of MCCases, for what the command expects of resolve.
CONSTANTS
  bad = bad
  Bad = bad
  Builtin <- MCBuiltin
  Bytes <- MCBytes
  MaxArg = 12
  GitHooks <- MCGitHooks
  Candidates <- MCCandidates
  Locals <- MCLocals
  File <- MCFile
  Cases <- MCCases
SPECIFICATION Spec
CHECK_DEADLOCK TRUE
INVARIANT HookIsValidated
