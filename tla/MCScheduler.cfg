\* Three jobs, two at a time or (limit 0) one at a time.
SPECIFICATION Spec
CONSTANTS
  NumJobs = 3
  src = src
  gen = gen
  Pattern <- MCPattern
  ProbeHit <- MCProbeHit
  Hooks <- MCHooks
INVARIANTS
  TypeOK
  ConflictsNeverOverlap
  NoIdleSlot
  ReportIsComplete
  NoFailureIsLost
  NoTaskOutlivesReport
PROPERTIES
  ReleaseAssertionsHold
  ImplementsSchedule
  RunReturns
