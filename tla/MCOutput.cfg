\* Both kinds of hook, failing fast or not, with errors in every place.
CONSTANTS
  Job = {1, 2}
  Work <- MCWork
  Room = 1
  LocalRoom = 1
SPECIFICATION Spec
CHECK_DEADLOCK TRUE
INVARIANTS  CaptureIsWhatIsPrinted ReportMeansPrinted
PROPERTY RunEnds
