CONSTANTS
  MaxUploads = 2
  MaxFaults = 1
SPECIFICATION Spec
INVARIANTS
  VerdictIsTrue
  Watched
  OneMonitor
PROPERTIES
  ProcessingEnds
CHECK_DEADLOCK FALSE
