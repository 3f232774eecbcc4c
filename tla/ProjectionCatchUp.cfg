SPECIFICATION Spec
CONSTANTS
  MaxSequence = 4
  MaxBatch = 2
  MaxTimeouts = 1
  MaxFailures = 1
  MaxReplays = 1
  MaxRepairs = 2
  MaxAborts = 1
  MaxRestarts = 1
CHECK_DEADLOCK FALSE
INVARIANTS
  CursorsNeverAhead
