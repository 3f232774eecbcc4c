SPECIFICATION FairSpec
CONSTANTS
  ui = ui
  None = None
  Readers = {ui}
  Subject = {1, 3}
  Limit = 1
  Capacity = 1
  MaxSequence = 3
  MaxPurges = 1
  MaxBreaks = 1
CHECK_DEADLOCK FALSE
INVARIANTS
  CursorVouches
PROPERTY
  ViewCatchesUp
