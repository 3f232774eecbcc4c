SPECIFICATION FairSpec
CONSTANTS
  Subscribers = {s1}
  WindowSize = 1
  PageSize = 1
  MaxSequence = 4
  MaxPurges = 1
  MaxRestarts = 1
INVARIANTS
  DrainedMeansCaughtUp
PROPERTY
  ImplementsReader
