SPECIFICATION Spec
CONSTANTS
  e1 = e1  e2 = e2  e3 = e3
  c1 = c1  c2 = c2
  turn = turn  turnOfOther = turnOfOther  stopTurn = stopTurn  retention = retention
  None = None
  Envelopes = {e1, e2}
  Commands = {c1, c2}
  Requests = {turn, turnOfOther, stopTurn}
  LaneOf <- MCLaneOf
  PrintOf <- MCPrintOf
  OwnerOf <- MCOwnerOf
  HolderOf <- MCHolderOf
  Asks <- MCRepeats
  Capacity = 2
  Reserve = 1
  MaxEvents = 2
  MaxRestarts = 1
INVARIANTS
  TypeOK
  CommittedAtMostOnce
  AbandonedNeverCommits
  RejectedNeverCommitted
  DecidesOnEveryCommit
  AcceptedMeansPublished
PROPERTIES
  ImplementsLedger
