SPECIFICATION FairSpec
CONSTANTS
  e1 = e1  e2 = e2  e3 = e3
  c1 = c1  c2 = c2
  turn = turn  turnOfOther = turnOfOther  stopTurn = stopTurn  retention = retention
  None = None
  Envelopes = {e1, e2, e3}
  Commands = {c1}
  Requests = {turn, stopTurn, retention}
  LaneOf <- MCLaneOf
  PrintOf <- MCPrintOf
  OwnerOf <- MCOwnerOf
  HolderOf <- MCNoFiles
  Asks <- MCOneEach
  Capacity = 3
  Reserve = 1
  MaxEvents = 1
  MaxRestarts = 0
INVARIANTS
  OutstandingCountsUnfinished
  OvertakenAtMostOnce
PROPERTIES
  EveryCommandAnswered
  StopCompletes
