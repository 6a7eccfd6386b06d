CONSTANTS
  Clients = {warmer, c1}
  Uids = {1, 2, 3}
  Orders = {v}
  NoOrder = NoOrder
  NoCall = NoCall
  Capacity = 2
  MaxStamp = 3
  MaxFaults = 1
  Warmer = warmer
  Date <- MCDate
  Boot = 2
  Live = {1, 3}
SPECIFICATION MCFairSpec
INVARIANTS
  WarmedAreLast
  WarmIndexBounded
PROPERTIES
  WarmUpEnds
