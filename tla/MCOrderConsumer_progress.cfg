CONSTANTS
  c1 = c1
  c2 = c2
  p1 = p1
  p2 = p2
  a = a
  b = b
  Consumers = {c1, c2}
  Partitions = {p1}
  Uids = {a, b}
  Nobody = Nobody
  NoMessage = NoMessage
  Log <- MCLogSingle
  RetryCount = 2
  MaxFaults = 2
  MaxExpiries = 1
  MaxCrashes = 1
  MaxTakeovers = 1
  MaxStops = 0
SPECIFICATION FairSpec
INVARIANTS
  TypeOK
PROPERTIES
  EveryMessageHandled
  EveryOrderSaved
