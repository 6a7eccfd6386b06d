CONSTANTS
  c1 = c1
  c2 = c2
  p1 = p1
  p2 = p2
  a = a
  b = b
  Consumers = {c1, c2}
  Partitions = {p1, p2}
  Uids = {a, b}
  Nobody = Nobody
  NoMessage = NoMessage
  Log <- MCLogPair
  RetryCount = 2
  MaxFaults = 2
  MaxExpiries = 0
  MaxCrashes = 1
  MaxTakeovers = 1
  MaxStops = 1
SYMMETRY Symmetry
SPECIFICATION Spec
INVARIANTS
  CommittedHandled
  LossOnlyByGivingUp
  NoLossWithinBudget
PROPERTIES
  ImplementsDelivery
