CONSTANTS
  Clients = {c1, c2}
  Uids = {1, 2, 3}
  Orders = {v}
  NoOrder = NoOrder
  NoCall = NoCall
  Capacity = 1
  MaxStamp = 2
  MaxFaults = 1
SYMMETRY Symmetry
SPECIFICATION Spec
INVARIANTS
  TypeOK
  IndexBounded
  CacheExact
PROPERTIES
  ImplementsLossyCache
