SPECIFICATION FairSpec
CONSTANTS
  Writers = {w1, w2}
  Readers = {r1}
  Uids <- MCUids
  Items <- MCItems
  Orders <- AllOrders
  u1 = u1
  u2 = u2
  i1 = i1
  i2 = i2
  None = None
  MaxErrors = 1
  MaxDeletes = 1
  MaxReads = 1
INVARIANTS
  WholeOrder
  ReadWhole
PROPERTIES
  ImplementsArchive
  EverySaveReturns
