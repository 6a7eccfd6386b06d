CONSTANTS
  Callers = {r1, r2}
  Warmer = Warmer
  Uids = {u1}
  Orders <- MCOrders
  Joined <- MCJoined
  Apart <- MCApart
  plain = plain
  odd = odd
  NoOrder = NoOrder
  NoWrite = NoWrite
  Capacity = 1
  MaxErrors = 1
  MaxDeletes = 1
SYMMETRY Symmetry
SPECIFICATION Spec
INVARIANTS
  ReadYourWrites
  ServedIsStored
  CopiesAgree
PROPERTIES
  GoneForGood
