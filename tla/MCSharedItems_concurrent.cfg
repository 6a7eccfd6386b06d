CONSTANTS
  a = a
  b = b
  d = d
  w1 = w1
  w2 = w2
  Writers <- MCWriters
  Readers = {r1}
  Uids = {a, b, d}
  Chrts = {1, 2, 3, 4}
  Columns = {"old", "new"}
  Orders <- MCOrders
  None = None
SYMMETRY Sym
SPECIFICATION ItemsSpec
INVARIANTS
  PrivateItemsFaithful
  NothingInvented
