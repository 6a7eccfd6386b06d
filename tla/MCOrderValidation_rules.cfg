CONSTANTS
  GoMax = 7
  IntMax = 3
SPECIFICATION Spec
INVARIANTS
  AmountExact
  GapKnown
