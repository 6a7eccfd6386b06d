CONSTANTS
  Workers = 2
  AmountTask = 4
  FirstId = 500000000
  MaxFaults = 2
SPECIFICATION FairSpec
INVARIANTS
  SlotsConserved
  EachOrderOnce
PROPERTIES
  ProducerEnds
CHECK_DEADLOCK FALSE
