CONSTANTS
  Retries = 3
  RetryCount = 2
  Delay <- MCDelay
  Grace = 2
  Lag = 0
  Requests = {r1}
  Joined = TRUE
  MaxFaults = 1
SPECIFICATION FairSpec
INVARIANTS
  OnePool
  ShutdownSparesMessages
  NoFalse404
  OrderlyExit
PROPERTIES
  StartDecides
  RunReturns
