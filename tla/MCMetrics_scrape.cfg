CONSTANTS
  r1 = r1
  r2 = r2
  Requests <- MCRequests
  Scraped <- MCScraped
  MaxEvents = 2
  Mixed = 1
  MaxSpent = 1
SYMMETRY Sym
SPECIFICATION MetricsSpec
INVARIANTS
  AnswersAgree
  HitRateSound
  GaugesReturn
CHECK_DEADLOCK FALSE
