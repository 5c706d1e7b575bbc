\* Two requests at once, two days, a crash.
SPECIFICATION Spec
CONSTANTS
  c1 = c1
  c2 = c2
  s1 = s1
  s2 = s2
  s3 = s3
  Callers = {c1, c2}
  Symbols = {s1, s2, s3}
  Quotes = {1, 2}
  Requests <- MixedRequests
  ExecutorName = "simulated"
  Scale = 10
  FeeRate = 1
  InitialCash = 60
  MaxOpenPositions = 1
  MaxPositionSizePct = 50
  DailyTradeLimit = 1
  MaxDrawdownPct = 20
  Overlap = TRUE
  MaxPosts = 3
  MaxDays = 2
  MaxRestarts = 1
INVARIANTS
  DailyLimitKept
  PositionsKept
  
  OrdersLogged
PROPERTIES
  HaltIsFinal
CHECK_DEADLOCK FALSE
