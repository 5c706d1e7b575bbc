\* One request after the other, placed with the executor of live mode.
SPECIFICATION LiveSpec
CONSTANTS
  c1 = c1
  s1 = s1
  Callers = {c1}
  Symbols = {s1}
  Quotes = {2}
  Requests <- TwoRequests
  ExecutorName = "alpaca-paper"
  Equities = {60}
  Scale = 10
  FeeRate = 0
  InitialCash = 60
  MaxOpenPositions = 1
  MaxPositionSizePct = 50
  DailyTradeLimit = 1
  MaxDrawdownPct = 20
  Overlap = FALSE
  MaxPosts = 2
  MaxDays = 1
  MaxRestarts = 0
INVARIANTS
  OrdersLogged
CHECK_DEADLOCK FALSE
