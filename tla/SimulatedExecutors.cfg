\* Both accounts: orders that wait, cancels that interrupt a sweep, a restart.
SPECIFICATION Spec
CONSTANTS
  s1 = s1
  c1 = c1
  c2 = c2
  Callers = {c1, c2}
  Symbols = {s1}
  Prices = {1, 2}
  Quantities = {0, 1}
  InitialCash = 31
  Scale = 10
  FeeRate = 1
  MaxCalls = 4
  MaxRestarts = 1
INVARIANTS
  OrdersExplainAccount
  OneLife
PROPERTIES
  ImplementsLedger
CHECK_DEADLOCK FALSE
