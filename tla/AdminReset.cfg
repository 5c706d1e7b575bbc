\* Two agents whose fills interleave, a restart and a reset at any moment.
SPECIFICATION ResetSpec
CONSTANTS
  a1 = a1
  a2 = a2
  c1 = c1
  c2 = c2
  s1 = s1
  Agents = {a1, a2}
  Callers = {c1, c2}
  Symbols = {s1}
  Prices = {1, 2}
  Quantities = {1}
  Scale = 10
  FeeRate = 1
  StartingBalance = 21
  MaxOrders = 2
  MaxRestarts = 1
  Overlap = FALSE
  MaxResets = 1
INVARIANTS
  TypeOK
  AccountsStartOver
PROPERTIES
  OnlyFillsMoveCash
  Answered
CHECK_DEADLOCK FALSE
