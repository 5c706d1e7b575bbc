\* One agent, calls one after the other, two symbols.
SPECIFICATION Spec
CONSTANTS
  a1 = a1
  a2 = a2
  c1 = c1
  c2 = c2
  s1 = s1
  s2 = s2
  Agents = {a1}
  Callers = {c1}
  Symbols = {s1, s2}
  Prices = {1, 2}
  Quantities = {0, 1, 2}
  Scale = 10
  FeeRate = 1
  StartingBalance = 34
  MaxOrders = 4
  MaxRestarts = 1
  Overlap = FALSE
INVARIANTS
  Conserved
  RealizedExplained
  LedgerInv
  LongOnly
PROPERTIES
  
  ImplementsLedger
CHECK_DEADLOCK FALSE
