\* Two symbols, three indicators with different limits, three days, a restart.
SPECIFICATION RotationSpec
CONSTANTS
  s1 = s1
  s2 = s2
  Symbols = {s1, s2}
  Universe <- BothSymbols
  Prices = {1, 2}
  Configs <- AllTypes
  InitialBars <- ThreeBars
  MaxBars = 4
  InitialCash = 100
  Scale = 10
  FeeRate = 1
  MaxDays = 3
  MaxCycles = 3
  MaxCrashes = 1
INVARIANTS
  WithinLimits
  BookFollowsScreen
  IndicatorsAreRight
  SignalsAreBacked
CHECK_DEADLOCK FALSE
