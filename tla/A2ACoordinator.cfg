\* Two agents in the three roles, the pipeline next to the coordinator, a restart.
SPECIFICATION Spec
CONSTANTS
  Agents = {"Doom", "Thanos"}
  Seeds = {"Doom"}
  Researcher = "Doom"
  Validator = "Thanos"
  Executor = "Thanos"
  Symbols = {s1, s2}
  Prices = {2}
  Quotes <- HalfOrUnknown
  Quantities = {1}
  Pipeline = "pipeline"
  Coordinator = "coordinator"
  Runners = {"pipeline", "coordinator"}
  StartingBalance = 110
  Scale = 10
  FeeRate = 1
  MaxAllocationPct = 20
  MaxTotalAllocationPct = 30
  MaxPositions = 1
  MaxSignals <- TwoAndOne
  TradesLimit = 2
  RecentTrades = 1
  MaxRuns = 1
  MaxRequests = 1
  MaxRestarts = 1
  MaxA2ACycles = 1
SYMMETRY SymbolsAlike
INVARIANTS
  StrategyKeepsLimits
  
CHECK_DEADLOCK FALSE
