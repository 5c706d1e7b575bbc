\* Two evaluations of one theme overlap; one of them may lose its record.
SPECIFICATION FairSpec
CONSTANTS
  e1 = e1
  e2 = e2
  s1 = s1
  s2 = s2
  s3 = s3
  Evaluators = {e1, e2}
  Symbols = {s1}
  Quotes = {}
  Feed <- PairFeed
  FetchLimit = 2
  Scale = 1000
  FeeRate = 1
  StartingCash = 100000
  MaxPositions = 2
  MaxAllocationPct = 25
  MaxTotalAllocationPct = 95
  MaxRestarts = 0
  Overlap = TRUE
PROPERTIES
  EveryDisclosureDecided
CHECK_DEADLOCK FALSE
