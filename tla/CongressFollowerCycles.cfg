\* Cycles one after the other over more disclosures than the limits let through; a crash.
SPECIFICATION Spec
CONSTANTS
  e1 = e1
  e2 = e2
  s1 = s1
  s2 = s2
  s3 = s3
  Evaluators = {e1}
  Symbols = {s1, s2, s3}
  Quotes = {2}
  Feed <- MixedFeed
  FetchLimit = 7
  Scale = 1000
  FeeRate = 1
  StartingCash = 700000
  MaxPositions = 2
  MaxAllocationPct = 40
  MaxTotalAllocationPct = 95
  MaxRestarts = 1
  Overlap = FALSE
INVARIANTS
  RepeatsBounded
  
  PositionsCapped
  RoomForFee
PROPERTIES
  ProcessedIsFinal
  ExposureCapped
CHECK_DEADLOCK FALSE
