\* Two callers, two symbols of which one is watched, two days of three ticks.
SPECIFICATION Spec
CONSTANTS
  Subjects = {"bargo", "dashboard", "prices"}
  Callers = {c1, c2}
  Symbols = {"s1", "s2"}
  Watched = {"s1"}
  Ttl = 2
  Quota = 2
  Floor = 1
  DayLength = 3
  MaxTime = 5
  MaxVersion = 2
  MaxSpent = 3
  MaxRestarts = 1
SYMMETRY CallersAlike
INVARIANTS
  ServedWithinTtl
  
PROPERTY PricesMoveForward
CHECK_DEADLOCK FALSE
