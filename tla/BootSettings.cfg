\* Two servers, three migrations of which the second may be redundant, four
\* boots, two PUTs of two limits.
SPECIFICATION BootSpec
CONSTANTS
  Servers = {s1, s2}
  Versions = {1, 2, 3}
  Duplicates = {2}
  Limits = {low, high}
  Env = env
  Unset = unset
  Puts = {p1, p2}
  MaxBoots = 4
SYMMETRY Alike
INVARIANTS
  MigratedOnce
  LimitsSurvive
CHECK_DEADLOCK FALSE
