\* Two requests and two evaluations of a theme; crashes.
SPECIFICATION FairSpec
CONSTANTS
  Themes = {t1}
  Handlers = {h1, h2}
  Evaluators = {e1, e2}
  ForeignKeys = TRUE
  Overlap = FALSE
  MaxRestarts = 2
  Unborn = Unborn
  Gone = Gone
  Nobody = Nobody
INVARIANTS
  OneTimer
  EnabledRuns
  FundedBeforeTicking
PROPERTIES
  EnabledServed
CHECK_DEADLOCK FALSE
