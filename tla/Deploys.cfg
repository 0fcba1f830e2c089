CONSTANTS
  None = None
  MaxChanges = 2
  MaxMishaps = 1
SPECIFICATION Spec
INVARIANTS LatestPublished ReadyRuns
PROPERTIES NothingUndone Converges
CHECK_DEADLOCK FALSE
