CONSTANTS
  Paths <- Names
  Edited <- OneFile
  Racers = {"agent", "person"}
  MaxEdits = 4
  MaxNodes = 4
  MaxMishaps = 1
SPECIFICATION Spec
INVARIANTS TwoSyncsAgree
PROPERTIES EditsKept TrashesOnlyGivenUp
CHECK_DEADLOCK FALSE
