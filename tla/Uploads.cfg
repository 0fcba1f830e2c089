CONSTANTS
  u1 = u1
  r1 = r1
  r2 = r2
  Uploads = {u1}
  Requests = {r1, r2}
  Size = 2
  Piece = 1
  MaxTries = 1
  MaxMishaps = 2
SPECIFICATION Spec
INVARIANTS FilesWhole EditsBeside ToldStaysUnlessOvertaken CancelHolds
PROPERTIES TurnComes
CHECK_DEADLOCK FALSE
