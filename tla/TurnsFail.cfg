CONSTANTS
  m1 = m1  m2 = m2  n1 = n1
  Messages = {m1, m2}
  Steerable = {m2}
  Notes = {}
  Rationed = TRUE
  Breaks = TRUE
  MaxRestarts = 0
SPECIFICATION FairSpec
PROPERTIES Rests
CHECK_DEADLOCK FALSE
