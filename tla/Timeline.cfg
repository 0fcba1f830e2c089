CONSTANTS
  p1 = p1  p2 = p2
  Pages = {p1}
  MaxSeq = 5
  MaxAway = 2
SPECIFICATION Spec
INVARIANTS Mirror WaitingShown
 
CHECK_DEADLOCK FALSE
