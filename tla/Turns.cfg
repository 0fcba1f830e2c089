CONSTANTS
  m1 = m1  m2 = m2  n1 = n1
  Messages = {m1, m2}
  Steerable = {m1, m2}
  Notes = {n1}
  Rationed = FALSE
  Breaks = FALSE
  MaxRestarts = 1
SPECIFICATION Spec
SYMMETRY Symmetric
INVARIANTS TurnDriven WaitingServed NothingLost SaidRead
CHECK_DEADLOCK FALSE
